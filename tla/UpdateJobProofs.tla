-------------------------- MODULE UpdateJobProofs ---------------------------
(***************************************************************************)
(* Proofs about Policies and UpdateJob, for any policies, families, ranges *)
(* and bounds.                                                             *)
(***************************************************************************)
EXTENDS UpdateJob, TLAPS

(* A term has ranges only when it has a <from>, and a statement has terms  *)
(* only when it is there.                                                  *)
TidyTerm(t) == t \in Term /\ (t.shape # "full" => t.ranges = {})
Tidy(s)     == /\ s \in Statement /\ \A f \in Families : TidyTerm(s.terms[f])
               /\ ~s.present => s = NoStatement

(* The <term> element computed from what a term accepts, when it is merged *)
(* into that same term, makes it accept what is wanted - whatever it was   *)
(* (load.rs:92-137).                                                       *)
LEMMA DifferencesMerge ==
  ASSUME NEW t, TidyTerm(t), NEW known \in BOOLEAN, ~known => t.ranges = {},
         NEW new \in SUBSET Ranges
  PROVE  /\ TidyTerm(Merged(t, Differences(known, t.ranges, new)))
         /\ Merged(t, Differences(known, t.ranges, new)).ranges = new
<1> DEFINE d == Differences(known, t.ranges, new)
<1>1. /\ d.delete <=> known /\ t.ranges # {} /\ new = {}
      /\ d.from <=> new # {}
      /\ d.remove = IF known THEN t.ranges \ new ELSE {}
      /\ d.add = IF known THEN new \ t.ranges ELSE new
  BY DEF Differences
<1>2. t \in Term /\ t.shape \in {"absent", "bare", "full"} /\ t.ranges \in SUBSET Ranges
  BY DEF TidyTerm, Term
<1>3. CASE d.delete
  <2>1. Merged(t, d) = NoTerm
    BY <1>3 DEF Merged
  <2>2. new = {}
    BY <1>1, <1>3
  <2> QED
    BY <2>1, <2>2 DEF TidyTerm, Term, NoTerm
<1>4. CASE ~d.delete /\ d.from
  <2>1. Merged(t, d) = [shape |-> "full", ranges |-> (t.ranges \ d.remove) \cup d.add]
    BY <1>4, <1>1 DEF Merged
  <2>2. (t.ranges \ d.remove) \cup d.add = new
    BY <1>1, <1>2
  <2> QED
    BY <2>1, <2>2 DEF TidyTerm, Term
<1>5. CASE ~d.delete /\ ~d.from
  <2>1. Merged(t, d) = IF t.shape = "absent" THEN Bare ELSE t
    BY <1>5, <1>1 DEF Merged
  <2>2. new = {} /\ t.ranges = {}
    BY <1>1, <1>5
  <2> QED
    BY <1>2, <2>1, <2>2 DEF TidyTerm, Term, Bare
<1> QED
  BY <1>1, <1>3, <1>4, <1>5

(* Loading the update of a policy makes its statement accept exactly what  *)
(* was evaluated, or removes it.                                           *)
LEMMA LoadedExactly ==
  ASSUME NEW s, Tidy(s), NEW n \in Names,
         NEW evaluated \in [Names -> Evaluated], NEW installed,
         installed[n] = [known |-> s.present, ranges |-> Accepts(s)],
         evaluated[n].status \in {"ok", "none"}
  PROVE  LET l == Loaded(s, n, evaluated, installed) IN
         /\ evaluated[n].status = "ok" =>
              Tidy(l) /\ l.present /\ Accepts(l) = evaluated[n].ranges
         /\ evaluated[n].status = "none" /\ s.present => l = NoStatement
<1> DEFINE l == Loaded(s, n, evaluated, installed)
<1>1. CASE evaluated[n].status = "ok"
  <2>1. n \notin ToDelete(evaluated, installed)
    BY <1>1 DEF ToDelete
  <2>2. l = [present |-> TRUE,
             terms |-> [f \in Families |->
               Merged(s.terms[f], Differences(s.present, s.terms[f].ranges,
                                              evaluated[n].ranges[f]))]]
    <3>1. installed[n].known = s.present /\ installed[n].ranges = Accepts(s)
      OBVIOUS
    <3>2. \A f \in Families : Accepts(s)[f] = s.terms[f].ranges
      BY DEF Accepts
    <3>3. l = [present |-> TRUE,
               terms |-> [f \in Families |->
                 Merged(s.terms[f], Differences(installed[n].known, installed[n].ranges[f],
                                                evaluated[n].ranges[f]))]]
      BY <2>1, Zenon DEF Loaded
    <3> QED
      BY <3>1, <3>2, <3>3
  <2>3. evaluated[n].ranges \in RangesOf /\ s.present \in BOOLEAN
    BY DEF Evaluated, Tidy, Statement
  <2>4. ASSUME NEW f \in Families
        PROVE  TidyTerm(l.terms[f]) /\ l.terms[f].ranges = evaluated[n].ranges[f]
    <3>1. TidyTerm(s.terms[f]) /\ evaluated[n].ranges[f] \in SUBSET Ranges
      BY <2>3 DEF Tidy, RangesOf
    <3>2. ~s.present => s.terms[f].ranges = {}
      BY DEF Tidy, NoStatement, NoTerm
    <3> QED
      BY <2>2, <2>3, <3>1, <3>2, DifferencesMerge
  <2>5. l \in Statement /\ l.present
    <3>1. \A f \in Families : l.terms[f] \in Term
      BY <2>4 DEF TidyTerm
    <3> QED
      BY <2>2, <3>1 DEF Statement
  <2>6. Accepts(l) = evaluated[n].ranges
    BY <2>3, <2>4 DEF Accepts, RangesOf
  <2> QED
    BY <1>1, <2>4, <2>5, <2>6 DEF Tidy
<1>2. CASE evaluated[n].status = "none"
  BY <1>2 DEF Loaded, ToDelete
<1> QED
  BY <1>1, <1>2

----------------------------------------------------------------------------
(* What a job knows and has sent, at each of its steps. *)

(* The ephemeral database is as the job has read it until the job commits. *)
ListedIsCurrent ==
  /\ pc = "fetching" => working = committed
  /\ job.listed /\ pc # "closing" => job.installed = ReadInstalled(committed)

(* A policy is no candidate because the running configuration says so.     *)
EvaluatedFromSeen ==
  /\ \A n \in Names : job.evaluated[n].status = "pending" => job.evaluated[n] = Pending
  /\ job.fetched =>
       \A n \in Names : job.evaluated[n].status = "none" <=> job.seen[n] \notin Managed

(* The session's copy differs from the database by the updates sent.       *)
SentIsLoaded ==
  /\ job.unsent \subseteq ToSend
  /\ ~job.rejected => \A n \in Names : working[n] =
       IF n \in ToSend \ job.unsent
       THEN Loaded(committed[n], n, job.evaluated, job.installed)
       ELSE committed[n]

AllAccepted == job.unsent = {} /\ ~job.rejected

JobInv ==
  /\ TypeOK
  /\ \A n \in Names : Tidy(committed[n])
  /\ ListedIsCurrent /\ EvaluatedFromSeen
  /\ pc \in {"loading", "committing"} =>
       job.fetched /\ job.listed /\ ~Evaluating /\ SentIsLoaded
  /\ pc = "committing" => AllAccepted

LEMMA DataTyped ==
  /\ NoJob \in JobState /\ Empty \in RangesOf /\ NoStatement \in Statement
  /\ NotCandidate \in Evaluated /\ Pending \in Evaluated /\ EvalFailed \in Evaluated
  /\ \A r \in RangesOf : EvalOk(r) \in Evaluated
<1>1. Empty \in RangesOf
  BY DEF Empty, RangesOf
<1>2. NoStatement \in Statement
  BY DEF NoStatement, Statement, NoTerm, Term
<1>3. NotCandidate \in Evaluated /\ Pending \in Evaluated /\ EvalFailed \in Evaluated
  BY <1>1 DEF NotCandidate, Pending, EvalFailed, Evaluated
<1>4. \A r \in RangesOf : EvalOk(r) \in Evaluated
  BY DEF EvalOk, Evaluated
<1>5. NoJob \in JobState
  BY <1>1, <1>3 DEF NoJob, JobState, Kinds, Installed
<1> QED
  BY <1>1, <1>2, <1>3, <1>4, <1>5

LEMMA ReadTyped ==
  ASSUME NEW db \in [Names -> Statement]
  PROVE  /\ ReadInstalled(db) \in [Names -> Installed]
         /\ \A n \in Names : ReadInstalled(db)[n]
              = [known |-> db[n].present, ranges |-> Accepts(db[n])]
BY DEF ReadInstalled, Installed, RangesOf, Accepts, Statement, Term

(* Whatever a statement is, loading an update leaves a statement.          *)
LEMMA LoadedTyped ==
  ASSUME NEW s \in Statement, NEW n \in Names, NEW evaluated \in [Names -> Evaluated],
         NEW installed \in [Names -> Installed]
  PROVE  Loaded(s, n, evaluated, installed) \in Statement
<1>1. ASSUME NEW f \in Families
      PROVE  Merged(s.terms[f], Differences(installed[n].known, installed[n].ranges[f],
                                            evaluated[n].ranges[f])) \in Term
  <2> DEFINE old == installed[n].ranges[f]
             new == evaluated[n].ranges[f]
             d   == Differences(installed[n].known, old, new)
             t   == s.terms[f]
  <2>1. t \in Term /\ new \in SUBSET Ranges
    BY DEF Statement, Evaluated, RangesOf
  <2>2. d.add \subseteq Ranges
    BY <2>1 DEF Differences
  <2>3. (t.ranges \ d.remove) \cup d.add \in SUBSET Ranges
    BY <2>1, <2>2 DEF Term
  <2> QED
    BY <2>1, <2>3 DEF Merged, Term, NoTerm, Bare
<1>2. NoStatement \in Statement
  BY DataTyped
<1> QED
  BY <1>1, <1>2 DEF Loaded, Statement

----------------------------------------------------------------------------
LEMMA JobInit == Init => JobInv
<1> SUFFICES ASSUME Init PROVE JobInv
  OBVIOUS
<1>1. TypeOK
  BY DataTyped, JobAssumption DEF Init, TypeOK, Steps
<1>2. \A n \in Names : Tidy(committed[n])
  BY DataTyped DEF Init, Tidy, TidyTerm, NoStatement, NoTerm, Term
<1>3. ListedIsCurrent /\ EvaluatedFromSeen
  BY DEF Init, ListedIsCurrent, EvaluatedFromSeen, NoJob, NotCandidate
<1> QED
  BY <1>1, <1>2, <1>3 DEF Init, JobInv

(* A job that is over leaves the invariant to the database.                *)
LEMMA OverStep ==
  ASSUME JobOver, \A n \in Names : Tidy(committed'[n]), committed' \in [Names -> Statement],
         running' \in [Names -> Kinds], irr' \in [Names -> Results],
         changes' \in 0 .. MaxChanges, faults' \in 0 .. MaxFaults
  PROVE  JobInv'
<1>1. TypeOK'
  BY DataTyped DEF JobOver, TypeOK, Steps
<1>2. (ListedIsCurrent /\ EvaluatedFromSeen)'
  BY DEF JobOver, ListedIsCurrent, EvaluatedFromSeen, NoJob, NotCandidate
<1> QED
  BY <1>1, <1>2 DEF JobInv, JobOver

(* What a session has when it commits is what was evaluated.               *)
LEMMA CommittingExactly ==
  ASSUME JobInv, pc = "committing", NEW n \in Names
  PROVE  /\ Tidy(working[n])
         /\ CASE job.evaluated[n].status = "ok" ->
                   working[n].present /\ Accepts(working[n]) = job.evaluated[n].ranges
              [] job.evaluated[n].status = "failed" -> working[n] = committed[n]
              [] OTHER -> working[n] = NoStatement
<1> DEFINE e == job.evaluated
           s == committed[n]
<1>1. /\ Tidy(s) /\ e \in [Names -> Evaluated] /\ committed \in [Names -> Statement]
      /\ job.listed /\ job.fetched /\ ~Evaluating /\ SentIsLoaded /\ AllAccepted
      /\ ListedIsCurrent /\ EvaluatedFromSeen
  BY DEF JobInv, TypeOK, JobState
<1>2. job.installed[n] = [known |-> s.present, ranges |-> Accepts(s)]
  BY <1>1, ReadTyped DEF ListedIsCurrent
<1>3. working[n] = IF n \in ToSend THEN Loaded(s, n, e, job.installed) ELSE s
  BY <1>1 DEF SentIsLoaded, AllAccepted
<1>4. e[n].status \in {"ok", "failed", "none"}
  BY <1>1 DEF EvaluatedFromSeen, Evaluating, Evaluated
<1>5. CASE e[n].status = "ok"
  <2>1. n \in ToSend
    BY <1>5 DEF ToSend, ToUpdate
  <2> QED
    BY <1>1, <1>2, <1>3, <1>5, <2>1, LoadedExactly
<1>6. CASE e[n].status = "failed"
  <2>1. n \notin ToSend
    BY <1>6 DEF ToSend, ToUpdate, ToDelete
  <2> QED
    BY <1>1, <1>3, <1>6, <2>1
<1>7. CASE e[n].status = "none"
  <2>1. working[n] = NoStatement
    <3>1. CASE s.present
      <4>1. n \in ToDelete(e, job.installed)
        BY <1>2, <1>7, <3>1 DEF ToDelete
      <4> QED
        BY <1>3, <4>1 DEF Loaded, ToSend
    <3>2. CASE ~s.present
      <4>1. n \notin ToSend
        BY <1>2, <1>7, <3>2 DEF ToSend, ToDelete, ToUpdate
      <4> QED
        BY <1>1, <1>3, <3>2, <4>1 DEF Tidy
    <3> QED
      BY <3>1, <3>2
  <2>2. Tidy(NoStatement)
    BY DataTyped DEF Tidy, TidyTerm, NoStatement, NoTerm, Term
  <2> QED
    BY <1>7, <2>1, <2>2
<1> QED
  BY <1>4, <1>5, <1>6, <1>7

LEMMA JobStep == ASSUME JobInv, [Next]_vars PROVE JobInv'
<1> USE DEF world
<1>t. /\ TypeOK /\ job \in JobState /\ job.evaluated \in [Names -> Evaluated]
      /\ job.installed \in [Names -> Installed]
      /\ \A n \in Names : Tidy(committed[n])
  BY DEF JobInv, TypeOK, JobState
<1>1. ASSUME NEW n \in Names, Edit(n) \/ IrrChanges(n) PROVE JobInv'
  <2>1. TypeOK'
    BY <1>1, <1>t, JobAssumption DEF Edit, IrrChanges, TypeOK
  <2>2. UNCHANGED <<committed, working, pc, job>>
    BY <1>1 DEF Edit, IrrChanges
  <2> QED
    BY <2>1, <2>2 DEF JobInv, ListedIsCurrent, EvaluatedFromSeen, SentIsLoaded, AllAccepted,
                      ToSend, Evaluating
<1>2. CASE Begin
  <2>1. TypeOK'
    BY <1>2, <1>t DEF Begin, TypeOK, Steps
  <2> QED
    BY <1>2, <2>1 DEF Begin, JobInv, ListedIsCurrent, EvaluatedFromSeen
<1>3. CASE FetchCandidates
  <2>1. CASE CandidatesReadable(running)
    <3> DEFINE e == [n \in Names |-> IF n \in Candidates(running) THEN Pending ELSE NotCandidate]
    <3>1. job' = [job EXCEPT !.fetched = TRUE, !.seen = running, !.evaluated = e]
      BY <1>3, <2>1 DEF FetchCandidates
    <3>2. e \in [Names -> Evaluated]
      BY DataTyped
    <3>3. job' \in JobState /\ job'.fetched /\ job'.seen = running /\ job'.evaluated = e
          /\ job'.installed = job.installed /\ (job'.listed <=> job.listed)
      BY <1>t, <3>1, <3>2 DEF JobState, TypeOK
    <3>4. UNCHANGED <<running, irr, changes, committed, working, pc, faults>> /\ pc = "fetching"
      BY <1>3, <2>1 DEF FetchCandidates
    <3>5. TypeOK'
      BY <1>t, <3>3, <3>4 DEF TypeOK
    <3>6. EvaluatedFromSeen'
      BY <3>3 DEF EvaluatedFromSeen, Candidates, Pending, NotCandidate
    <3> QED
      BY <3>3, <3>4, <3>5, <3>6 DEF JobInv, ListedIsCurrent
  <2>2. CASE ~CandidatesReadable(running)
    BY <1>3, <1>t, <2>2, OverStep DEF FetchCandidates, TypeOK
  <2> QED
    BY <2>1, <2>2
<1>4. ASSUME NEW n \in Names, EvaluatePolicy(n) PROVE JobInv'
  <2>1. PICK r \in {EvalFailed} \cup {EvalOk(result) : result \in Results} :
          job' = [job EXCEPT !.evaluated[n] = r]
    BY <1>4, <1>t DEF EvaluatePolicy, TypeOK
  <2>2. r \in Evaluated /\ r.status \in {"ok", "failed"} /\ job.evaluated[n].status = "pending"
    BY <1>4, <1>t, DataTyped, JobAssumption
       DEF EvaluatePolicy, TypeOK, EvalOk, EvalFailed, Pending
  <2>3. /\ job' \in JobState /\ job'.evaluated = [job.evaluated EXCEPT ![n] = r]
        /\ job'.installed = job.installed /\ job'.seen = job.seen
        /\ (job'.listed <=> job.listed) /\ (job'.fetched <=> job.fetched)
    BY <1>t, <2>1, <2>2 DEF JobState
  <2>4. UNCHANGED <<running, irr, changes, committed, working, pc>> /\ pc = "fetching"
    BY <1>4 DEF EvaluatePolicy
  <2>5. faults' \in 0 .. MaxFaults
    BY <1>4, <1>t, JobAssumption DEF EvaluatePolicy, TypeOK
  <2>6. TypeOK'
    BY <1>t, <2>3, <2>4, <2>5 DEF TypeOK
  <2>7. EvaluatedFromSeen'
    BY <1>t, <2>2, <2>3 DEF EvaluatedFromSeen, JobInv
  <2> QED
    BY <2>3, <2>4, <2>6, <2>7 DEF JobInv, ListedIsCurrent
<1>5. ASSUME NEW n \in Names, EvaluatorPanics(n) PROVE JobInv'
  BY <1>5, <1>t, OverStep DEF EvaluatorPanics, TypeOK
<1>6. CASE FetchInstalled
  <2>1. CASE InstalledReadable(working)
    <3>1. job' = [job EXCEPT !.listed = TRUE, !.installed = ReadInstalled(working)]
      BY <1>6, <2>1 DEF FetchInstalled
    <3>2. ReadInstalled(working) \in [Names -> Installed]
      BY <1>t, ReadTyped DEF TypeOK
    <3>3. /\ job' \in JobState /\ job'.installed = ReadInstalled(working)
          /\ job'.evaluated = job.evaluated /\ job'.seen = job.seen
          /\ (job'.fetched <=> job.fetched)
      BY <1>t, <3>1, <3>2 DEF JobState
    <3>4. UNCHANGED <<running, irr, changes, committed, working, pc, faults>> /\ pc = "fetching"
      BY <1>6, <2>1 DEF FetchInstalled
    <3>5. TypeOK'
      BY <1>t, <3>3, <3>4 DEF TypeOK
    <3>6. ListedIsCurrent' /\ EvaluatedFromSeen'
      BY <3>3, <3>4 DEF JobInv, ListedIsCurrent, EvaluatedFromSeen
    <3> QED
      BY <3>4, <3>5, <3>6 DEF JobInv
  <2>2. CASE ~InstalledReadable(working)
    BY <1>6, <1>t, <2>2, OverStep DEF FetchInstalled, TypeOK
  <2> QED
    BY <2>1, <2>2
<1>7. CASE Compare
  <2>1. ToSend \in SUBSET Names
    BY DEF ToSend, ToDelete, ToUpdate
  <2>2. /\ job' \in JobState /\ job'.unsent = ToSend /\ job'.evaluated = job.evaluated
        /\ job'.installed = job.installed /\ job'.seen = job.seen
        /\ (job'.listed <=> job.listed) /\ (job'.fetched <=> job.fetched)
    BY <1>7, <1>t, <2>1 DEF Compare, JobState
  <2>3. /\ UNCHANGED <<running, irr, changes, committed, working, faults>>
        /\ pc = "fetching" /\ pc' = "loading" /\ job.fetched /\ job.listed /\ ~Evaluating
    BY <1>7 DEF Compare
  <2>4. TypeOK'
    BY <1>t, <2>2, <2>3 DEF TypeOK, Steps
  <2>5. ListedIsCurrent' /\ EvaluatedFromSeen'
    BY <2>2, <2>3 DEF JobInv, ListedIsCurrent, EvaluatedFromSeen
  <2>6. job'.fetched /\ job'.listed /\ ~Evaluating' /\ ToSend' = job'.unsent
    BY <2>2, <2>3 DEF Evaluating, ToSend
  <2>7. SentIsLoaded'
    BY <2>3, <2>6 DEF SentIsLoaded, JobInv, ListedIsCurrent
  <2> QED
    BY <1>t, <2>3, <2>4, <2>5, <2>6, <2>7 DEF JobInv
<1>8. ASSUME NEW n \in Names, SendUpdate(n) PROVE JobInv'
  <2>1. /\ job.fetched /\ job.listed /\ ~Evaluating /\ SentIsLoaded
        /\ ListedIsCurrent /\ EvaluatedFromSeen /\ n \in job.unsent
        /\ UNCHANGED <<running, irr, changes, committed, pc>> /\ pc = "loading"
    BY <1>8 DEF SendUpdate, JobInv
  <2>2. /\ job' \in JobState /\ job'.unsent = job.unsent \ {n}
        /\ job'.evaluated = job.evaluated /\ job'.installed = job.installed
        /\ job'.seen = job.seen
        /\ (job'.listed <=> job.listed) /\ (job'.fetched <=> job.fetched)
    BY <1>8, <1>t DEF SendUpdate, JobState
  <2>3. faults' \in 0 .. MaxFaults
    BY <1>8, <1>t, JobAssumption DEF SendUpdate, TypeOK
  <2>4. working' \in [Names -> Statement]
    <3>1. Loaded(working[n], n, job.evaluated, job.installed) \in Statement
      BY <1>t, LoadedTyped DEF TypeOK
    <3> QED
      BY <1>8, <1>t, <3>1 DEF SendUpdate, TypeOK
  <2>5. TypeOK'
    BY <1>t, <2>1, <2>2, <2>3, <2>4 DEF TypeOK
  <2>6. ListedIsCurrent' /\ EvaluatedFromSeen' /\ ~Evaluating'
    BY <2>1, <2>2 DEF ListedIsCurrent, EvaluatedFromSeen, Evaluating
  <2>7. SentIsLoaded'
    <3> SUFFICES ASSUME ~job'.rejected, NEW m \in Names
                 PROVE  working'[m] = IF m \in ToSend \ job'.unsent
                                      THEN Loaded(committed[m], m, job.evaluated, job.installed)
                                      ELSE committed[m]
      BY <2>1, <2>2 DEF SentIsLoaded, ToSend
    <3>0. n \in ToSend
      BY <2>1 DEF SentIsLoaded
    <3>1. /\ ~job.rejected
          /\ working' = [working EXCEPT ![n] =
                           Loaded(working[n], n, job.evaluated, job.installed)]
      BY <1>8, <1>t DEF SendUpdate, JobState
    <3>2. working[n] = committed[n]
      BY <2>1, <3>1 DEF SentIsLoaded
    <3>3. CASE m = n
      BY <1>t, <2>2, <3>0, <3>1, <3>2, <3>3 DEF TypeOK
    <3>4. CASE m # n
      BY <1>t, <2>1, <2>2, <3>1, <3>4 DEF TypeOK, SentIsLoaded
    <3> QED
      BY <3>3, <3>4
  <2> QED
    BY <1>t, <2>1, <2>2, <2>5, <2>6, <2>7 DEF JobInv
<1>9. CASE AwaitUpdates
  <2>1. CASE job.rejected
    BY <1>9, <1>t, <2>1, OverStep DEF AwaitUpdates, TypeOK
  <2>2. CASE ~job.rejected
    <3>1. /\ UNCHANGED <<running, irr, changes, committed, working, job, faults>>
          /\ pc = "loading" /\ pc' = "committing" /\ job.unsent = {}
      BY <1>9, <2>2 DEF AwaitUpdates
    <3> QED
      BY <2>2, <3>1 DEF JobInv, TypeOK, Steps, ListedIsCurrent, EvaluatedFromSeen,
                        SentIsLoaded, AllAccepted, ToSend, Evaluating
  <2> QED
    BY <2>1, <2>2
<1>10. CASE Commit
  <2>1. /\ UNCHANGED <<running, irr, changes, working, job, faults>> /\ committed' = working
        /\ pc = "committing" /\ pc' = "closing"
    BY <1>10 DEF Commit
  <2>2. TypeOK'
    BY <1>t, <2>1 DEF TypeOK, Steps
  <2>3. \A n \in Names : Tidy(committed'[n])
    BY <2>1, CommittingExactly
  <2> QED
    BY <2>1, <2>2, <2>3 DEF JobInv, ListedIsCurrent, EvaluatedFromSeen
<1>11. CASE Finish
  BY <1>11, <1>t, OverStep DEF Finish, TypeOK
<1>12. CASE Fail
  <2>1. \A n \in Names : Tidy(committed'[n])
    BY <1>12, <1>t, CommittingExactly DEF Fail
  <2>2. faults' \in 0 .. MaxFaults /\ committed' \in [Names -> Statement]
    BY <1>12, <1>t, JobAssumption DEF Fail, TypeOK
  <2> QED
    BY <1>12, <1>t, <2>1, <2>2, OverStep DEF Fail, TypeOK
<1>13. CASE UNCHANGED vars
  BY <1>13 DEF vars, JobInv, TypeOK, ListedIsCurrent, EvaluatedFromSeen, SentIsLoaded,
               AllAccepted, ToSend, Evaluating
<1> QED
  BY <1>1, <1>2, <1>3, <1>4, <1>5, <1>6, <1>7, <1>8, <1>9, <1>10, <1>11, <1>12, <1>13
     DEF Next, Job

(* The invariant of the agent's jobs, in every reachable state. *)
THEOREM JobsInvariant == Spec => []JobInv
<1>1. JobInv /\ [Next]_vars => JobInv'
  BY JobStep
<1> QED
  BY <1>1, JobInit, PTL DEF Spec

(* Every state of the device and of a job is one the job can be in, and    *)
(* between jobs nothing is left of the last one (task.rs:45-126).          *)
THEOREM JobsTyped == Spec => []TypeOK
<1>1. JobInv => TypeOK
  BY DEF JobInv
<1> QED
  BY <1>1, JobsInvariant, PTL

(* What a job commits is exactly what it evaluated, for any policies,      *)
(* ranges and order of the updates, with refused updates and lost answers  *)
(* (task.rs:101-114, compare.rs, load.rs).                                 *)
THEOREM CommitsExactly == Spec => CommitIsExact
<1> DEFINE Exact == pc = "committing" /\ (pc' = "closing" \/ committed' # committed) =>
      \A n \in Names :
        CASE job.evaluated[n].status = "ok" ->
               committed'[n].present /\ Accepts(committed'[n]) = job.evaluated[n].ranges
          [] job.evaluated[n].status = "failed" -> committed'[n] = committed[n]
          [] OTHER -> committed'[n] = NoStatement
<1>1. ASSUME JobInv, [Next]_vars PROVE [Exact]_vars
  <2> SUFFICES ASSUME pc = "committing", pc' = "closing" \/ committed' # committed,
                      NEW n \in Names
               PROVE  CASE job.evaluated[n].status = "ok" ->
                             committed'[n].present
                             /\ Accepts(committed'[n]) = job.evaluated[n].ranges
                        [] job.evaluated[n].status = "failed" -> committed'[n] = committed[n]
                        [] OTHER -> committed'[n] = NoStatement
    OBVIOUS
  <2>1. committed' = working
    BY <1>1 DEF Next, vars, world, Job, JobOver, Edit, IrrChanges, Begin, FetchCandidates,
                EvaluatePolicy, EvaluatorPanics, FetchInstalled, Compare, SendUpdate,
                AwaitUpdates, Commit, Finish, Fail
  <2> QED
    BY <1>1, <2>1, CommittingExactly
<1> QED
  BY <1>1, JobsInvariant, PTL DEF Spec, CommitIsExact

(* Only what the running configuration does not manage is ever deleted     *)
(* (compare.rs:45-46).                                                     *)
THEOREM DeletesOnlyUnasked == Spec => OnlyUnaskedIsDeleted
<1> DEFINE Kept == \A n \in Names : committed[n].present /\ ~committed'[n].present =>
                     job.fetched /\ job.seen[n] \notin Managed
<1>1. ASSUME JobInv, [Next]_vars PROVE [Kept]_vars
  <2> SUFFICES ASSUME NEW n \in Names, committed[n].present, ~committed'[n].present
               PROVE  job.fetched /\ job.seen[n] \notin Managed
    OBVIOUS
  <2>1. pc = "committing" /\ committed' = working
    BY <1>1 DEF Next, vars, world, Job, JobOver, Edit, IrrChanges, Begin, FetchCandidates,
                EvaluatePolicy, EvaluatorPanics, FetchInstalled, Compare, SendUpdate,
                AwaitUpdates, Commit, Finish, Fail
  <2>2. job.fetched /\ EvaluatedFromSeen /\ ~Evaluating /\ job.evaluated \in [Names -> Evaluated]
    BY <1>1, <2>1 DEF JobInv, TypeOK, JobState
  <2>3. job.evaluated[n].status = "none"
    BY <1>1, <2>1, <2>2, CommittingExactly DEF EvaluatedFromSeen, Evaluating, Evaluated
  <2> QED
    BY <2>2, <2>3 DEF EvaluatedFromSeen
<1> QED
  BY <1>1, JobsInvariant, PTL DEF Spec, OnlyUnaskedIsDeleted

=============================================================================
