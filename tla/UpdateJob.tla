----------------------------- MODULE UpdateJob ------------------------------
(***************************************************************************)
(* Update jobs of the agent, Updater::run in junos-agent/src/task.rs, one  *)
(* after the other against one device: open the ephemeral database, fetch  *)
(* and evaluate the candidates while the installed policies are fetched,   *)
(* compare, load the differences, commit, close.  The operator edits the   *)
(* running configuration and the IRR data change at any time; any step may *)
(* fail; a job that fails loses its session, and the device then discards  *)
(* what it has not committed.                                              *)
(*                                                                         *)
(* Module Session is what carries the requests and Daemon decides when a   *)
(* job starts; here a job may start whenever none is running.              *)
(***************************************************************************)
EXTENDS Policies, Naturals

CONSTANTS Results,     \* what the IRR data can make of an expression
          MaxChanges,  \* bound: edits and changes of the IRR data
          MaxFaults    \* bound: steps that fail

ASSUME JobAssumption ==
  Results \subseteq RangesOf /\ MaxChanges \in Nat /\ MaxFaults \in Nat

VARIABLES
  running,    \* kind of each policy-statement of the running configuration
  irr,        \* what the expression of each policy evaluates to
  committed,  \* policy-statements of the ephemeral database
  working,    \* the copy of it that the open session changes
  pc,         \* step of Updater::run
  job,        \* what that call of run has learnt and still has to send
  changes, faults

world == <<running, irr, changes>>
vars  == <<world, committed, working, pc, job, faults>>

Steps == {"idle", "fetching", "loading", "committing", "closing"}

(* The running configuration as it was read and what was evaluated, once   *)
(* the task evaluate_candidates has its answer; the installed policies,    *)
(* once fetch_installed has; updates not sent; whether one was refused.    *)
JobState == [seen : [Names -> Kinds], evaluated : [Names -> Evaluated], fetched : BOOLEAN,
             installed : [Names -> Installed], listed : BOOLEAN,
             unsent : SUBSET Names, rejected : BOOLEAN]

NoJob == [seen      |-> [n \in Names |-> "skipped"],
          evaluated |-> [n \in Names |-> NotCandidate],
          fetched   |-> FALSE,
          installed |-> [n \in Names |-> [known |-> FALSE, ranges |-> Empty]],
          listed    |-> FALSE,
          unsent    |-> {},
          rejected  |-> FALSE]

Init ==
  /\ running \in [Names -> Kinds] /\ irr \in [Names -> Results]
  /\ committed = [n \in Names |-> NoStatement] /\ working = committed
  /\ pc = "idle" /\ job = NoJob
  /\ changes = 0 /\ faults = 0

----------------------------------------------------------------------------
(* The operator and the registries. *)

Edit(n) ==
  /\ changes < MaxChanges /\ changes' = changes + 1
  /\ \E k \in Kinds : running' = [running EXCEPT ![n] = k]
  /\ UNCHANGED <<irr, committed, working, pc, job, faults>>

IrrChanges(n) ==
  /\ changes < MaxChanges /\ changes' = changes + 1
  /\ \E r \in Results : irr' = [irr EXCEPT ![n] = r]
  /\ UNCHANGED <<running, committed, working, pc, job, faults>>

----------------------------------------------------------------------------
(* The job. *)

(* The job is over; its session goes and with it what was not committed.   *)
JobOver == pc' = "idle" /\ job' = NoJob /\ working' = committed'

(* connect, open_db, and both <get-config> requests.                       *)
Begin ==
  /\ pc = "idle"
  /\ pc' = "fetching" /\ working' = committed
  /\ UNCHANGED <<world, committed, job, faults>>

FetchCandidates ==
  /\ pc = "fetching" /\ ~job.fetched
  /\ UNCHANGED <<world, committed, faults>>
  /\ IF CandidatesReadable(running)
     THEN /\ job' = [job EXCEPT
              !.fetched = TRUE, !.seen = running,
              !.evaluated = [n \in Names |-> IF n \in Candidates(running)
                                             THEN Pending ELSE NotCandidate]]
          /\ UNCHANGED <<working, pc>>
     ELSE JobOver

(* An expression that does not evaluate is an error in the log, no more,   *)
(* and errors of single queries are not even that: the result is then what *)
(* the other queries gave (module Evaluator).                              *)
EvaluatePolicy(n) ==
  /\ pc = "fetching" /\ job.evaluated[n] = Pending
  /\ \/ /\ job.seen[n] # "peer-as"
        /\ job' = [job EXCEPT !.evaluated[n] = EvalOk(irr[n])]
        /\ UNCHANGED faults
     \/ /\ faults < MaxFaults /\ faults' = faults + 1
        /\ \E e \in {EvalFailed} \cup {EvalOk(r) : r \in Results} :
             job' = [job EXCEPT !.evaluated[n] = e]
  /\ UNCHANGED <<world, committed, working, pc>>

(* The resolver of PeerAS panics, which ends the task and with it the job. *)
EvaluatorPanics(n) ==
  /\ pc = "fetching" /\ job.evaluated[n] = Pending /\ job.seen[n] = "peer-as"
  /\ UNCHANGED <<world, committed, faults>>
  /\ JobOver

FetchInstalled ==
  /\ pc = "fetching" /\ ~job.listed
  /\ UNCHANGED <<world, committed, faults>>
  /\ IF InstalledReadable(working)
     THEN /\ job' = [job EXCEPT !.listed = TRUE, !.installed = ReadInstalled(working)]
          /\ UNCHANGED <<working, pc>>
     ELSE JobOver

ToSend == ToDelete(job.evaluated, job.installed) \cup ToUpdate(job.evaluated)
Evaluating == \E n \in Names : job.evaluated[n] = Pending

(* try_join!, then compare().                                              *)
Compare ==
  /\ pc = "fetching" /\ job.fetched /\ job.listed /\ ~Evaluating
  /\ pc' = "loading"
  /\ job' = [job EXCEPT !.unsent = ToSend]
  /\ UNCHANGED <<world, committed, working, faults>>

(* One <load-configuration>, in the order of a hash set; the requests are  *)
(* all sent before the first reply is awaited.                             *)
SendUpdate(n) ==
  /\ pc = "loading" /\ n \in job.unsent
  /\ \/ /\ job' = [job EXCEPT !.unsent = job.unsent \ {n}]
        /\ working' = [working EXCEPT ![n] = Loaded(working[n], n, job.evaluated, job.installed)]
        /\ UNCHANGED faults
     \/ /\ faults < MaxFaults /\ faults' = faults + 1
        /\ job' = [job EXCEPT !.unsent = job.unsent \ {n}, !.rejected = TRUE]
        /\ UNCHANGED working
  /\ UNCHANGED <<world, committed, pc>>

(* Mutant: the replies to the updates are not looked at. *)
AwaitUpdates_Unchecked ==
  /\ pc = "loading" /\ job.unsent = {}
  /\ pc' = "committing"
  /\ UNCHANGED <<world, committed, working, job, faults>>

(* Mutant: the session of a failed job, with its changes, is kept. *)
AwaitUpdates_KeepsSession ==
  /\ pc = "loading" /\ job.unsent = {}
  /\ UNCHANGED <<world, committed, working, faults>>
  /\ IF job.rejected
     THEN pc' = "idle" /\ job' = NoJob
     ELSE pc' = "committing" /\ UNCHANGED job

AwaitUpdates ==
  /\ pc = "loading" /\ job.unsent = {}
  /\ UNCHANGED <<world, committed, faults>>
  /\ IF job.rejected
     THEN JobOver
     ELSE pc' = "committing" /\ UNCHANGED <<working, job>>

Commit ==
  /\ pc = "committing"
  /\ pc' = "closing" /\ committed' = working
  /\ UNCHANGED <<world, working, job, faults>>

(* close_db and close.                                                     *)
Finish ==
  /\ pc = "closing"
  /\ UNCHANGED <<world, committed, faults>>
  /\ JobOver

(* A step fails, or the agent stops; the device may have committed when    *)
(* its answer to the commit is lost.                                       *)
Fail ==
  /\ pc # "idle"
  /\ faults < MaxFaults /\ faults' = faults + 1
  /\ committed' \in {committed} \cup (IF pc = "committing" THEN {working} ELSE {})
  /\ JobOver
  /\ UNCHANGED world

Job ==
  \/ Begin \/ FetchCandidates \/ FetchInstalled \/ Compare \/ AwaitUpdates \/ Commit
  \/ Finish
  \/ \E n \in Names : EvaluatePolicy(n) \/ EvaluatorPanics(n) \/ SendUpdate(n)

Next ==
  \/ Job \/ Fail
  \/ \E n \in Names : Edit(n) \/ IrrChanges(n)

Spec == Init /\ [][Next]_vars

(* Jobs go on, and there is always another one (module Daemon).            *)
FairSpec == Spec /\ WF_vars(Job)

----------------------------------------------------------------------------
(* Type invariant.  Between jobs nothing is left of the last one. *)
TypeOK ==
  /\ running \in [Names -> Kinds] /\ irr \in [Names -> Results]
  /\ committed \in [Names -> Statement] /\ working \in [Names -> Statement]
  /\ pc \in Steps /\ job \in JobState
  /\ pc = "idle" => job = NoJob /\ working = committed
  /\ changes \in 0 .. MaxChanges /\ faults \in 0 .. MaxFaults

(* What a statement accepts, family by family. *)
Accepts(statement) == [f \in Families |-> statement.terms[f].ranges]

(* A commit publishes exactly what the job evaluated, all of it at once:   *)
(* a policy that was evaluated accepts its new ranges and no others, one   *)
(* that is not a candidate is gone, and one whose evaluation failed is as  *)
(* it was - though only differences were sent, in any order, and any of    *)
(* them may have been refused (task.rs:101-114, compare.rs, load.rs).      *)
CommitIsExact ==
  [][pc = "committing" /\ (pc' = "closing" \/ committed' # committed) => \A n \in Names :
       CASE job.evaluated[n].status = "ok" ->
              committed'[n].present /\ Accepts(committed'[n]) = job.evaluated[n].ranges
         [] job.evaluated[n].status = "failed" -> committed'[n] = committed[n]
         [] OTHER -> committed'[n] = NoStatement]_vars

(* A policy disappears only on the word of the running configuration the   *)
(* job read, never because an expression did not evaluate or a task was    *)
(* late (compare.rs:45-46).  One whose expression has become malformed is  *)
(* not managed and does disappear (fetch.rs:143-145, 167).                 *)
OnlyUnaskedIsDeleted ==
  [][\A n \in Names :
       committed[n].present /\ ~committed'[n].present => job.fetched /\ job.seen[n] \notin Managed]_vars

Converged ==
  \A n \in Names :
    IF running[n] = "managed"
    THEN committed[n].present /\ Accepts(committed[n]) = irr[n]
    ELSE ~committed[n].present

(* The operator's policies stop every job: one of them cannot be read, or  *)
(* has a PeerAS (fetch.rs, query.rs:233-240).                              *)
StoppedByOperator == ~CandidatesReadable(running) \/ \E n \in Names : running[n] = "peer-as"

(* The daemon keeps the policies updated (junos-agent cli.rs:79): when     *)
(* have come to an end, the installed policies come to be and remain what  *)
(* the running configuration and the IRR data say.                         *)
Convergence == <>[](Converged \/ StoppedByOperator)

(* The same, wherever earlier jobs were cut off and whatever they had      *)
(* evaluated wrongly - unless an installed policy has a term without       *)
(* <then> by now, which no job can read (task.rs:45-126, query.rs:101-112).*)
ConvergesOrSticks ==
  <>[](Converged \/ StoppedByOperator \/ ~InstalledReadable(committed))

=============================================================================
