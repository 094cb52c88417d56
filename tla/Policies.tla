------------------------------ MODULE Policies ------------------------------
(***************************************************************************)
(* The agent's three views of the filter policies and the step from one to *)
(* the next, junos-agent/src/policies: what the running configuration asks *)
(* for (fetch.rs), what the ephemeral database holds (fetch.rs), their     *)
(* comparison (compare.rs) and the <load-configuration> elements it is     *)
(* written as (load.rs).                                                   *)
(*                                                                         *)
(* A prefix range is an opaque value, and an XML element is a record of    *)
(* the parts that reader and writer tell apart.  How the device merges the *)
(* elements it is sent is not in the repository: Merged and Loaded are the *)
(* reading of load-configuration action="merge" the agent relies on.       *)
(***************************************************************************)
CONSTANTS Names,     \* of policy-statements
          Families,  \* inet and inet6
          Ranges     \* prefix ranges

(* A policy-statement of the running configuration, as far as the reader   *)
(* tells: "skipped" is none, inactive, without a bgpfu-fltr comment or     *)
(* without a trivial reject; "malformed" has an expression that does not   *)
(* parse; "unreadable" has elements that make the whole answer an error;   *)
(* "peer-as" has an expression with a PeerAS in it.                        *)
Managed == {"managed", "peer-as"}
Kinds   == {"skipped", "malformed", "unreadable"} \cup Managed

(* The candidates in the answer to <get-config> of the running datastore.  *)
CandidatesReadable(running) == \A n \in Names : running[n] # "unreadable"
Candidates(running) == {n \in Names : running[n] \in Managed}

RangesOf == [Families -> SUBSET Ranges]
Empty    == [f \in Families |-> {}]

(* Evaluated: what the evaluator made of a candidate; "none" is no         *)
(* candidate and "pending" one it has not come to.                         *)
Evaluated    == [status : {"none", "pending", "failed", "ok"}, ranges : RangesOf]
NotCandidate == [status |-> "none", ranges |-> Empty]
Pending      == [status |-> "pending", ranges |-> Empty]
EvalFailed   == [status |-> "failed", ranges |-> Empty]
EvalOk(r)    == [status |-> "ok", ranges |-> r]

(* A <term> of a policy-statement in the database: one with <from> and     *)
(* <then>, or a bare one with nothing but its name.                        *)
Term   == [shape : {"absent", "bare", "full"}, ranges : SUBSET Ranges]
NoTerm == [shape |-> "absent", ranges |-> {}]
Bare   == [shape |-> "bare", ranges |-> {}]

Statement   == [present : BOOLEAN, terms : [Families -> Term]]
NoStatement == [present |-> FALSE, terms |-> [f \in Families |-> NoTerm]]

(* A <term> without <then> is an error, and one error is an error of the   *)
(* whole answer.                                                           *)
InstalledReadable(db) ==
  \A n \in Names, f \in Families : db[n].present => db[n].terms[f].shape # "bare"

(* An absent term reads as no ranges.                                      *)
Installed == [known : BOOLEAN, ranges : RangesOf]
ReadInstalled(db) ==
  [n \in Names |-> [known  |-> db[n].present,
                    ranges |-> [f \in Families |-> db[n].terms[f].ranges]]]

----------------------------------------------------------------------------
(* compare(): the policies that get an update, and which.                  *)

(* Mutant: an evaluation that failed is taken for no candidate. *)
ToDelete_Failed(evaluated, installed) ==
  {n \in Names : evaluated[n].status # "ok" /\ installed[n].known}

ToDelete(evaluated, installed) ==
  {n \in Names : evaluated[n].status = "none" /\ installed[n].known}

ToUpdate(evaluated) == {n \in Names : evaluated[n].status = "ok"}

(* Mutant: the ranges that are no longer wanted are not deleted. *)
Differences_AddsOnly(known, old, new) ==
  [delete |-> known /\ old # {} /\ new = {},
   from   |-> new # {},
   remove |-> {},
   add    |-> IF known THEN new \ old ELSE new]

(* Differences::write_xml: the <term> element of a family, old being Some  *)
(* when the policy is installed.                                           *)
Differences(known, old, new) ==
  [delete |-> known /\ old # {} /\ new = {},
   from   |-> new # {},
   remove |-> IF known THEN old \ new ELSE {},
   add    |-> IF known THEN new \ old ELSE new]

(* The device merges a <term> element into the term it has.                *)
Merged(term, d) ==
  CASE d.delete -> NoTerm
    [] ~d.delete /\ d.from -> [shape |-> "full", ranges |-> (term.ranges \ d.remove) \cup d.add]
    [] OTHER -> IF term.shape = "absent" THEN Bare ELSE term

(* The statement of n after the device has loaded the update of n.         *)
Loaded(statement, n, evaluated, installed) ==
  IF n \in ToDelete(evaluated, installed)
  THEN NoStatement
  ELSE [present |-> TRUE,
        terms |-> [f \in Families |->
          Merged(statement.terms[f],
                 Differences(installed[n].known, installed[n].ranges[f],
                             evaluated[n].ranges[f]))]]

=============================================================================
