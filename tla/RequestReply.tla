---------------------------- MODULE RequestReply ----------------------------
(***************************************************************************)
(* What a NETCONF session promises the callers of Session::rpc             *)
(* (netconf/src/session.rs:234-257), with no connection, table or lock:    *)
(* a request that was sent gets at most one answer, its caller receives    *)
(* that at most once, and a caller receives an error only on account of a  *)
(* fault, a different fault for each caller.                               *)
(***************************************************************************)
EXTENDS Naturals, FiniteSets

CONSTANT Requests

VARIABLES state,   \* of each request, seen from its caller
          faults   \* faults of the server, the transport or the callers

vars == <<state, faults>>

Init == state = [r \in Requests |-> "new"] /\ faults = 0

MayFault == faults' \in {faults, faults + 1}

Move(r, from, to) ==
  /\ state[r] \in from
  /\ state' = [state EXCEPT ![r] = to]

Send(r)    == Move(r, {"new"}, "asked") /\ UNCHANGED faults
Answer(r)  == Move(r, {"asked"}, "answered") /\ MayFault
Deliver(r) == Move(r, {"answered"}, "delivered") /\ UNCHANGED faults
Abandon(r) == Move(r, {"asked", "answered"}, "abandoned") /\ MayFault
Fail(r)    == /\ Move(r, {"asked", "answered"}, "failed")
              /\ MayFault
              /\ Cardinality({q \in Requests : state'[q] = "failed"}) <= faults'
Fault      == faults' = faults + 1 /\ UNCHANGED state

Next ==
  \/ \E r \in Requests : \/ Send(r) \/ Answer(r) \/ Deliver(r)
                         \/ Abandon(r) \/ Fail(r)
  \/ Fault

Spec == Init /\ [][Next]_vars

=============================================================================
