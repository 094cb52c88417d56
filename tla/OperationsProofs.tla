-------------------------- MODULE OperationsProofs --------------------------
(***************************************************************************)
(* Proofs about Operations, for a server that lacks any number of          *)
(* capabilities.                                                           *)
(***************************************************************************)
EXTENDS Operations, TLAPS

Mandatory == {"target", "source", "session-id"}

(* What the setters of a builder have in common: the element that one      *)
(* leads to depends on what the setter has checked, the parameters that    *)
(* make a request whole are among the required ones, and only a <commit>   *)
(* can be told that it is a confirmed one.                                 *)
LEMMA SetterCalls ==
  ASSUME NEW o \in Operations, NEW c \in Setters[o]
  PROVE  /\ \/ DependsOn(o, c.param, c.value) = c.needs
            \/ o = "get" /\ c.param = "filter" /\ c.value = "xpath"
         /\ c.param \in Mandatory => c.param \in Required(o)
         /\ c.param = "confirmed" /\ c.value = "yes" => o = "commit"
         /\ o \notin {"commit", "cancel_commit"} => c.param # "persist-id"
<1> USE DEF DependsOn, Calls, Always, Validates, Confirms, Persists, Urls,
            Mandatory, Required
<1>1. CASE o = "get"
  <2>1. c \in GetSetters
    BY <1>1 DEF Setters
  <2> QED
    BY <1>1, <2>1 DEF GetSetters, FilterNeeds
<1>2. CASE o = "get_config"
  <2>1. c \in GetConfigSetters
    BY <1>2 DEF Setters
  <2> QED
    BY <1>2, <2>1 DEF GetConfigSetters, FilterNeeds, SourceNeeds
<1>3. CASE o = "edit_config"
  <2>1. c \in EditConfigSetters
    BY <1>3 DEF Setters
  <2> QED
    BY <1>3, <2>1 DEF EditConfigSetters, TargetNeeds, SourceNeeds, UrlNeeds,
             ErrorOptionNeeds, TestOptionNeeds
<1>4. CASE o = "copy_config"
  <2>1. c \in CopyConfigSetters
    BY <1>4 DEF Setters
  <2> QED
    BY <1>4, <2>1 DEF CopyConfigSetters, TargetNeeds, SourceNeeds
<1>5. CASE o = "delete_config"
  <2>1. c \in DeleteConfigSetters
    BY <1>5 DEF Setters
  <2> QED
    BY <1>5, <2>1 DEF DeleteConfigSetters, TargetNeeds, SourceNeeds, UrlNeeds
<1>6. CASE o = "lock"
  <2>1. c \in LockSetters
    BY <1>6 DEF Setters
  <2> QED
    BY <1>6, <2>1 DEF LockSetters, LockNeeds, SourceNeeds
<1>7. CASE o = "unlock"
  <2>1. c \in LockSetters
    BY <1>7 DEF Setters
  <2> QED
    BY <1>7, <2>1 DEF LockSetters, LockNeeds, SourceNeeds
<1>8. CASE o = "kill_session"
  <2>1. c \in KillSessionSetters
    BY <1>8 DEF Setters
  <2> QED
    BY <1>8, <2>1 DEF KillSessionSetters, SessionIds
<1>9. CASE o = "commit"
  <2>1. c \in CommitSetters
    BY <1>9 DEF Setters
  <2> QED
    BY <1>9, <2>1 DEF CommitSetters
<1>10. CASE o = "cancel_commit"
  <2>1. c \in CancelCommitSetters
    BY <1>10 DEF Setters
  <2> QED
    BY <1>10, <2>1 DEF CancelCommitSetters
<1>11. CASE o = "validate"
  <2>1. c \in ValidateSetters
    BY <1>11 DEF Setters
  <2> QED
    BY <1>11, <2>1 DEF ValidateSetters, SourceNeeds
<1>12. CASE o = "open_configuration"
  <2>1. c \in OpenConfigurationSetters
    BY <1>12 DEF Setters
  <2> QED
    BY <1>12, <2>1 DEF OpenConfigurationSetters
<1>13. CASE o = "load_configuration"
  <2>1. c \in LoadConfigurationSetters
    BY <1>13 DEF Setters
  <2> QED
    BY <1>13, <2>1 DEF LoadConfigurationSetters
<1>14. CASE o = "commit_configuration"
  <2>1. c \in CommitConfigurationSetters
    BY <1>14 DEF Setters
  <2> QED
    BY <1>14, <2>1 DEF CommitConfigurationSetters
<1>15. CASE o \in {"discard_changes", "close_session", "close_configuration",
                    "lock_configuration", "unlock_configuration"}
  BY <1>15 DEF Setters
<1>16. o \in DOMAIN Setters
  BY DEF Operations
<1> QED
  BY <1>1, <1>2, <1>3, <1>4, <1>5, <1>6, <1>7, <1>8, <1>9,
     <1>10, <1>11, <1>12, <1>13, <1>14, <1>15, <1>16 DEF Setters

(* The parameters of a <commit>, and their values.                         *)
LEMMA CommitCalls ==
  ASSUME NEW c \in Setters["commit"]
  PROVE  \/ c.param = "confirmed" /\ c.value \in {"yes", "no"}
         \/ c.param = "confirm-timeout" /\ c.value \in {"default", "other"}
         \/ c.param = "persist" /\ c.value \in {"none", "token"}
         \/ c.param = "persist-id" /\ c.value \in {"none", "token"}
<1>1. c \in CommitSetters
  BY DEF Setters
<1> QED
  BY <1>1 DEF CommitSetters, Calls

(* The values that setters refuse whatever the server's capabilities.      *)
LEMMA RefusedValues ==
  /\ \A c \in Setters["delete_config"] : ~(c.param = "target" /\ c.value = "running")
  /\ \A c \in Setters["kill_session"] : c.value \notin {"zero", "current"}
<1>1. ASSUME NEW c \in Setters["delete_config"]
      PROVE  ~(c.param = "target" /\ c.value = "running")
  <2>1. c \in DeleteConfigSetters
    BY DEF Setters
  <2> QED
    BY <2>1 DEF DeleteConfigSetters, Calls, UrlNeeds, Urls
<1>2. ASSUME NEW c \in Setters["kill_session"]
      PROVE  c.value \notin {"zero", "current"}
  <2>1. c \in KillSessionSetters
    BY DEF Setters
  <2> QED
    BY <2>1 DEF KillSessionSetters, Always, Calls
<1> QED
  BY <1>1, <1>2

(* Every operation is one of those with a builder, so none is "none".      *)
LEMMA NotNone == "none" \notin Operations
  BY DEF Operations, Setters

----------------------------------------------------------------------------
(* The inductive invariant: each of the parameters that a builder has been *)
(* given was accepted, with its last value, by a setter that found what it *)
(* needs among the server's capabilities; and what was sent is whole, was  *)
(* advertised and is harmless.                                             *)
ArgsAccepted ==
  \A p \in DOMAIN args : \E c \in Setters[oper] :
    c.param = p /\ c.value = args[p] /\ Check(c.needs, server)

RequestOK ==
  /\ request # NoRequest =>
       /\ request.oper \in Operations
       /\ Mandatory \cap {c.param : c \in Setters[request.oper]}
            \subseteq {e[1] : e \in request.written}
  /\ OnlyAdvertised
  /\ Harmless

IInv ==
  /\ TypeOK
  /\ pc # "building" => DOMAIN args = {}
  /\ ArgsAccepted
  /\ RequestOK

(* No request is a harmless one.                                           *)
LEMMA NothingSent ==
  ASSUME request = NoRequest PROVE RequestOK
  BY DEF RequestOK, NoRequest, OnlyAdvertised, Harmless

LEMMA NothingSentNext ==
  ASSUME request' = NoRequest PROVE RequestOK'
  BY DEF RequestOK, NoRequest, OnlyAdvertised, Harmless

(* A request that stands is what it was.                                   *)
LEMMA RequestKept ==
  ASSUME RequestOK, UNCHANGED <<server, request>> PROVE RequestOK'
  BY DEF RequestOK, OnlyAdvertised, Harmless

(* What finish() makes of parameters that were accepted.                   *)
LEMMA Finished ==
  ASSUME oper \in Operations, ArgsAccepted,
         Required(oper) \subseteq DOMAIN args, Compatible(oper, args),
         request' = [oper |-> oper, written |-> Written(oper, args)],
         server' = server
  PROVE  RequestOK'
<1> DEFINE said == {<<p, args[p]>> : p \in DOMAIN args} \ Unwritten
           w    == Written(oper, args)
<1>1. w \subseteq said
  BY DEF Written
<1>2. oper # "commit" => w = said
  BY DEF Written
<1>3. ASSUME NEW e \in w
      PROVE  \E c \in Setters[oper] : e = <<c.param, c.value>> /\ Check(c.needs, server)
  BY <1>1 DEF ArgsAccepted
<1>4. request'.oper = oper /\ request'.written = w
  OBVIOUS
<1> HIDE DEF w
<1>5. Mandatory \cap {c.param : c \in Setters[oper]} \subseteq {e[1] : e \in w}
  <2> SUFFICES ASSUME NEW c \in Setters[oper], c.param \in Mandatory
               PROVE  \E e \in w : c.param = e[1]
    OBVIOUS
  <2>1. c.param \in DOMAIN args
    BY SetterCalls
  <2>2. oper # "commit"
    BY CommitCalls DEF Mandatory
  <2>3. <<c.param, args[c.param]>> \in said
    BY <2>1 DEF Mandatory, Unwritten
  <2> QED
    BY <1>2, <2>2, <2>3
<1>6. OnlyAdvertised'
  <2> SUFFICES ASSUME NEW e \in w
               PROVE  \/ Check(DependsOn(oper, e[1], e[2]), server)
                      \/ oper = "get" /\ e = <<"filter", "xpath">>
    BY <1>4 DEF OnlyAdvertised
  <2> QED
    BY <1>3, SetterCalls
<1>7. oper = "delete_config" => <<"target", "running">> \notin w
  BY <1>3, RefusedValues
<1>8. oper = "kill_session" =>
        <<"session-id", "zero">> \notin w /\ <<"session-id", "current">> \notin w
  BY <1>3, RefusedValues
<1>9. ~({<<"confirmed", "yes">>, <<"persist-id", "token">>} \subseteq w)
  <2> SUFFICES ASSUME <<"confirmed", "yes">> \in w, <<"persist-id", "token">> \in w
               PROVE  FALSE
    OBVIOUS
  <2>1. oper = "commit"
    BY <1>3, SetterCalls
  <2>2. Given(args, "confirmed", "yes") /\ Given(args, "persist-id", "token")
    BY <1>1 DEF Given
  <2> QED
    BY <2>1, <2>2 DEF Compatible
<1> QED
  BY <1>4, <1>5, <1>6, <1>7, <1>8, <1>9 DEF RequestOK, Harmless, Mandatory

(* The version is one of those that both sides have.                       *)
LEMMA CommonVersion ==
  ASSUME NEW theirs
  PROVE  LET v == HighestCommonVersion(ClientCapabilities, theirs)
         IN  v = "none" \/ v \in ClientCapabilities \cap theirs
BY DEF HighestCommonVersion, ClientCapabilities, Bases

LEMMA InitIInv ==
  ASSUME Init PROVE IInv
<1>1. RequestOK
  BY NothingSent DEF Init
<1>2. DOMAIN args = {}
  BY DEF Init, NoArgs
<1> QED
  BY <1>1, <1>2 DEF Init, IInv, TypeOK, ArgsAccepted, NoArgs

LEMMA StepIInv ==
  ASSUME IInv, [Next]_vars
  PROVE  IInv'
<1> USE DEF exchange
<1>0. CASE UNCHANGED vars
  <2>1. RequestOK'
    BY <1>0, RequestKept DEF IInv, vars
  <2> QED
    BY <1>0, <2>1 DEF IInv, TypeOK, ArgsAccepted, vars
<1>1. CASE SendHello
  <2>1. RequestOK'
    BY <1>1, RequestKept DEF IInv, SendHello
  <2> QED
    BY <1>1, <2>1 DEF IInv, TypeOK, ArgsAccepted, SendHello
<1>2. CASE RecvHello
  <2>1. RequestOK'
    BY <1>2, RequestKept DEF IInv, RecvHello
  <2> QED
    BY <1>2, <2>1 DEF IInv, TypeOK, ArgsAccepted, RecvHello
<1>3. CASE Start
  <2>1. RequestOK'
    BY <1>3, RequestKept DEF IInv, Start
  <2>2. version' = "none" \/ version' \in ClientCapabilities \cap server
    BY <1>3, CommonVersion DEF Start
  <2>3. "none" \notin ClientCapabilities
    BY DEF ClientCapabilities, Bases
  <2> QED
    BY <1>3, <2>1, <2>2, <2>3 DEF IInv, TypeOK, ArgsAccepted, Start
<1>4. ASSUME NEW o \in Operations, NewBuilder(o) PROVE IInv'
  <2>1. RequestOK'
    BY <1>4, NothingSentNext DEF NewBuilder
  <2>2. DOMAIN args' = {}
    BY <1>4 DEF IInv, NewBuilder
  <2>3. o # "none"
    BY NotNone
  <2> QED
    BY <1>4, <2>1, <2>2, <2>3 DEF IInv, TypeOK, ArgsAccepted, NewBuilder
<1>5. ASSUME NEW c \in Setters[oper], Set(c) PROVE IInv'
  <2>1. RequestOK'
    BY <1>5, RequestKept DEF IInv, Set
  <2>2. CASE Check(c.needs, server)
    <3>1. args' = WithArg(c.param, c.value) /\ UNCHANGED <<pc, oper, server>>
      BY <1>5, <2>2 DEF Set
    <3>2. ASSUME NEW p \in DOMAIN args'
          PROVE  \E d \in Setters[oper] :
                   d.param = p /\ d.value = args'[p] /\ Check(d.needs, server)
      BY <2>2, <3>1, <3>2 DEF WithArg, IInv, ArgsAccepted
    <3> QED
      BY <1>5, <2>1, <3>1, <3>2 DEF IInv, TypeOK, ArgsAccepted, Set
  <2>3. CASE ~Check(c.needs, server)
    <3>1. DOMAIN args' = {}
      BY <1>5, <2>3 DEF Set, BuilderGone, NoArgs
    <3> QED
      BY <1>5, <2>1, <2>3, <3>1 DEF IInv, TypeOK, ArgsAccepted, Set, BuilderGone
  <2> QED
    BY <2>2, <2>3
<1>6. CASE GiveUp
  <2>1. RequestOK'
    BY <1>6, RequestKept DEF IInv, GiveUp
  <2>2. DOMAIN args' = {}
    BY <1>6 DEF GiveUp, BuilderGone, NoArgs
  <2> QED
    BY <1>6, <2>1, <2>2 DEF IInv, TypeOK, ArgsAccepted, GiveUp, BuilderGone
<1>7. CASE Finish
  <2>1. RequestOK'
    <3>1. oper \in Operations /\ ArgsAccepted
      BY <1>7 DEF Finish, IInv, TypeOK
    <3> QED
      BY <1>7, <3>1, Finished, NothingSentNext DEF Finish
  <2>2. DOMAIN args' = {}
    BY <1>7 DEF Finish, BuilderGone, NoArgs
  <2> QED
    BY <1>7, <2>1, <2>2 DEF IInv, TypeOK, ArgsAccepted, Finish, BuilderGone,
             RequestOK, Mandatory
<1> QED
  BY <1>0, <1>1, <1>2, <1>3, <1>4, <1>5, <1>6, <1>7 DEF Next

LEMMA Inductive == Spec => []IInv
<1>1. Init => IInv
  BY InitIInv
<1>2. IInv /\ [Next]_vars => IInv'
  BY StepIInv
<1> QED
  BY <1>1, <1>2, PTL DEF Spec

----------------------------------------------------------------------------
(* A session has a version that both sides have, and a request on its way  *)
(* has its mandatory elements (session.rs:110-139, capabilities.rs:40-58). *)
THEOREM TypeCorrect == Spec => []TypeOK
<1>1. IInv => TypeOK
  BY DEF IInv
<1> QED
  BY <1>1, Inductive, PTL

(* Whatever the server lacks, and whatever setters a caller calls in       *)
(* whatever order, no element is sent that depends on a capability it has  *)
(* not advertised, the XPath filter of a <get> apart (session.rs:238-240,  *)
(* get.rs:43).                                                             *)
THEOREM AdvertisedOnly == Spec => []OnlyAdvertised
<1>1. IInv => OnlyAdvertised
  BY DEF IInv, RequestOK
<1> QED
  BY <1>1, Inductive, PTL

(* No request deletes the running configuration or ends its own session,   *)
(* and no commit is at once confirmed and the confirmation of another      *)
(* (delete_config.rs:45, kill_session.rs:51, commit.rs:144).               *)
THEOREM NoHarm == Spec => []Harmless
<1>1. IInv => Harmless
  BY DEF IInv, RequestOK
<1> QED
  BY <1>1, Inductive, PTL

(* A step that sends a request is one of finish(), with parameters that    *)
(* the builder has accepted: each of them is in the request, or is a value *)
(* that goes without saying, or is the timeout of a commit that is not a   *)
(* confirmed one.                                                          *)
LEMMA FinishLosesNothing ==
  ASSUME IInv, [Next]_vars, request' # NoRequest, request = NoRequest,
         NEW p \in DOMAIN args
  PROVE  \/ <<p, args[p]>> \in request'.written \cup Unwritten
         \/ oper = "commit" /\ p = "confirm-timeout"
<1>1. Finish
  BY DEF Next, vars, exchange, SendHello, RecvHello, Start, NewBuilder, Set, GiveUp
<1>2. request' = [oper |-> oper, written |-> Written(oper, args)] /\ Compatible(oper, args)
  BY <1>1 DEF Finish
<1>3. CASE oper # "commit"
  BY <1>2, <1>3 DEF Written
<1>4. CASE oper = "commit"
  <2>1. PICK c \in Setters["commit"] : c.param = p /\ c.value = args[p]
    BY <1>4 DEF IInv, ArgsAccepted
  <2>2. CASE Given(args, "confirmed", "yes")
    <3>1. ~(p = "persist-id" /\ args[p] = "token")
      BY <1>2, <1>4, <2>2 DEF Compatible, Given
    <3>2. p \in {"confirmed", "confirm-timeout", "persist"} \/ <<p, args[p]>> \in Unwritten
      BY <2>1, <3>1, CommitCalls DEF Unwritten
    <3> QED
      BY <1>2, <1>4, <2>2, <3>2 DEF Written
  <2>3. CASE ~Given(args, "confirmed", "yes")
    <3>1. ~(p = "persist" /\ args[p] = "token")
      BY <1>2, <1>4, <2>3 DEF Compatible, Given
    <3>2. ~(p = "confirmed" /\ args[p] = "yes")
      BY <2>3 DEF Given
    <3>3. p \in {"persist-id", "confirm-timeout"} \/ <<p, args[p]>> \in Unwritten
      BY <2>1, <3>1, <3>2, CommitCalls DEF Unwritten
    <3> QED
      BY <1>2, <1>4, <2>3, <3>3 DEF Written
  <2> QED
    BY <2>2, <2>3
<1> QED
  BY <1>3, <1>4

(* What the caller asked for last is in the request or is what the server  *)
(* does anyway, but for a timeout that has nothing to bound                *)
(* (commit.rs:30-61, 143-162).                                             *)
THEOREM NothingIsLost == Spec => NothingLost
<1>1. IInv /\ [Next]_vars =>
        [request' # NoRequest /\ request = NoRequest => \A p \in DOMAIN args :
           \/ <<p, args[p]>> \in request'.written \cup Unwritten
           \/ oper = "commit" /\ p = "confirm-timeout"]_vars
  BY FinishLosesNothing
<1> QED
  BY <1>1, Inductive, PTL DEF Spec, NothingLost

=============================================================================
