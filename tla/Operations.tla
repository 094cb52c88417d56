----------------------------- MODULE Operations -----------------------------
(***************************************************************************)
(* From the exchange of <hello> messages to a validated request: Session's *)
(* new() in netconf/src/session.rs, capabilities.rs, hello.rs and the      *)
(* request builders of message/rpc/operation.  The closure that a caller   *)
(* gives to rpc() calls the setters of a builder in any order and any      *)
(* number of times, then finish(); each setter is checked against what the *)
(* server advertised, and the request that comes out is written as XML.    *)
(*                                                                         *)
(* A requirement is the set of capabilities one of which is enough, {}     *)
(* being none.  A :url capability is one value for each of its schemes.    *)
(* Setters that take every value have one or two representative values.    *)
(***************************************************************************)
EXTENDS Naturals, FiniteSets

CONSTANT MaxMissing   \* bound: capabilities the server does not have

ASSUME MissingAssumption == MaxMissing \in Nat

Bases == {"base:1.0", "base:1.1"}
Urls  == {"ftp", "http"}
Capabilities ==
  Bases \cup Urls \cup
  {"writable-running", "candidate", "startup", "confirmed-commit:1.0",
   "confirmed-commit:1.1", "rollback-on-error", "validate:1.0", "validate:1.1",
   "xpath", "junos"}

ClientCapabilities == Bases

Check(requirement, capabilities) ==
  requirement = {} \/ requirement \cap capabilities # {}

HighestCommonVersion(mine, theirs) ==
  LET common == mine \cap theirs \cap Bases
  IN  IF "base:1.1" \in common THEN "base:1.1"
      ELSE IF "base:1.0" \in common THEN "base:1.0" ELSE "none"

----------------------------------------------------------------------------
(* What each parameter value requires. *)

SourceNeeds == [running |-> {}, candidate |-> {"candidate"}, startup |-> {"startup"}]
TargetNeeds == [SourceNeeds EXCEPT !.running = {"writable-running"}]
LockNeeds   == SourceNeeds
FilterNeeds == [none |-> {}, subtree |-> {}, xpath |-> {"xpath"}]
UrlNeeds    == [u \in Urls |-> {u}]

Validates == {"validate:1.0", "validate:1.1"}

(* Mutant: test-only is taken for one of the values of :validate:1.0. *)
TestOptionNeeds_Any == [v \in {"test-then-set", "set", "test-only"} |-> Validates]

TestOptionNeeds == [v \in {"test-then-set", "set", "test-only"} |->
                      IF v = "test-only" THEN {"validate:1.1"} ELSE Validates]
ErrorOptionNeeds == [v \in {"stop-on-error", "rollback-on-error"} |->
                       IF v = "rollback-on-error" THEN {v} ELSE {}]

Confirms == {"confirmed-commit:1.0", "confirmed-commit:1.1"}
Persists == {"confirmed-commit:1.1"}

(* A call of a setter, and what it takes to be accepted.                   *)
Calls(param, needs) == {[param |-> param, value |-> v, needs |-> needs[v]] : v \in DOMAIN needs}
Always(param, values) == Calls(param, [v \in values |-> {}])

----------------------------------------------------------------------------
(* The builders. *)

GetSetters        == Always("filter", DOMAIN FilterNeeds)
GetConfigSetters  == Calls("source", SourceNeeds) \cup Calls("filter", FilterNeeds)
CopyConfigSetters == Calls("target", TargetNeeds) \cup Calls("source", SourceNeeds)
                       \cup Always("source", {"config"})
EditConfigSetters == Calls("target", TargetNeeds) \cup Always("source", {"config"})
                       \cup Calls("source", UrlNeeds)
                       \cup Always("default-operation", {"merge", "replace"})
                       \cup Calls("error-option", ErrorOptionNeeds)
                       \cup Calls("test-option", TestOptionNeeds)

(* Mutant: the running configuration is a target like another. *)
DeleteConfigSetters_Running == Calls("target", TargetNeeds) \cup Calls("target", UrlNeeds)

DeleteConfigSetters == {c \in Calls("target", TargetNeeds) : c.value # "running"}
                         \cup Calls("target", UrlNeeds)
LockSetters         == Calls("target", LockNeeds)
SessionIds          == {"zero", "current", "other"}
KillSessionSetters  == Always("session-id", SessionIds \ {"zero", "current"})
CommitSetters       == Calls("confirmed", [v \in {"yes", "no"} |-> Confirms])
                         \cup Calls("confirm-timeout", [v \in {"default", "other"} |-> Confirms])
                         \cup Calls("persist", [v \in {"none", "token"} |-> Persists])
                         \cup Calls("persist-id", [v \in {"none", "token"} |-> Persists])
CancelCommitSetters == Calls("persist-id", [v \in {"none", "token"} |-> Persists])
ValidateSetters     == Calls("source", SourceNeeds) \cup Always("source", {"config"})

OpenConfigurationSetters   == Always("target", {"private", "ephemeral", "ephemeral-instance"})
LoadConfigurationSetters   == Always("source", {"rescue", "config"})
CommitConfigurationSetters ==
  Always("check", {"yes", "no"}) \cup Always("at-time", {"now", "later"})
    \cup Always("confirmed", {"no", "default", "other"}) \cup Always("log", {"message"})
    \cup Always("synchronize", {"yes", "force"})

Setters ==
  [ get |-> GetSetters, get_config |-> GetConfigSetters, edit_config |-> EditConfigSetters,
    copy_config |-> CopyConfigSetters, delete_config |-> DeleteConfigSetters,
    lock |-> LockSetters, unlock |-> LockSetters, kill_session |-> KillSessionSetters,
    commit |-> CommitSetters, cancel_commit |-> CancelCommitSetters, discard_changes |-> {},
    validate |-> ValidateSetters, close_session |-> {},
    open_configuration |-> OpenConfigurationSetters,
    load_configuration |-> LoadConfigurationSetters,
    commit_configuration |-> CommitConfigurationSetters,
    close_configuration |-> {}, lock_configuration |-> {}, unlock_configuration |-> {} ]

Operations == DOMAIN Setters
Junos == {"open_configuration", "load_configuration", "commit_configuration",
          "close_configuration", "lock_configuration", "unlock_configuration"}

OperationNeeds(oper) ==
  CASE oper \in {"commit", "discard_changes"} -> {"candidate"}
    [] oper = "cancel_commit" -> Persists
    [] oper = "validate" -> Validates
    [] oper \in Junos -> {"junos"}
    [] OTHER -> {}

(* Mutant: the source of a copy may be left out. *)
Required_NoSource(oper) ==
  CASE oper = "edit_config" -> {"target", "source"}
    [] oper \in {"copy_config", "delete_config", "lock", "unlock", "open_configuration"} -> {"target"}
    [] oper \in {"get_config", "validate", "load_configuration"} -> {"source"}
    [] oper = "kill_session" -> {"session-id"}
    [] OTHER -> {}

Required(oper) ==
  CASE oper \in {"edit_config", "copy_config"} -> {"target", "source"}
    [] oper \in {"delete_config", "lock", "unlock", "open_configuration"} -> {"target"}
    [] oper \in {"get_config", "validate", "load_configuration"} -> {"source"}
    [] oper = "kill_session" -> {"session-id"}
    [] OTHER -> {}

(* args[p] is the value last given to parameter p.                         *)
Given(args, p, v) == p \in DOMAIN args /\ args[p] = v

(* Mutant: a token is not looked at when the commit is not confirmed. *)
Compatible_TokenIgnored(oper, args) ==
  oper = "commit" => ~(Given(args, "confirmed", "yes") /\ Given(args, "persist-id", "token"))

Compatible(oper, args) ==
  oper = "commit" =>
    /\ ~(Given(args, "confirmed", "yes") /\ Given(args, "persist-id", "token"))
    /\ ~(~Given(args, "confirmed", "yes") /\ Given(args, "persist", "token"))

(* Parameters that are not written when they have this value.              *)
Unwritten ==
  {<<"filter", "none">>, <<"default-operation", "merge">>, <<"error-option", "stop-on-error">>,
   <<"test-option", "test-then-set">>, <<"confirmed", "no">>, <<"confirm-timeout", "default">>,
   <<"persist", "none">>, <<"persist-id", "none">>, <<"check", "no">>, <<"at-time", "now">>}

(* The child elements of the operation's element.                          *)
Written(oper, args) ==
  LET said     == {<<p, args[p]>> : p \in DOMAIN args} \ Unwritten
      optional == IF Given(args, "confirmed", "yes")
                  THEN {"confirmed", "confirm-timeout", "persist"} ELSE {"persist-id"}
  IN  IF oper = "commit" THEN {e \in said : e[1] \in optional} ELSE said

----------------------------------------------------------------------------
VARIABLES
  server,    \* what the server advertises
  hello,     \* halves of the exchange that are done
  pc,        \* where new() or rpc() is
  version,   \* Context::protocol_version
  oper,      \* the operation of the builder at hand
  args,      \* the parameters it has been given
  request    \* the request just sent

exchange == <<server, hello, version>>
vars     == <<exchange, pc, oper, args, request>>

NoArgs    == [p \in {} |-> "none"]
NoRequest == [oper |-> "none", written |-> {}]

Init ==
  /\ server \in {c \in SUBSET Capabilities : Cardinality(Capabilities \ c) <= MaxMissing}
  /\ hello = {} /\ pc = "connecting" /\ version = "none"
  /\ oper = "none" /\ args = NoArgs /\ request = NoRequest

(* The <hello> is sent while the server's is awaited; the one that comes   *)
(* may not be a <hello> with capabilities and a session-id.                *)
SendHello ==
  /\ pc = "connecting" /\ "sent" \notin hello
  /\ \/ hello' = hello \cup {"sent"} /\ UNCHANGED pc
     \/ pc' = "failed" /\ UNCHANGED hello
  /\ UNCHANGED <<server, version, oper, args, request>>

RecvHello ==
  /\ pc = "connecting" /\ "received" \notin hello
  /\ \/ hello' = hello \cup {"received"} /\ UNCHANGED pc
     \/ pc' = "failed" /\ UNCHANGED hello
  /\ UNCHANGED <<server, version, oper, args, request>>

Start ==
  /\ pc = "connecting" /\ hello = {"sent", "received"}
  /\ version' = HighestCommonVersion(ClientCapabilities, server)
  /\ pc' = IF version' = "none" THEN "failed" ELSE "ready"
  /\ UNCHANGED <<server, hello, oper, args, request>>

(* Operation::new: UnsupportedOperation, or a builder for the closure.     *)
NewBuilder(o) ==
  /\ pc = "ready"
  /\ request' = NoRequest
  /\ IF Check(OperationNeeds(o), server)
     THEN pc' = "building" /\ oper' = o
     ELSE UNCHANGED <<pc, oper>>
  /\ UNCHANGED <<exchange, args>>

BuilderGone == pc' = "ready" /\ oper' = "none" /\ args' = NoArgs

WithArg(param, value) ==
  [p \in DOMAIN args \cup {param} |-> IF p = param THEN value ELSE args[p]]

(* A setter takes the builder; one that refuses its value does not give it *)
(* back.                                                                   *)
Set(c) ==
  /\ pc = "building" /\ c \in Setters[oper]
  /\ IF Check(c.needs, server)
     THEN args' = WithArg(c.param, c.value) /\ UNCHANGED <<pc, oper>>
     ELSE BuilderGone
  /\ UNCHANGED <<exchange, request>>

(* The closure returns an error: its own, or that of a setter that refuses *)
(* its value whatever the server's capabilities.                           *)
GiveUp ==
  /\ pc = "building" /\ BuilderGone
  /\ UNCHANGED <<exchange, request>>

(* finish(), and the request is on its way.                                *)
Finish ==
  /\ pc = "building" /\ BuilderGone
  /\ request' = IF Required(oper) \subseteq DOMAIN args /\ Compatible(oper, args)
                THEN [oper |-> oper, written |-> Written(oper, args)]
                ELSE NoRequest
  /\ UNCHANGED exchange

Next ==
  \/ SendHello \/ RecvHello \/ Start \/ GiveUp \/ Finish
  \/ \E o \in Operations : NewBuilder(o)
  \/ oper \in Operations /\ \E c \in Setters[oper] : Set(c)

Spec == Init /\ [][Next]_vars

----------------------------------------------------------------------------
(* Type invariant.  A session has a version that both sides have, and a    *)
(* request on its way has its mandatory elements.                          *)
TypeOK ==
  /\ server \subseteq Capabilities /\ hello \subseteq {"sent", "received"}
  /\ pc \in {"connecting", "failed", "ready", "building"}
  /\ IF pc \in {"ready", "building"}
     THEN hello = {"sent", "received"} /\ version \in ClientCapabilities \cap server
     ELSE version = "none"
  /\ oper \in Operations \cup {"none"} /\ (pc = "building" <=> oper # "none")
  /\ \A p \in DOMAIN args : \E c \in Setters[oper] : c.param = p /\ c.value = args[p]
  /\ request # NoRequest =>
       /\ request.oper \in Operations
       /\ {"target", "source", "session-id"} \cap {c.param : c \in Setters[request.oper]}
            \subseteq {e[1] : e \in request.written}

(* The capability on which RFC 6241 makes an element of a request depend.  *)
DependsOn(o, p, v) ==
  CASE v \in {"candidate", "startup", "xpath", "rollback-on-error"} -> {v}
    [] p = "target" /\ v = "running" /\ o \notin {"lock", "unlock"} -> {"writable-running"}
    [] v \in Urls -> {v}
    [] v = "test-only" -> {"validate:1.1"}
    [] p = "test-option" /\ v # "test-only" -> Validates
    [] o = "commit" /\ p \in {"confirmed", "confirm-timeout"} -> Confirms
    [] p \in {"persist", "persist-id"} -> Persists
    [] OTHER -> {}

(* Nothing is sent that depends on a capability the server has not         *)
(* advertised, whatever setters made the request and in whatever order     *)
(* (session.rs:238-240) - except an XPath filter of a <get> (get.rs:43).   *)
OnlyAdvertised ==
  request # NoRequest => \A e \in request.written :
    \/ Check(DependsOn(request.oper, e[1], e[2]), server)
    \/ request.oper = "get" /\ e = <<"filter", "xpath">>

(* No request deletes the running configuration or ends the session it is  *)
(* sent on, and no commit is at once confirmed and the confirmation of     *)
(* another (delete_config.rs:45, kill_session.rs:51, commit.rs:144).       *)
Harmless ==
  /\ request.oper = "delete_config" => <<"target", "running">> \notin request.written
  /\ request.oper = "kill_session" =>
       <<"session-id", "zero">> \notin request.written
       /\ <<"session-id", "current">> \notin request.written
  /\ ~({<<"confirmed", "yes">>, <<"persist-id", "token">>} \subseteq request.written)

(* What the caller has last asked for is in the request or is what the     *)
(* server does anyway; only a timeout on a commit that is not confirmed    *)
(* gets lost (commit.rs:30-61, 143-162).                                   *)
NothingLost ==
  [][request' # NoRequest /\ request = NoRequest => \A p \in DOMAIN args :
       \/ <<p, args[p]>> \in request'.written \cup Unwritten
       \/ oper = "commit" /\ p = "confirm-timeout"]_vars

=============================================================================
