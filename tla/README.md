# A specification of bgpfu-rs

`bgpfu-rs` keeps the BGP filter policies of Junos routers in step with the
Internet Routing Registries. This directory holds TLA+ models of the parts of
it that are hard to test, TLC instances that check them, and TLAPS proofs of
what holds for every instance. The modules are translated from the Rust
sources; each definition's lines are listed in `PROJECT.json` under `map`.

## The system

| component | source | state | operations |
|---|---|---|---|
| NETCONF session | `netconf/src/session.rs`, `message/` | table of outstanding requests, last message-id, the two transport handles, each behind a mutex | `rpc`, the future it returns (`recv`), `close` |
| byte-stream transports | `netconf/src/transport/junos_local.rs`, `tls.rs` | receive buffer | `send`, `recv` |
| SSH transport | `netconf/src/transport/ssh.rs` | two bounded queues, the task's buffer | `send`, `recv`, the task's `select!` |
| operations, capabilities | `netconf/src/message/rpc/operation/`, `capabilities.rs`, `hello.rs` | none; capabilities of the session | request builders |
| update job | `junos-agent/src/task.rs` (`Updater`), `netconf/mod.rs`, `policies/` | what it fetched and evaluated; the device's ephemeral database | connect, open, fetch, evaluate, compare, load, commit, close |
| daemon loop | `junos-agent/src/task.rs` (`Loop`) | interval timer, backoff | tick, SIGHUP, SIGINT, SIGTERM |
| RPSL evaluator | `lib/src/query.rs`, `policies/eval.rs` | IRR connection, results so far | resolvers, one evaluation per candidate |
| reply and error parsing | `netconf/src/message/rpc/mod.rs`, `error.rs`, `operation/junos/` | none between messages | the partial and the full reader of a reply |
| command line, PEM files | `cli/`, `junos-agent/src/cli.rs`, `netconf/pem.rs` | none | argument parsing, one call |

The daemon loop starts an update job; the job opens a NETCONF session, sends
requests through it and runs an evaluator; the session writes to and reads from
a transport. Jobs share nothing but the device. Within a session, the futures
of several requests share the receive handle and the table; within a job two
spawned tasks wait for such futures at the same time.

What is hard, and what makes each part correct:

- **session**: one caller sends while any number of futures wait; any future
  may read any reply; futures are dropped at any await; the server repeats,
  reorders or garbles replies. Correct when every reply reaches its own future,
  exactly once, nobody waits for a reply that was already stored, and a fault
  fails at most one call or future.
- **transports**: reads divide the stream anywhere, a `recv` is dropped between
  two reads, queues fill up, the server hangs up, breaks off or is lost, the
  session is dropped. Correct when each message is delivered whole, alone and in
  order, no one waits for ever, and no task stays behind.
- **replies**: a message is read twice, by different readers at different times;
  errors, warnings, counts and `<ok/>` come in any order. Correct when both
  readers agree on the request that is answered and no failure is a success.
- **evaluator**: one connection serves all resolvers and candidates, pipelines
  are cut off anywhere, single errors are dropped. Correct when a result is exact
  unless an error was dropped, never too wide then, and one failure stays one.
- **update job**: the configuration and the IRR change while it runs, any step
  fails, the commit's reply is lost. Correct when what is committed is exactly
  what was evaluated, nothing is deleted that was not asked to be, and later
  jobs repair what earlier ones left.
- **daemon**: any pattern of failures and signals, any period. Correct when jobs
  go on, no wait is longer than the period but for MIN_BACKOFF after a first
  failure, and signals are obeyed.

## Modules

| module | models |
|---|---|
| `RequestReply` | the promise of `Session::rpc` to its callers, abstractly |
| `Session` | the session; implements `RequestReply` |
| `SessionProofs` | theorems about `Session` |
| `Framing` | `Receiver::recv` of the byte-stream transports |
| `FramingProofs` | theorems about `Framing` |
| `SshTransport` | the SSH task and its queues |
| `SshTransportProofs` | theorems about `SshTransport` |
| `Policies` | candidates, installed policies, their comparison and the update elements |
| `UpdateJob` | `Updater::run` against one device; extends `Policies` |
| `MCUpdateJob` | instances of `UpdateJob` for TLC |
| `UpdateJobProofs` | theorems about `Policies` and `UpdateJob` |
| `Operations` | the exchange of `<hello>` and the request builders |
| `OperationsProofs` | theorems about `Operations` |
| `Replies` | the two readers of an `<rpc-reply>` |
| `RepliesProofs` | theorems about `Replies` |
| `Evaluator` | `RpslEvaluator` and its resolvers |
| `MCEvaluator` | an instance of `Evaluator` for TLC |
| `EvaluatorProofs` | theorems about `Evaluator` |
| `Daemon` | `Loop::start` |
| `DaemonProofs` | theorems about `Daemon` |

**Session.** A step ends where the code awaits. `call` says where the `rpc`
in progress is: `waiting` for the requests mutex, `sending` with it, `sent`
before the entry is inserted (a reply can already come). `fut[id]` says where
the future of a request is: `queued` for the receive mutex, `reading` the
transport with it, `holding` a message while it waits for the requests mutex.
`rxQueue` is the FIFO tokio mutex. `requests` and `slot` are the table. Replies
are tagged records; the message-id decides everything, the body only whether it
can be parsed. A send that is dropped or fails midway leaves part of a request on
a byte stream (`torn`; `tls.rs:86-87`, `junos_local.rs:86-87`). The next request
is then glued to it: the server reads one `garbled` message and can only answer
without a message-id. SSH's `send` enqueues a request whole or not at all.
`close` is a call of `rpc` too; that it consumes the session shows in the behaviours
in which no call follows.

**Framing.** Bytes are stream offsets; `MarkersFrom(b)` is what the finder
finds in the searched slice. `missed` records, for the properties only, where
the searches of a call ended. The server can close the stream (reads then are a
success without bytes) or break it (reads fail) anywhere.

**SshTransport.** Each stage that a message passes is a counter. The task is
in its `select!` or waits to enqueue. Its user is one that sends a batch first
and may be dropped, with both handles, at any time. A connection that is lost
without Eof shows as `wait()` returning None for ever; that the task then spins
is a step that changes nothing.

**Replies.** The partial reader, which finds the message-id, and the reader of
the operation's reply run side by side on the same XML events; in the code the
second runs when the future of that id is awaited. `kind` chooses the reply's
reader. `written` is what the message holds, kept for the properties, so that
what a reader makes of it can be compared with the grammar of its kind. Text is
reduced to whether it parses.

**Evaluator.** An expression is a sequence of terms in postfix order, evaluated
on a stack of prefix sets; a parsed one never lacks an operand and leaves one
value (`Parsed`). A resolver takes the connection, sends its queries and takes
the responses one by one; each may be an error, which ends the evaluation, or is
dropped (`sunk`), as `sink_error` does. The queries that are under way are a set:
their responses come in order, but prefixes are united and the order does not
show. A filter-set puts its own expression before what is left. What a candidate
should get, `IdealOf`, evaluates the same terms with the full answer to each
query; a filter-set has one value there, that of its filter.

**Policies, UpdateJob.** Prefix ranges are opaque. The running configuration
is reduced to what the reader makes of each policy-statement. `working` is the
open ephemeral database, `committed` what survives the session. How Junos
merges a `<term>` element (`Merged`) is an assumption: it deletes what is marked
`delete`, adds what is new, and keeps a term that has only a name. An evaluation
is exact, has lost prefixes with a dropped error, or fails for one policy; an
expression with PeerAS panics and takes the job with it. That is what
`Evaluator` shows of it.

**Operations.** Each setter call is a record of parameter, value and the
capabilities one of which it requires; `args` is what a builder holds, and
`Written` the elements that come of it. What RFC 6241 makes an element depend on
(`DependsOn`) is stated apart from what the setters check.

**Daemon.** Time is a countdown to `interval.tick()`. A second signal of a kind
before the first is handled is not seen, as with tokio's signal streams. The period
is chosen in the initial state, from any non-zero ones, as `--frequency` is.

## Checks

Each run's configuration names its bounds.

| run | shows |
|---|---|
| `session` | three calls, any two faults, torn requests among them: no stranded, foreign, lost or overwritten reply, failures bounded by faults, refinement of `RequestReply`; without faults every polled future settles |
| `framing` | three messages, every division into reads, one dropped call, an end of the stream anywhere: `OnlyCutMarkersAreMissed`, `AllDelivered`, `BreakIsNoticed` |
| `framing_end` (violated) | a stream that was closed is read from for ever |
| `ssh` | the largest batch that fits, with a hang-up, a lost connection or a dropped session anywhere: nothing is lost before, each is noticed, the task ends |
| `ssh_coalesced` (violated) | two replies in one packet: the second is not delivered |
| `ssh_batch` (violated) | a batch one larger than fits: nobody moves again |
| `replies` | any events with two replies of four children each, four kinds of reply: `RoutedAsRead`, `SuccessIsSaid`, and `ReadAsWritten` but for loads with more errors than their count |
| `operations` | every operation, any sequence of setters, any one or two capabilities missing: a request that is sent is complete, harmless, and supported but for the XPath filter of a `<get>` |
| `evaluator` | two candidates, any two expressions, any two errors: `ExactUnlessSunk`, `NeverWider`, `FailsAlone` |
| `update` | two policies, any evaluation, an edit or IRR change, two failures: exact commits, no deletion unasked, `ConvergesOrSticks` |
| `update_stuck` (violated) | a bare term is committed and no later job can read it |
| `daemon` | any outcomes and signals, three periods: backoff, longest waits, jobs that go on, signals obeyed |

Three calls are the least with which a future can read a reply for a second
one while a third is dropped or sent; two faults let a fault hit the recovery
from another. One change suffices for the update job: jobs that start after it
read the new state, those in progress the old. Two policies and two ranges show a batch that is refused in part
and a difference that both adds and deletes; two families are needed for a
policy that is empty in one of them. A marker of three bytes is cut in front,
inside (in two places) and behind. A load's reply of four children can hold
`<ok/>`, errors and a count in any order; a second reply shows what is left over
from the first. Two errors let one be dropped and another fail an evaluation. Queues of two places can be empty, full and
neither. With a MIN_BACKOFF of 2, a period of 10 lets the backoff double twice before
it is cut off, one of 3 cuts it off at once, and one of 1 is shorter than the first
wait; five failures in a row go past all of them.

An XPath filter is written in a `<get>` whether or not the server has :xpath
(`get.rs:43`), though the documentation of `rpc()` says that capabilities are checked
(`session.rs:238-240`); `OnlyAdvertised` names this element as its exception.

The reader of a load's reply demands that `<load-error-count>` is the number of its
errors (`load_configuration.rs:461`), but the comment at 369-396 shows, as what `Errs`
is made from, two errors with a count of one. Code and comment disagree and nothing
in the repository decides between them, so `ReadAsWritten` leaves the replies that are
`Undercounted` out, the one in the comment and those like it. It has the opposite, a
count above the number of errors, refused. `SuccessIsSaid` is about all of them: however
they are read, they are no success. It excepts a load whose results end in `<ok/>`
behind errors, which the code does read as one.

After the first failure in a row the daemon waits MIN_BACKOFF, 60 seconds, even with a
shorter `--frequency`: only the later waits are cut off (`task.rs:141`, `172-174`).
`LongerOnlyAfterFirstFailure` allows that wait and no other to exceed the period.

A policy whose expression has become malformed is deleted, as a TODO in the code
foresees (`fetch.rs:143-145`); `OnlyUnaskedIsDeleted` allows that.

A marker that a read has cut is not found, as the TODO at `junos_local.rs:117-118`
says; `OnlyCutMarkersAreMissed` allows that and nothing else, and `AllDelivered`
is about streams in which it does not happen.

`NeverWider` is about expressions that are `Positive`, without NOT in them or in a
filter-set they come to: a filter-set that cannot be fetched is NOT ANY, and below
a NOT that is every prefix (`query.rs:156`).

`Convergence` is what `update_stuck` refutes: a policy without ranges in a family
leaves a term that the next job cannot read. `ConvergesOrSticks` is what is true:
after the last change and failure, the device gets to what is wanted unless an
operator's edit, an expression with PeerAS, or such a term stops every job.

A requirement names at most two capabilities, so a server without two of them
is enough to see any of the checks that is missing.

Deadlock is checked of the update job, for which there is always another one.
The other models stop when their bounded work is done, the daemon has exited or
the session was not set up; what must not stop there is a liveness property.

**Fairness.** A future that was polled is polled again and a call that was
started goes on, because a task of the runtime does so; callers are never
obliged to make calls. The futures of `Session` are fair together, not each by
itself: the queues of the mutexes do the rest. The server answers what it has
received. A `recv` of `Framing` goes on and the next one is called. Jobs of
`UpdateJob` go on step by step. Nothing obliges anyone to hang up, to lose a
connection or to drop a session. Of the daemon and of SSH's `select!`, ready branches are strongly
fair: tokio polls the branches in random order. Jobs end: nothing in the code
bounds their time, and `Daemon` promises nothing about one that hangs.

## Proofs

All proofs hold for every value of the constants that the named assumptions
allow. Every safety property of a passing run is a theorem: the invariants, the
action properties and the refinement.

**SessionProofs.** `TypeCorrect`; `NothingStranded` from `TableInv`, which adds
that the reader of the transport is at the head of the receive queue and that an
entry is Pending exactly as long as nobody stored its reply; `StoredReplyKept`
from the same; `OwnReplyDelivered` from `AnswerInv`: every good message in flight,
in hand or stored was sent by the server for its id.

`FailuresPaid` needs to say where the failures to come already are. `Debts` is
the set of them: futures that have failed, and in the wire, in hand, in a slot or
still with the server each message that will fail one, because it cannot be
parsed or no entry will wait for it; and a torn request, before the next one follows
it and afterwards. `DebtsPaid` says that there are no more debts
than faults. A step of the client moves a debt, a fault adds at most one, and
`FailuresBounded` counts the debts that have fallen due. Without faults there is
no debt, so what is on the wire is awaited: `OnePlace` follows with `ReplyKept`.

`KeepsPromise` is the refinement of `RequestReply`, under the mapping that the
run checks: `PromiseStep` takes each action of `Session` to a step of the promise
or to a stutter. It uses the invariants above: `AnswerInv` for the reply that is
delivered, `FailuresBounded` for a failure, `SentInv` for a future that is dropped.

**FramingProofs.** `FramingTyped`, and `MissesOnlyCutMarkers` from `FramingInv`:
the buffer starts at the end of a message (`StartsAtMessage`), and each marker
behind it that the search has passed was cut by a search of this call
(`OnlyCutSearched`). `EndsApart` is the arithmetic: ends of messages are a message,
and so a marker, apart. A dropped call forgets how far it searched, which is why
the invariant speaks of calls in progress only.

**SshTransportProofs.** `TypeCorrect`, and `NothingIsLost`: requests and replies
are conserved from stage to stage. The model counts the replies in a sequence of
packets as pairs of a packet and a number (`Ends`), so that adding and removing a
packet is a fact about finite sets (`EndsAppend`, `EndsTail`), not a sum.

**RepliesProofs.** `RepliesTyped`; `PhasesAgree` from `Abreast`: as long as the
reply's reader has met no error, the partial one is inside a reply exactly when it
is, and has the same id; `FailureIsNoSuccess` from `SuccessInv`: a reader that holds
a success or may still come to one has met no `<rpc-error>`, and that of a load has
just met `<ok/>`. `ReadFaithfully` from `Faithful`: wherever the reader is in a
message, it is still reading exactly if what was written so far can begin a reply
of its kind (`Readable`), and its fields are what was written (`HasRead`).

**OperationsProofs.** `TypeCorrect`; `AdvertisedOnly` and `NoHarm` from
`ArgsAccepted`: each parameter of a builder was accepted, with the value it has, by
a setter that found the capabilities it needs. So what `finish` writes was checked,
though `finish` does not check it again. `NothingIsLost` looks at a single step,
`finish` itself. All tables of setters are those of the code, not constants.

**EvaluatorProofs.** One invariant, `IInv`, with the four results.
`Collecting`: what a resolver has found together with what its queries may bring is
never more than its term stands for, and no less while nothing was dropped.
`OnCourse`: the terms that are left lead the ideal evaluation (`Leads`) from some
stack to `IdealOf` the candidate, and the real stack is that one, or lies below
it, place by place, for a positive expression that lost a response. An answered
filter-set is where the ideal evaluation does not move: its filter leads to its
value (`IdealReached`, `LeadsThrough`). One that was not answered takes it on by a
term while NOT ANY is still to be done, a detour that `Meets` spells out and that
ends in the empty set. `ExactResults`, `NoWiderResults` and `EvaluatorTyped` are
read off at the end of an expression; `FailuresAlone` needs the connection only.
The assumptions are that registry data are of their types, that expressions are
parsed ones, and `MeaningAssumption`, that filter-sets have values that agree with
their filters. `AcyclicHasMeaning` proves that they do whenever none refers to
itself, nor through others, whatever the filters are; a filter-set that does may
keep the code resolving for ever.

**UpdateJobProofs.** `JobsTyped`, `CommitsExactly`, `DeletesOnlyUnasked`, from
`JobInv`. Its core is `SentIsLoaded`: as long as no update was refused, the open
database differs from the committed one by exactly the updates sent, each loaded
into the statement the job has read. `DifferencesMerge` shows that the element
computed from what a term accepts turns that term into what is wanted. `Tidy` is
needed because a term without `<from>` must have no ranges, and a statement that is
absent no terms. The assumption is `JobAssumption`: every evaluation is a set of
ranges for each family.

**DaemonProofs.** `DaemonTyped`; `WaitsBounded`, for any period, from `WaitsInRange`:
the wait to come is longer than the period only as long as no job has failed in a
row, and it is MIN_BACKOFF then; `BackoffExponential`, for any `MaxRun`. The provers know nothing of powers;
`PowerOfTwo` gets the doubling from the number of subsets of 1 .. n.

Induction over data. The library's induction theorems take an operator as a
parameter and the provers cannot instantiate them. Where a proof needs induction,
on the length of an expression, the rank of a filter-set, the children of a reply,
it takes a set of numbers and the least one that is missing from it
(`LeastMember`, `UpTo`), which follows from the well-foundedness of < on numbers.
`StacksDefined` shows in this way that the recursive function by which an
expression is evaluated satisfies its equation.

Model-checked only: liveness. `PolledFutureSettles`, `AllDelivered`,
`BreakIsNoticed`, `AllAnswered`, `HangUpIsNoticed`, `LossIsNoticed`, `TaskEnds`,
`ConvergesOrSticks`, `JobsGoOn` and `SignalsAreHandled` need fairness and with it
ENABLED, which the provers do not handle. The runs that expect a violation are
counterexamples and prove themselves.

## What is not modelled

- the contents of XML beyond what the models tell apart; IP and RPSL parsing;
- how RPSL terms combine and how IRR queries are pipelined, beyond their use:
  that is in the `rpsl` and `irrc` crates;
- connection set-up, TLS and SSH authentication, PEM files, the command line
  tools (argument parsing, logging and one call), logging;
- the chunked framing of RFC 6242, which the transports lack although the client
  advertises base:1.1 (`hello.rs:105`): see `hazards`;
- the task that `try_join!` leaves behind when the other one fails
  (`task.rs:101`). It keeps half of its session and its IRR connection, but only
  reads, and it is left before anything is loaded, so the device is not touched;
- what the device does with two sessions that have the ephemeral database open;
- what `<load-error-count>` counts, see `ReadAsWritten` above;
- what becomes of the owner of a request that was glued to a torn one, or of a reply
  that a dropped future had in its hand (`session.rs:313`): each may wait for ever, and
  `PolledFutureSettles` is about behaviours without faults.

## Plan

1. The agent as a whole: `Daemon` and `UpdateJob` composed, convergence within
   a bound on the number of jobs.
2. `Session` over `Framing`: what a merged piece does to the table. `Replies`
   has the answer for the message alone: the first reply counts.
3. Proofs: the safety half of what is left to liveness, as invariants: that a
   `Session` without faults always has a step that brings a polled future on, and
   that an `UpdateJob` without changes commits what is wanted in one run.
