------------------------------- MODULE Daemon -------------------------------
(***************************************************************************)
(* The agent's daemon mode, Loop::start in junos-agent/src/task.rs: an     *)
(* update job whenever the interval timer fires, a wait of one period      *)
(* after a job that succeeded, an exponential backoff after jobs that      *)
(* failed, SIGHUP to start a job at once, SIGINT and SIGTERM to leave.     *)
(*                                                                         *)
(* Time is counted in units small enough for MinBackoff and the periods to *)
(* be whole.  A job's outcome is a free choice here; module UpdateJob says *)
(* what a job does.                                                        *)
(***************************************************************************)
EXTENDS Naturals

CONSTANTS Periods,     \* values of the --frequency option, zero is no daemon
          MinBackoff,  \* MIN_BACKOFF
          MaxRun       \* bound: consecutive failures that are counted

ASSUME TimesAssumption ==
  /\ Periods \subseteq Nat \ {0}
  /\ MinBackoff \in Nat \ {0} /\ MaxRun \in Nat \ {0}

VARIABLES
  period,    \* the --frequency option of this daemon
  mode,      \* in select!, awaiting the job, or out of the loop
  timer,     \* time until interval.tick() is ready; 0 when it is
  backoff,   \* the wait after the next failure
  signals,   \* signals received and not yet handled; each kind once
  failures   \* history: failures since the last success, counted to MaxRun

vars == <<period, mode, timer, backoff, signals, failures>>

Signals == {"INT", "TERM", "HUP"}
Exits   == {"INT", "TERM"}
Least(a, b) == IF a < b THEN a ELSE b
LongestWait == IF period < MinBackoff THEN MinBackoff ELSE period

(* The first tick of a tokio interval is immediate.                        *)
Init == /\ period \in Periods
        /\ mode = "selecting" /\ timer = 0 /\ backoff = MinBackoff
        /\ signals = {} /\ failures = 0

(* The streams coalesce: a second signal of a kind before the first is     *)
(* handled is not seen.                                                    *)
Signal(s) ==
  /\ mode # "exited"
  /\ signals' = signals \cup {s}
  /\ UNCHANGED <<period, mode, timer, backoff, failures>>

(* select! does not sleep while one of its branches is ready; a job takes  *)
(* whatever time it takes.                                                 *)
TimePasses ==
  /\ mode = "selecting" => signals = {}
  /\ mode # "exited" /\ timer > 0
  /\ timer' = timer - 1
  /\ UNCHANGED <<period, mode, backoff, signals, failures>>

Exit(s) ==
  /\ mode = "selecting" /\ s \in signals \cap Exits
  /\ mode' = "exited"
  /\ signals' = signals \ {s}
  /\ UNCHANGED <<period, timer, backoff, failures>>

(* Mutant: a hang-up starts a new period. *)
HangUp_FullPeriod ==
  /\ mode = "selecting" /\ "HUP" \in signals
  /\ timer' = period
  /\ signals' = signals \ {"HUP"}
  /\ UNCHANGED <<period, mode, backoff, failures>>

(* interval.reset_immediately(); the backoff is kept.                      *)
HangUp ==
  /\ mode = "selecting" /\ "HUP" \in signals
  /\ timer' = 0
  /\ signals' = signals \ {"HUP"}
  /\ UNCHANGED <<period, mode, backoff, failures>>

(* The tick also schedules the next one a period later.                    *)
StartJob ==
  /\ mode = "selecting" /\ timer = 0
  /\ mode' = "running"
  /\ timer' = period
  /\ UNCHANGED <<period, backoff, signals, failures>>

(* Mutant: the backoff is not set back. *)
JobSucceeds_KeepsBackoff ==
  /\ mode = "running"
  /\ mode' = "selecting" /\ timer' = period /\ failures' = 0
  /\ UNCHANGED <<period, backoff, signals>>

(* Mutant: the signal streams are made anew for every turn of the loop. *)
JobSucceeds_LosesSignals ==
  /\ mode = "running"
  /\ mode' = "selecting" /\ timer' = period /\ failures' = 0
  /\ backoff' = MinBackoff /\ signals' = {} /\ UNCHANGED period

JobSucceeds ==
  /\ mode = "running"
  /\ mode' = "selecting"
  /\ timer' = period
  /\ backoff' = MinBackoff
  /\ failures' = 0
  /\ UNCHANGED <<period, signals>>

(* Mutant: the bound is applied before the backoff is doubled. *)
JobFails_DoublesLast ==
  /\ mode = "running"
  /\ mode' = "selecting" /\ timer' = backoff
  /\ backoff' = 2 * Least(period, backoff)
  /\ failures' = Least(MaxRun, failures + 1)
  /\ UNCHANGED <<period, signals>>

(* Mutant: the backoff has no upper bound. *)
JobFails_Unbounded ==
  /\ mode = "running"
  /\ mode' = "selecting" /\ timer' = backoff /\ backoff' = 2 * backoff
  /\ failures' = Least(MaxRun, failures + 1)
  /\ UNCHANGED <<period, signals>>

(* The job returned an error or its task panicked.                         *)
JobFails ==
  /\ mode = "running"
  /\ mode' = "selecting"
  /\ timer' = backoff
  /\ backoff' = Least(period, 2 * backoff)
  /\ failures' = Least(MaxRun, failures + 1)
  /\ UNCHANGED <<period, signals>>

JobEnds == JobSucceeds \/ JobFails

Next ==
  \/ \E s \in Signals : Signal(s) \/ Exit(s)
  \/ TimePasses \/ HangUp \/ StartJob \/ JobEnds

Spec == Init /\ [][Next]_vars

(* Time goes on and a ready branch is taken; select! polls its branches in *)
(* random order, so that a signal that is ready again and again is not     *)
(* passed over for ever.  Jobs end: nothing in task.rs limits their time,  *)
(* and all the promises below are off while a job hangs.                   *)
Fairness ==
  /\ WF_vars(TimePasses) /\ WF_vars(JobEnds)
  /\ SF_vars(StartJob) /\ SF_vars(HangUp)
  /\ \A s \in Exits : SF_vars(Exit(s))

FairSpec == Spec /\ Fairness

----------------------------------------------------------------------------
(* Type invariant. *)
TypeOK ==
  /\ period \in Periods /\ mode \in {"selecting", "running", "exited"}
  /\ timer \in 0 .. LongestWait /\ backoff \in 1 .. LongestWait
  /\ signals \subseteq Signals /\ failures \in 0 .. MaxRun

(* The wait after a failure doubles with every failure in a row, from      *)
(* MIN_BACKOFF up to the period, and starts again after a success, however *)
(* hang-ups and signals come in between (task.rs:141, 168, 172-174).       *)
BackoffIsExponential ==
  failures < MaxRun =>
    backoff = IF failures = 0 THEN MinBackoff
              ELSE Least(period, MinBackoff * 2 ^ failures)

(* The daemon updates the policies every period (cli.rs:79): no wait for   *)
(* the next job is longer, after a success or a failure, but for the one   *)
(* after the first failure in a row, which is MIN_BACKOFF also when the    *)
(* period is shorter than that (task.rs:134, 141, 166-176).                *)
LongerOnlyAfterFirstFailure ==
  timer > period => failures = 1 /\ timer <= MinBackoff

(* Failures never end the loop and never stop the timer: as long as jobs   *)
(* end, there is always another one, until a signal ends the daemon.       *)
JobsGoOn == []<>(mode = "running" \/ mode = "exited")

(* SIGINT and SIGTERM end the daemon once the job that is running has      *)
(* ended, whatever else is ready in the select!; a hang-up is not passed   *)
(* over for ever either.                                                   *)
SignalsAreHandled ==
  /\ \A s \in Exits : (s \in signals) ~> (mode = "exited")
  /\ ("HUP" \in signals) ~> ("HUP" \notin signals \/ mode = "exited")

=============================================================================
