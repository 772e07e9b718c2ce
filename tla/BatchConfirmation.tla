-------------------------- MODULE BatchConfirmation --------------------------
(***************************************************************************)
(* The loop over the batches with everything that runs beside it: the      *)
(* protected section that catches signals (utils/os.go), the wait for a    *)
(* confirmation with its monitor, its fallback to the indexer and its own  *)
(* handler of signals (engines/transactor/default.go), and the watcher     *)
(* that alerts the admin (core/execute/confirmation_watch.go).             *)
(***************************************************************************)
EXTENDS Naturals, Sequences

CONSTANTS
    BatchCount,     \* the batches of an execution
    MaxAlerts,      \* bound: alerts of a batch
    MaxSignals      \* bound: signals of an execution

ASSUME BatchAssumption == BatchCount \in Nat /\ MaxAlerts \in Nat /\ MaxSignals \in Nat

Batches == 1..BatchCount

VARIABLES
    at,         \* where the loop stands
    batch,      \* the batch it works on
    section,    \* the protected section: subscribed, a signal in its channel, signaled
    intr,       \* the goroutine of each wait that handles its signals
    canceled,   \* the context of each wait
    poll,       \* the goroutine that asks the indexer
    answer,     \* what it sent to appliedChan
    op,         \* the operation on the chain
    known,      \* the indexer knows how the operation ended
    live,       \* the monitor's result
    outcome,    \* what the monitor saw, then what WaitForApply returned
    watcher,    \* the watcher of each batch
    notices,    \* what the admin was told of each batch
    results,    \* of each batch
    signals     \* how many came

waitVars  == <<intr, canceled, poll, answer, op, known, live, outcome>>
watchVars == <<watcher, notices>>
loopVars  == <<at, batch, section, waitVars, watchVars, results, signals>>

NoSection == [active |-> FALSE, pending |-> FALSE, signaled |-> FALSE]

LoopInit ==
    /\ at = "idle" /\ batch = 1
    /\ section = NoSection
    /\ intr = [b \in Batches |-> "none"]
    /\ canceled = [b \in Batches |-> FALSE]
    /\ poll = "closed" /\ answer = "none"
    /\ op = "unsent" /\ known = FALSE /\ live = "none" /\ outcome = "none"
    /\ watcher = [b \in Batches |-> "none"]
    /\ notices = [b \in Batches |-> <<>>]
    /\ results = [b \in Batches |-> "none"]
    /\ signals = 0

\* The next execution has all of it anew.
LoopInitAgain ==
    /\ at' = "idle" /\ batch' = 1
    /\ section' = NoSection
    /\ intr' = [b \in Batches |-> "none"]
    /\ canceled' = [b \in Batches |-> FALSE]
    /\ poll' = "closed" /\ answer' = "none"
    /\ op' = "unsent" /\ known' = FALSE /\ live' = "none" /\ outcome' = "none"
    /\ watcher' = [b \in Batches |-> "none"]
    /\ notices' = [b \in Batches |-> <<>>]
    /\ results' = [b \in Batches |-> "none"]
    /\ signals' = 0

-----------------------------------------------------------------------------
(* The loop.                                                               *)

\* Mutant: the section is created but not started.
StartUnprotected ==
    /\ at = "idle" /\ at' = "check"
    /\ UNCHANGED <<batch, section, waitVars, watchVars, results, signals>>

StartSection ==
    /\ at = "idle" /\ at' = "check"
    /\ section' = [section EXCEPT !.active = TRUE]
    /\ UNCHANGED <<batch, waitVars, watchVars, results, signals>>

StopSection ==
    /\ at = "check" /\ batch > BatchCount
    /\ at' = "over"
    /\ section' = [section EXCEPT !.active = FALSE]
    /\ UNCHANGED <<batch, waitVars, watchVars, results, signals>>

\* Mutant: the result is not appended.
NextBatchUnrecorded(result) ==
    /\ UNCHANGED results
    /\ batch' = batch + 1
    /\ at' = "check"

NextBatch(result) ==
    /\ results' = [results EXCEPT ![batch] = result]
    /\ batch' = batch + 1
    /\ at' = "check"

CheckSignaled ==
    /\ at = "check" /\ batch <= BatchCount
    /\ IF section.signaled THEN NextBatch("terminated")
                           ELSE at' = "dispatch" /\ UNCHANGED <<batch, results>>
    /\ UNCHANGED <<section, waitVars, watchVars, signals>>

\* Building, recording or broadcasting may fail, or only the connection that
\* would follow an operation that is out; else the watch begins.
Dispatch ==
    /\ at = "dispatch"
    /\ known' = FALSE /\ outcome' = "none"
    /\ \/ /\ NextBatch("failed")
          /\ op' \in {"unsent", "pending"} /\ live' = "none"
          /\ UNCHANGED watcher
       \/ /\ op' = "pending" /\ live' = "open"
          /\ watcher' = [watcher EXCEPT ![batch] = "ticking"]
          /\ at' = "pause"
          /\ UNCHANGED <<batch, results>>
    /\ UNCHANGED <<section, intr, canceled, poll, answer, notices, signals>>

Pause ==
    /\ at = "pause" /\ at' = "begin"
    /\ section' = [section EXCEPT !.active = FALSE]
    /\ UNCHANGED <<batch, waitVars, watchVars, results, signals>>

\* The protection is back, and the watch is told to end: close(done).
Resume ==
    /\ at = "resume" /\ at' = "stopping"
    /\ section' = [section EXCEPT !.active = TRUE]
    /\ UNCHANGED <<batch, waitVars, watchVars, results, signals>>

-----------------------------------------------------------------------------
(* WaitForApply.                                                           *)

BeginWait ==
    /\ at = "begin" /\ at' = "waiting"
    /\ intr' = [intr EXCEPT ![batch] = "starting"]
    /\ poll' = "sleeping" /\ answer' = "none"
    /\ UNCHANGED <<batch, section, canceled, op, known, live, outcome, watchVars, results, signals>>

\* WaitContext returns: its context was canceled, or the monitor is done.
WaitReturns ==
    /\ at = "waiting"
    /\ \/ canceled[batch] /\ UNCHANGED outcome
       \/ live # "open" /\ outcome' = live
    /\ canceled' = [canceled EXCEPT ![batch] = TRUE]
    /\ at' = "drain" /\ live' = "none"
    /\ UNCHANGED <<batch, section, intr, poll, answer, op, known, watchVars, results, signals>>

\* Mutant: the end of the wait is taken for a success.
AnswersOptimistic ==
    IF answer = "failed" THEN {"failed"} ELSE {"applied"}

\* The indexer's answer counts; without one the monitor's, whose receipt may
\* be out of reach.
Answers ==
    IF answer # "none" THEN {answer}
    ELSE IF outcome = "included" THEN {op, "failed"} ELSE {"failed"}

\* The answer is read once the fallback closed its channel or sent to it.
ReadAnswer ==
    /\ at = "drain" /\ poll = "closed"
    /\ outcome' \in Answers
    /\ at' = "resume" /\ answer' = "none" /\ known' = FALSE
    /\ UNCHANGED <<batch, section, intr, canceled, poll, op, live, watchVars, results, signals>>

\* The fallback's sleep is over, or the wait is.
PollWakes ==
    /\ poll = "sleeping"
    /\ poll' = IF canceled[batch] THEN "closed" ELSE "asking"
    /\ UNCHANGED <<at, batch, section, intr, canceled, answer, op, known, live, outcome,
                   watchVars, results, signals>>

\* Mutant: the fallback does not end the wait.
PollFindsQuietly ==
    /\ poll = "asking" /\ known
    /\ answer' = op /\ poll' = "closed"
    /\ UNCHANGED <<at, batch, section, intr, canceled, op, known, live, outcome, watchVars,
                   results, signals>>

PollFinds ==
    /\ poll = "asking" /\ known
    /\ answer' = op /\ poll' = "closed"
    /\ canceled' = [canceled EXCEPT ![batch] = TRUE]
    /\ UNCHANGED <<at, batch, section, intr, op, known, live, outcome, watchVars, results, signals>>

\* The indexer does not know, or does not answer.
PollFails ==
    /\ poll = "asking" /\ poll' = "sleeping"
    /\ UNCHANGED <<at, batch, section, intr, canceled, answer, op, known, live, outcome,
                   watchVars, results, signals>>

\* The handler of the wait's signals: CallbackOnInterrupt.
Listen(b) ==
    /\ intr[b] = "starting"
    /\ intr' = [intr EXCEPT ![b] = "listening"]
    /\ UNCHANGED canceled

Interrupt(b) ==
    /\ intr[b] = "caught"
    /\ intr' = [intr EXCEPT ![b] = "stopped"]
    /\ canceled' = [canceled EXCEPT ![b] = TRUE]

\* The wait is over; a signal that came meanwhile may be passed over.
Unlisten(b) ==
    /\ intr[b] \in {"listening", "caught"} /\ canceled[b]
    /\ intr' = [intr EXCEPT ![b] = "stopped"]
    /\ UNCHANGED canceled

Handler(b) ==
    /\ Listen(b) \/ Interrupt(b) \/ Unlisten(b)
    /\ UNCHANGED <<at, batch, section, poll, answer, op, known, live, outcome, watchVars,
                   results, signals>>

-----------------------------------------------------------------------------
(* The watcher.                                                            *)

Done(b) == b < batch \/ (b = batch /\ at = "stopping")

\* Mutant: the timer is never set.
WatcherNeverAlerts(b) == FALSE

WatcherAlerts(b) ==
    /\ watcher[b] = "ticking" /\ Len(notices[b]) < MaxAlerts
    /\ notices' = [notices EXCEPT ![b] = Append(@, "alert")]
    /\ UNCHANGED watcher

WatcherStops(b) ==
    /\ watcher[b] = "ticking" /\ Done(b)
    /\ watcher' = [watcher EXCEPT ![b] = "stopped"]
    /\ UNCHANGED notices

Watcher(b) ==
    /\ WatcherAlerts(b) \/ WatcherStops(b)
    /\ UNCHANGED <<at, batch, section, waitVars, results, signals>>

\* Mutant: the outcome does not wait for the watcher.
ReportOutcomeAtOnce ==
    /\ at = "stopping"
    /\ notices' = IF notices[batch] = <<>> THEN notices
                  ELSE [notices EXCEPT ![batch] = Append(@, "outcome")]
    /\ NextBatch(IF outcome = "applied" THEN "success" ELSE "failed")
    /\ UNCHANGED <<section, waitVars, watcher, signals>>

\* The watcher tells whether it alerted, and stops.
ReportOutcome ==
    /\ at = "stopping" /\ watcher[batch] = "stopped"
    /\ notices' = IF notices[batch] = <<>> THEN notices
                  ELSE [notices EXCEPT ![batch] = Append(@, "outcome")]
    /\ NextBatch(IF outcome = "applied" THEN "success" ELSE "failed")
    /\ UNCHANGED <<section, waitVars, watcher, signals>>

-----------------------------------------------------------------------------
(* Outside.  What happens before the wait, or after it, shows to nobody.   *)

Watched == at \in {"begin", "waiting", "drain"}

\* The chain includes the operation; it may also never.
Settle ==
    /\ Watched /\ op = "pending"
    /\ op' \in {"applied", "failed"}
    /\ UNCHANGED <<at, batch, section, intr, canceled, poll, answer, known, live, outcome,
                   watchVars, results, signals>>

Learn ==
    /\ Watched /\ op \in {"applied", "failed"} /\ ~known
    /\ known' = TRUE
    /\ UNCHANGED <<at, batch, section, intr, canceled, poll, answer, op, live, outcome,
                   watchVars, results, signals>>

\* The monitor sees the operation in a block, or its time to live pass; it
\* may also be stuck.
MonitorEnds ==
    /\ Watched /\ live = "open"
    /\ \/ op \in {"applied", "failed"} /\ live' = "included"
       \/ live' = "none"
    /\ UNCHANGED <<at, batch, section, intr, canceled, poll, answer, op, known, outcome,
                   watchVars, results, signals>>

\* A signal goes to every channel that asks for it, and kills a process in
\* which none does; covered says that another part of the process asks.
Signal(covered) ==
    LET listening == {b \in Batches : intr[b] = "listening"}
        subscribed == section.active \/ \E b \in Batches : intr[b] \in {"listening", "caught"}
    IN  /\ at \notin {"idle", "over", "killed"} /\ signals < MaxSignals
        /\ signals' = signals + 1
        /\ section' = [section EXCEPT !.pending = @ \/ section.active]
        /\ intr' = [b \in Batches |-> IF b \in listening THEN "caught" ELSE intr[b]]
        /\ at' = IF subscribed \/ covered THEN at ELSE "killed"
        /\ UNCHANGED <<batch, canceled, poll, answer, op, known, live, outcome, watchVars, results>>

\* The section's goroutine.
NoteSignal ==
    /\ section.pending
    /\ section' = [section EXCEPT !.pending = FALSE, !.signaled = TRUE]
    /\ UNCHANGED <<at, batch, waitVars, watchVars, results, signals>>

Loop ==
    \/ StopSection \/ CheckSignaled \/ Dispatch \/ Pause \/ BeginWait
    \/ WaitReturns \/ ReadAnswer \/ Resume \/ ReportOutcome

Beside ==
    \/ PollWakes \/ PollFinds \/ PollFails \/ NoteSignal
    \/ \E b \in Batches : Handler(b) \/ Watcher(b)

World == Settle \/ Learn \/ MonitorEnds
=============================================================================
