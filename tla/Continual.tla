----------------------------- MODULE Continual -----------------------------
(***************************************************************************)
(* The continual mode (cmd/continual.go) with its cycle monitor            *)
(* (common/cycle_monitor.go): a goroutine polls the head and offers the    *)
(* cycle it counts as current on an unbuffered channel; the main loop      *)
(* waits on it for the next completed cycle, checks the protocol and       *)
(* processes the cycles that end a payout period, retrying until it        *)
(* succeeds.  SIGINT closes the channel.                                   *)
(***************************************************************************)
EXTENDS Integers

CONSTANTS
    PaymentInterval, IntervalTriggerOffset, IncludePreviousCycles,
    InitialCycle, EndCycle,             \* the flags, as given
    IgnoreProtocolChanges,
    Windows,                            \* payout delays, [min, max] in blocks,
                                        \* that configurations give
    StartCycle, MaxCycle,               \* cycles of the chain: bounds
    CycleBlocks,                        \* blocks of a cycle
    Protocols,                          \* the chain's are 1, 2, ... Protocols
    NoPair,                             \* the empty notification key
    Faults

FaultKinds == { "retry",        \* refreshing, locking or generating fails
                "prepare",      \* preparing or splitting the payouts fails
                "signal" }      \* SIGINT or SIGTERM

ASSUME ConstantsAssumption ==
    /\ {PaymentInterval, IntervalTriggerOffset, IncludePreviousCycles,
        InitialCycle, EndCycle} \subseteq Int
    /\ IgnoreProtocolChanges \in BOOLEAN
    /\ Windows \subseteq [min : Nat \ {0}, max : Nat]
    /\ \A w \in Windows : w.min <= w.max
    /\ StartCycle \in Nat \ {0} /\ MaxCycle \in Nat /\ StartCycle <= MaxCycle
    /\ CycleBlocks \in Nat \ {0} /\ Protocols \in Nat \ {0}
    /\ NoPair \notin Nat \X Nat
    /\ Faults \subseteq FaultKinds

VARIABLES
    cycle, pos, protocol,   \* the head: its cycle, its position in it, ...
    pc,                     \* where the main goroutine stands
    completed,              \* onchainCompletedCycle
    last,                   \* lastProcessedCycle
    toProcess,              \* cycleToProcess
    expected,               \* expectedProtocol
    lastPair,               \* lastNotifiedProtocolPair
    lastRetry,              \* lastRetryNotifiedCycle
    mon,                    \* where the monitor's goroutine stands
    offer,                  \* the cycle it sends
    delay,                  \* NotificationDelay
    closed,                 \* the monitor's context and channel
    armed,                  \* the callback that cancels the monitor
    since, known,           \* history: last and completed at the start
    covered,                \* history: cycles of completed periods
    sent, again             \* history: notices, and whether one was repeated

chain   == <<cycle, pos, protocol>>
monitor == <<mon, offer, delay, closed, armed>>
notices == <<sent, again>>
started == <<since, known>>
vars    == <<chain, pc, completed, last, toProcess, expected, lastPair,
             lastRetry, monitor, started, covered, notices>>

Stopped == {"returned", "exited", "killed", "panicked"}
Running == pc \notin Stopped

----------------------------------------------------------------------------
(* The flags and periods, cmd/a_common.go.                                 *)

Capped(v, min, max) == IF v < min THEN min ELSE IF v > max THEN max ELSE v

BoundToInterval(v, interval) ==
    IF interval <= 1 THEN 0 ELSE Capped(v, 0, interval)

Interval        == Capped(PaymentInterval, 1, 365)
Offset          == BoundToInterval(IntervalTriggerOffset, Interval)
IncludePrevious == BoundToInterval(IncludePreviousCycles, Interval * 2)

IsPeriodEnd(c) == c > 0 /\ (c + Offset) % Interval = 0

\* Mutant: the period loses its first cycle.
CyclesOfShortPeriod(c) ==
    LET start == c - Interval + 2 - IncludePrevious
    IN  (IF start < 0 THEN 0 ELSE start) .. c

CyclesOfPeriod(c) ==
    LET start == c - Interval + 1 - IncludePrevious
    IN  (IF start < 0 THEN 0 ELSE start) .. c

----------------------------------------------------------------------------
Init ==
    /\ cycle = StartCycle /\ pos \in 0 .. CycleBlocks - 1 /\ protocol = 1
    /\ pc = "start"
    /\ completed = 0 /\ last = 0 /\ toProcess = 0
    /\ expected = 0 /\ lastPair = NoPair /\ lastRetry = -1
    /\ mon = "fetch" /\ offer = 0 /\ delay = 0
    /\ closed = FALSE /\ armed = FALSE
    /\ since = 0 /\ known = 0 /\ covered = {}
    /\ sent = {} /\ again = FALSE

Notify(n) ==
    /\ sent' = sent \cup {n}
    /\ again' = (again \/ n \in sent)

\* The monitor is created with a random delay from the window; the cycle to
\* begin with follows from the head and --cycle.
Start ==
    /\ pc = "start"
    /\ \E w \in Windows : delay' \in w.min .. w.max - 1
    /\ armed' = TRUE
    /\ completed' = cycle - 1
    /\ last' = CASE InitialCycle = 0 -> cycle - 1
                 [] InitialCycle > 0 -> InitialCycle - 1
                 [] InitialCycle < 0 -> cycle - 1 + InitialCycle
    /\ expected' = protocol
    /\ since' = last' /\ known' = completed'
    /\ pc' = "loop"
    /\ UNCHANGED <<chain, toProcess, lastPair, lastRetry, mon, offer, closed,
                   covered, notices>>

\* rand.Int63n(0) panics.
StartPanics ==
    /\ pc = "start"
    /\ \E w \in Windows : w.min = w.max
    /\ pc' = "panicked"
    /\ UNCHANGED <<chain, completed, last, toProcess, expected, lastPair,
                   lastRetry, monitor, started, covered, notices>>

\* The head of the loop: wait only if nothing completed is left to process.
Loop ==
    /\ pc = "loop"
    /\ pc' = IF last >= completed THEN "wait" ELSE "check"
    /\ UNCHANGED <<chain, completed, last, toProcess, expected, lastPair,
                   lastRetry, monitor, started, covered, notices>>

\* Mutant: the offered cycle is taken for a completed one.
ReceiveUncompleted ==
    /\ pc = "wait" /\ mon = "send" /\ ~closed
    /\ mon' = "sleep"
    /\ IF last >= offer THEN UNCHANGED <<completed, pc>>
       ELSE completed' = offer /\ pc' = "check"
    /\ UNCHANGED <<chain, last, toProcess, expected, lastPair, lastRetry, offer,
                   delay, closed, armed, started, covered, notices>>

\* waitForNextCompletedCycle receives until a cycle after last completed.
Receive ==
    /\ pc = "wait" /\ mon = "send" /\ ~closed
    /\ mon' = "sleep"
    /\ IF last >= offer - 1 THEN UNCHANGED <<completed, pc>>
       ELSE completed' = offer - 1 /\ pc' = "check"
    /\ UNCHANGED <<chain, last, toProcess, expected, lastPair, lastRetry, offer,
                   delay, closed, armed, started, covered, notices>>

\* Mutant: the end of the channel is not told from a message.
CanceledIgnored ==
    /\ pc = "wait" /\ closed
    /\ pc' = "wait"
    /\ UNCHANGED <<chain, completed, last, toProcess, expected, lastPair,
                   lastRetry, monitor, started, covered, notices>>

\* The channel is closed: the monitoring was cancelled.
Canceled ==
    /\ pc = "wait" /\ closed
    /\ pc' = "returned"
    /\ UNCHANGED <<chain, completed, last, toProcess, expected, lastPair,
                   lastRetry, monitor, started, covered, notices>>

\* Mutant: a safe mode that adopts the new protocol.
EvaluateProtocolChangeUnsafe(exp, cur, pair) ==
    [ notify   |-> cur # exp /\ <<exp, cur>> # pair,
      skip     |-> cur # exp /\ ~IgnoreProtocolChanges,
      expected |-> cur,
      pair     |-> IF cur # exp THEN <<exp, cur>> ELSE pair ]

\* Mutant: notices are not remembered.
EvaluateProtocolChangeForgetful(exp, cur, pair) ==
    [ notify   |-> cur # exp /\ <<exp, cur>> # pair,
      skip     |-> cur # exp /\ ~IgnoreProtocolChanges,
      expected |-> IF IgnoreProtocolChanges THEN cur ELSE exp,
      pair     |-> pair ]

EvaluateProtocolChange(exp, cur, pair) ==
    [ notify   |-> cur # exp /\ <<exp, cur>> # pair,
      skip     |-> cur # exp /\ ~IgnoreProtocolChanges,
      expected |-> IF IgnoreProtocolChanges THEN cur ELSE exp,
      pair     |-> IF cur # exp THEN <<exp, cur>> ELSE pair ]

\* In safe mode a changed protocol sends the loop back to its head.
CheckProtocol ==
    /\ pc = "check"
    /\ LET d == EvaluateProtocolChange(expected, protocol, lastPair) IN
         /\ IF d.notify THEN Notify(<<"protocol", d.pair>>)
                        ELSE UNCHANGED notices
         /\ lastPair' = d.pair
         /\ expected' = d.expected
         /\ pc' = IF d.skip THEN "loop" ELSE "process"
    /\ UNCHANGED <<chain, completed, last, toProcess, lastRetry, monitor,
                   started, covered>>

----------------------------------------------------------------------------
(* processCycleInContinualMode.                                            *)

\* A cycle that ends no period is done at once, whatever EndCycle says.
SkipCycle ==
    /\ pc = "process"
    /\ ~IsPeriodEnd(last + 1)
    /\ toProcess' = last + 1
    /\ last' = last + 1
    /\ pc' = "loop"
    /\ UNCHANGED <<chain, completed, expected, lastPair, lastRetry, monitor,
                   started, covered, notices>>

StartPeriod ==
    /\ pc = "process"
    /\ IsPeriodEnd(last + 1)
    /\ toProcess' = last + 1
    /\ pc' = "work"
    /\ UNCHANGED <<chain, completed, last, expected, lastPair, lastRetry,
                   monitor, started, covered, notices>>

\* Refreshing the engines, the locks or the generation failed: the admin is
\* told once per cycle, and the loop starts over in five minutes.
Retry ==
    /\ "retry" \in Faults
    /\ pc = "work"
    /\ IF lastRetry # toProcess THEN Notify(<<"retry", toProcess>>)
                                ELSE UNCHANGED notices
    /\ lastRetry' = toProcess
    /\ pc' = "loop"
    /\ UNCHANGED <<chain, completed, last, toProcess, expected, lastPair,
                   monitor, started, covered>>

PrepareFails ==
    /\ "prepare" \in Faults
    /\ pc = "work"
    /\ pc' = "exited"
    /\ UNCHANGED <<chain, completed, last, toProcess, expected, lastPair,
                   lastRetry, monitor, started, covered, notices>>

\* Mutant: the end cycle is not looked at.
CompleteForever ==
    /\ last' = toProcess
    /\ covered' = covered \cup CyclesOfPeriod(toProcess)
    /\ pc' = "loop"

\* The deferred completion of a processed cycle, failed batches or not.
Complete ==
    /\ last' = toProcess
    /\ covered' = covered \cup CyclesOfPeriod(toProcess)
    /\ pc' = IF EndCycle # 0 /\ toProcess >= EndCycle THEN "exited" ELSE "loop"

\* No data for the cycles, or no valid payout.
NothingToPay ==
    /\ pc = "work"
    /\ Complete
    /\ UNCHANGED <<chain, completed, toProcess, expected, lastPair, lastRetry,
                   monitor, started, notices>>

\* The protected section starts.
StartPayouts ==
    /\ pc = "work"
    /\ pc' = "pay"
    /\ UNCHANGED <<chain, completed, last, toProcess, expected, lastPair,
                   lastRetry, monitor, started, covered, notices>>

FinishPayouts ==
    /\ pc = "pay"
    /\ Complete
    /\ UNCHANGED <<chain, completed, toProcess, expected, lastPair, lastRetry,
                   monitor, started, notices>>

----------------------------------------------------------------------------
(* The monitor's goroutine.                                                *)

\* Mutant: the delay is ignored.
FetchUndelayed ==
    /\ Running /\ pc # "start"
    /\ mon = "fetch" /\ ~closed
    /\ offer' = cycle
    /\ mon' = "send"
    /\ UNCHANGED <<chain, pc, completed, last, toProcess, expected, lastPair,
                   lastRetry, delay, closed, armed, started, covered, notices>>

\* The head is read and its cycle, or before the delay the one before, is
\* about to be sent.
Fetch ==
    /\ Running /\ pc # "start"
    /\ mon = "fetch" /\ ~closed
    /\ offer' = IF pos >= delay THEN cycle ELSE cycle - 1
    /\ mon' = "send"
    /\ UNCHANGED <<chain, pc, completed, last, toProcess, expected, lastPair,
                   lastRetry, delay, closed, armed, started, covered, notices>>

\* Mutant: the goroutine ends after one message.
WakeNever ==
    /\ Running /\ mon = "sleep"
    /\ mon' = "done"
    /\ UNCHANGED <<chain, pc, completed, last, toProcess, expected, lastPair,
                   lastRetry, offer, delay, closed, armed, started, covered,
                   notices>>

\* It sleeps between two fetches and ends when its context is cancelled.
Wake ==
    /\ Running /\ mon = "sleep"
    /\ mon' = IF closed THEN "done" ELSE "fetch"
    /\ UNCHANGED <<chain, pc, completed, last, toProcess, expected, lastPair,
                   lastRetry, offer, delay, closed, armed, started, covered,
                   notices>>

\* The request fails with the context.
FetchCanceled ==
    /\ Running
    /\ mon = "fetch" /\ closed
    /\ mon' = "done"
    /\ UNCHANGED <<chain, pc, completed, last, toProcess, expected, lastPair,
                   lastRetry, offer, delay, closed, armed, started, covered,
                   notices>>

\* The first signal cancels the monitor, which closes the channel; a
\* goroutine that is sending on it panics.  The callback is gone after it:
\* then only the protected section keeps a signal from killing the process.
Signal ==
    /\ "signal" \in Faults
    /\ Running
    /\ armed' = FALSE
    /\ IF armed
       THEN /\ closed' = TRUE
            /\ pc' = IF mon = "send" THEN "panicked" ELSE pc
       ELSE /\ UNCHANGED closed
            /\ pc' = IF pc = "pay" THEN pc ELSE "killed"
    /\ UNCHANGED <<chain, completed, last, toProcess, expected, lastPair,
                   lastRetry, mon, offer, delay, started, covered, notices>>

----------------------------------------------------------------------------
(* The chain.                                                              *)

Block ==
    /\ Running
    /\ \/ /\ pos < CycleBlocks - 1
          /\ pos' = pos + 1
          /\ UNCHANGED cycle
       \/ /\ pos = CycleBlocks - 1 /\ cycle < MaxCycle
          /\ pos' = 0
          /\ cycle' = cycle + 1
    /\ UNCHANGED <<protocol, pc, completed, last, toProcess, expected, lastPair,
                   lastRetry, monitor, started, covered, notices>>

ChangeProtocol ==
    /\ Running
    /\ protocol < Protocols
    /\ protocol' = protocol + 1
    /\ UNCHANGED <<cycle, pos, pc, completed, last, toProcess, expected,
                   lastPair, lastRetry, monitor, started, covered, notices>>

----------------------------------------------------------------------------
Succeed == NothingToPay \/ StartPayouts

MainStep ==
    \/ Start \/ StartPanics
    \/ Loop \/ Receive \/ Canceled \/ CheckProtocol
    \/ SkipCycle \/ StartPeriod \/ FinishPayouts

MonitorStep == Fetch \/ Wake \/ FetchCanceled

Next ==
    \/ MainStep \/ Succeed
    \/ Retry \/ PrepareFails
    \/ MonitorStep
    \/ Signal
    \/ Block \/ ChangeProtocol

Spec == Init /\ [][Next]_vars

\* Goroutines are scheduled and calls answered; a period that is retried
\* without end would succeed at some attempt.
FairSpec == Spec /\ WF_vars(MainStep) /\ WF_vars(MonitorStep) /\ SF_vars(Succeed)

----------------------------------------------------------------------------
TypeOK ==
    /\ cycle \in StartCycle .. MaxCycle
    /\ pos \in 0 .. CycleBlocks - 1
    /\ protocol \in 1 .. Protocols
    /\ pc \in Stopped \cup {"start", "loop", "wait", "check", "process", "work",
                            "pay"}
    /\ completed \in Int /\ completed < MaxCycle
    /\ offer \in Int /\ offer <= MaxCycle
    /\ last \in Int /\ toProcess \in Int /\ lastRetry \in Int
    /\ since \in Int /\ known \in Int
    /\ expected \in 0 .. Protocols
    /\ delay \in Nat
    /\ mon \in {"fetch", "send", "sleep", "done"}
    /\ closed \in BOOLEAN /\ armed \in BOOLEAN /\ again \in BOOLEAN
    /\ covered \subseteq Int

\* Cycle c is over for as many blocks as payouts are delayed.
Settled(c) == cycle > c + 1 \/ (cycle = c + 1 /\ pos >= delay)

\* A period is processed only after its last cycle was completed, and, unless
\* that was so when the mode started, only after the delay: the cycle that is
\* processed comes from a message sent some time ago and from last.
OnlySettledCycles ==
    pc \in {"work", "pay"} => toProcess <= known \/ Settled(toProcess)

\* No cycle is passed over: once the loop is past a cycle and the end of its
\* period, a period that has the cycle was processed.
NoCycleSkipped ==
    \A e \in since + 1 .. last : IsPeriodEnd(e) =>
        \A c \in 1 .. e : c > since => c \in covered

\* In safe mode nothing is processed once a changed protocol was noticed.
SafeModeStops ==
    [][~IgnoreProtocolChanges /\ lastPair # NoPair =>
         last' = last /\ covered' = covered]_vars

\* No notice, of a failing cycle or of a new protocol, is sent twice.
NoNoticeTwice == ~again

\* Once a period that ends at the end cycle or later was processed, no other
\* is.
StopsAtEndCycle ==
    EndCycle # 0 /\ pc \in {"work", "pay"} =>
        \A e \in since + 1 .. toProcess - 1 : IsPeriodEnd(e) => e < EndCycle

\* Payouts trigger on the cycles the flag's documentation names.
TriggersAsDocumented ==
    pc = "work" => (toProcess - Offset) % Interval = 0

\* A signal does not end the process while payouts are being executed.
ProtectedFromSignals == [][pc = "pay" => pc' \notin {"panicked", "killed"}]_vars

\* Every cycle is processed some time after it was completed.
EveryCycleProcessed ==
    \A c \in StartCycle .. MaxCycle :
        Running /\ pc # "start" /\ Settled(c) ~> last >= c \/ ~Running

\* A signal ends the mode.
SignalEndsLoop == closed ~> ~Running

----------------------------------------------------------------------------
(* The inductive invariant of the safety proofs, in named parts.           *)

\* What the monitor is about to send, and what was taken from it.
MonitorInv ==
    /\ mon = "send" => pc # "start" /\ offer <= cycle /\ Settled(offer - 1)
    /\ completed <= known \/ Settled(completed)

\* A cycle is looked at only if it is completed and the one after last.
LoopInv ==
    /\ pc \in {"check", "process", "work", "pay"} => last < completed
    /\ pc \in {"work", "pay"} => toProcess = last + 1 /\ IsPeriodEnd(toProcess)

\* Protocols only succeed one another, so a change once noticed in safe mode
\* is noticed at every check.
SafeInv ==
    /\ pc = "start" => lastPair = NoPair
    /\ expected <= protocol
    /\ ~IgnoreProtocolChanges /\ lastPair # NoPair =>
          expected < protocol /\ pc \notin {"process", "work", "pay"}

\* While the mode runs, no period processed so far reaches the end cycle.
EndInv ==
    EndCycle # 0 /\ Running /\ pc # "start" =>
        \A e \in since + 1 .. last : IsPeriodEnd(e) => e < EndCycle

\* A cycle that is not covered is waiting for the end of its period.
CoverInv ==
    \A c \in since + 1 .. last :
        c > 0 => c \in covered \/ \A e \in c .. last : ~IsPeriodEnd(e)

\* What was told is remembered for as long as it could be told again: a cycle
\* that fails until the loop is past it, a pair of protocols until the newer is
\* the expected one or is itself replaced.
NoticeInv ==
    /\ ~again
    /\ pc = "start" => sent = {}
    /\ \A n \in sent : n[1] = "retry" =>
          /\ n[2] \in Int /\ n[2] <= last + 1
          /\ n[2] = last + 1 => lastRetry = n[2]
    /\ \A n \in sent : n[1] = "protocol" =>
          /\ n[2][2] \in Int /\ n[2][2] <= protocol
          /\ n[2][2] = protocol =>
                expected = protocol \/ (n[2] = <<expected, protocol>> /\ lastPair = n[2])

ContinualInv ==
    MonitorInv /\ LoopInv /\ SafeInv /\ EndInv /\ CoverInv /\ NoticeInv
============================================================================
