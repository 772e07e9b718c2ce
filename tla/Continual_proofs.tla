-------------------------- MODULE Continual_proofs -------------------------
(***************************************************************************)
(* The safety of the continual mode, for every flag, delay, length of a    *)
(* cycle and number of protocols: the invariant of module Continual is     *)
(* inductive, and the safety properties follow from it.                    *)
(***************************************************************************)
EXTENDS Continual, TLAPS

\* The bounded interval is a positive number of cycles.
LEMMA IntervalPositive == Interval \in Nat \ {0}
BY ConstantsAssumption DEF Interval, Capped

\* The bounded offset and number of included cycles are natural numbers.
LEMMA BoundsNatural == Offset \in Nat /\ IncludePrevious \in Nat
BY IntervalPositive, ConstantsAssumption
   DEF Offset, IncludePrevious, BoundToInterval, Capped

\* The random delay of Start is a number of blocks.
LEMMA DelayNatural == ASSUME Start PROVE delay' \in Nat
<1>1. PICK w \in Windows : delay' \in w.min .. w.max - 1
  BY DEF Start
<1>2. w.min \in Nat /\ w.max \in Nat
  BY ConstantsAssumption
<1> QED
  BY <1>1, <1>2

\* Whether a notice was repeated stays a truth value.
LEMMA NoticeType ==
    ASSUME again \in BOOLEAN, (\E n : Notify(n)) \/ UNCHANGED notices
    PROVE  again' \in BOOLEAN
BY Zenon DEF Notify, notices

\* What a check of the protocol does: a changed one is noted down, in safe
\* mode the expected one stays and the loop starts over.
LEMMA CheckFacts ==
    ASSUME CheckProtocol
    PROVE  /\ pc = "check"
           /\ expected' = IF IgnoreProtocolChanges THEN protocol ELSE expected
           /\ lastPair' = IF protocol # expected THEN <<expected, protocol>>
                                                 ELSE lastPair
           /\ pc' = IF protocol # expected /\ ~IgnoreProtocolChanges
                    THEN "loop" ELSE "process"
           /\ (\E n : Notify(n)) \/ UNCHANGED notices
           /\ UNCHANGED <<chain, completed, last, toProcess, lastRetry, monitor,
                          started, covered>>
<1> DEFINE d == EvaluateProtocolChange(expected, protocol, lastPair)
<1>1. /\ d.skip <=> protocol # expected /\ ~IgnoreProtocolChanges
      /\ d.expected = IF IgnoreProtocolChanges THEN protocol ELSE expected
      /\ d.pair = IF protocol # expected THEN <<expected, protocol>> ELSE lastPair
  BY DEF EvaluateProtocolChange
<1>2. /\ pc = "check" /\ expected' = d.expected /\ lastPair' = d.pair
      /\ pc' = IF d.skip THEN "loop" ELSE "process"
      /\ UNCHANGED <<chain, completed, last, toProcess, lastRetry, monitor,
                     started, covered>>
  BY DEF CheckProtocol
<1>3. (\E n : Notify(n)) \/ UNCHANGED notices
  BY Zenon DEF CheckProtocol
<1> HIDE DEF d
<1> QED
  BY <1>1, <1>2, <1>3

\* What a retry does.
LEMMA RetryFacts ==
    ASSUME Retry
    PROVE  /\ pc = "work" /\ pc' = "loop" /\ lastRetry' = toProcess
           /\ (\E n : Notify(n)) \/ UNCHANGED notices
           /\ UNCHANGED <<chain, completed, last, toProcess, expected, lastPair,
                          monitor, started, covered>>
BY Zenon DEF Retry

\* Every step keeps the types.
LEMMA TypeStep == TypeOK /\ [Next]_vars => TypeOK'
<1> SUFFICES ASSUME TypeOK, [Next]_vars PROVE TypeOK'
  OBVIOUS
<1> USE ConstantsAssumption DEF TypeOK, Stopped, chain, monitor, notices, started
<1>1. CASE Start
  BY <1>1, DelayNatural DEF Start
<1>2. CASE StartPanics
  BY <1>2 DEF StartPanics
<1>3. CASE Loop
  BY <1>3 DEF Loop
<1>4. CASE Receive
  BY <1>4 DEF Receive
<1>5. CASE Canceled
  BY <1>5 DEF Canceled
<1>6. CASE CheckProtocol
  <2>1. again' \in BOOLEAN
    BY <1>6, CheckFacts, NoticeType
  <2>2. expected' \in 0 .. Protocols /\ pc' \in {"loop", "process"}
    <3>1. expected' = protocol \/ expected' = expected
      BY <1>6, CheckFacts
    <3> QED
      BY <1>6, <3>1, CheckFacts
  <2>3. UNCHANGED <<chain, completed, last, toProcess, lastRetry, monitor,
                    started, covered>>
    BY <1>6, CheckFacts
  <2> QED
    BY <2>1, <2>2, <2>3
<1>7. CASE SkipCycle
  BY <1>7 DEF SkipCycle
<1>8. CASE StartPeriod
  BY <1>8 DEF StartPeriod
<1>9. CASE FinishPayouts \/ NothingToPay
  <2>1. CyclesOfPeriod(toProcess) \subseteq Int
    BY DEF CyclesOfPeriod
  <2> QED
    BY <1>9, <2>1 DEF FinishPayouts, NothingToPay, Complete
<1>10. CASE StartPayouts
  BY <1>10 DEF StartPayouts
<1>11. CASE Retry
  <2>1. again' \in BOOLEAN
    BY <1>11, RetryFacts, NoticeType
  <2> QED
    BY <1>11, <2>1, RetryFacts
<1>12. CASE PrepareFails
  BY <1>12 DEF PrepareFails
<1>13. CASE Fetch
  BY <1>13 DEF Fetch
<1>14. CASE Wake \/ FetchCanceled
  BY <1>14 DEF Wake, FetchCanceled
<1>15. CASE Signal
  BY <1>15 DEF Signal
<1>16. CASE Block \/ ChangeProtocol
  <2>1. CASE Block
    <3>1. cycle' \in StartCycle .. MaxCycle /\ pos' \in 0 .. CycleBlocks - 1
      BY <2>1 DEF Block
    <3> QED
      BY <2>1, <3>1 DEF Block
  <2>2. CASE ChangeProtocol
    BY <2>2 DEF ChangeProtocol
  <2> QED
    BY <1>16, <2>1, <2>2
<1>17. CASE UNCHANGED vars
  BY <1>17 DEF vars
<1> HIDE ConstantsAssumption DEF TypeOK, Stopped, chain, monitor, notices, started
<1> QED
  BY <1>1, <1>2, <1>3, <1>4, <1>5, <1>6, <1>7, <1>8, <1>9, <1>10, <1>11, <1>12,
     <1>13, <1>14, <1>15, <1>16, <1>17 DEF Next, MainStep, Succeed, MonitorStep

\* The initial state has the types.
LEMMA TypeInit == Init => TypeOK
<1> SUFFICES ASSUME Init PROVE TypeOK
  OBVIOUS
<1>1. MaxCycle \in Nat /\ StartCycle \in 1 .. MaxCycle /\ CycleBlocks \in Nat \ {0}
      /\ Protocols \in Nat \ {0}
  BY ConstantsAssumption
<1> QED
  <2>1. /\ completed \in Int /\ completed < MaxCycle
        /\ offer \in Int /\ offer <= MaxCycle
        /\ last \in Int /\ toProcess \in Int /\ lastRetry \in Int
        /\ since \in Int /\ known \in Int
    BY <1>1 DEF Init
  <2>2. closed \in BOOLEAN /\ armed \in BOOLEAN /\ again \in BOOLEAN
    BY Zenon DEF Init
  <2>3. /\ cycle \in StartCycle .. MaxCycle
        /\ pos \in 0 .. CycleBlocks - 1
        /\ protocol \in 1 .. Protocols
        /\ expected \in 0 .. Protocols
        /\ delay \in Nat
    BY <1>1 DEF Init
  <2>4. /\ pc = "start" /\ mon = "fetch" /\ covered = {}
    BY DEF Init
  <2> QED
    BY <2>1, <2>2, <2>3, <2>4 DEF TypeOK, Stopped

\* Every variable keeps its type, and no cycle after the head's is offered or
\* taken for completed.
THEOREM TypeCorrect == Spec => []TypeOK
BY TypeInit, TypeStep, PTL DEF Spec

----------------------------------------------------------------------------
(* Which steps change what.                                                *)

\* The monitor's message changes only when it is fetched.
LEMMA MonitorFrame ==
    ASSUME [Next]_vars
    PROVE  \/ Fetch
           \/ mon' \in {"sleep", "fetch", "done"} /\ offer' = offer
           \/ mon' = mon /\ offer' = offer
BY DEF Next, MainStep, Succeed, MonitorStep, Start, StartPanics, Loop, Receive,
   Canceled, CheckProtocol, SkipCycle, StartPeriod, FinishPayouts, NothingToPay,
   StartPayouts, Retry, PrepareFails, Wake, FetchCanceled, Signal, Block,
   ChangeProtocol, monitor, vars

\* What is known of completed cycles changes at the start and with a message.
LEMMA CompletedFrame ==
    ASSUME [Next]_vars
    PROVE  Start \/ Receive \/ UNCHANGED completed
BY DEF Next, MainStep, Succeed, MonitorStep, StartPanics, Loop,
   Canceled, CheckProtocol, SkipCycle, StartPeriod, FinishPayouts, NothingToPay,
   StartPayouts, Retry, PrepareFails, Fetch, Wake, FetchCanceled, Signal, Block,
   ChangeProtocol, vars

\* The start fixes the delay and what it began with.
LEMMA StartFrame ==
    ASSUME [Next]_vars
    PROVE  Start \/ UNCHANGED <<delay, since, known>>
BY DEF Next, MainStep, Succeed, MonitorStep, StartPanics, Loop, Receive,
   Canceled, CheckProtocol, SkipCycle, StartPeriod, FinishPayouts, NothingToPay,
   StartPayouts, Retry, PrepareFails, Fetch, Wake, FetchCanceled, Signal, Block,
   ChangeProtocol, monitor, started, vars

\* A cycle is left behind by being skipped or processed.
LEMMA LastFrame ==
    ASSUME [Next]_vars
    PROVE  \/ Start \/ SkipCycle \/ FinishPayouts \/ NothingToPay
           \/ UNCHANGED <<last, covered>>
BY DEF Next, MainStep, Succeed, MonitorStep, StartPanics, Loop, Receive,
   Canceled, CheckProtocol, StartPeriod, StartPayouts, Retry, PrepareFails,
   Fetch, Wake, FetchCanceled, Signal, Block, ChangeProtocol, vars

\* The head moves one block at a time.
LEMMA ChainFrame ==
    ASSUME [Next]_vars
    PROVE  Block \/ ChangeProtocol \/ UNCHANGED chain
BY DEF Next, MainStep, Succeed, MonitorStep, Start, StartPanics, Loop, Receive,
   Canceled, CheckProtocol, SkipCycle, StartPeriod, FinishPayouts, NothingToPay,
   StartPayouts, Retry, PrepareFails, Fetch, Wake, FetchCanceled, Signal, vars

\* The main goroutine moves by its own steps, or is ended by a signal.
LEMMA PcFrame ==
    ASSUME [Next]_vars
    PROVE  \/ Start \/ Loop \/ Receive \/ CheckProtocol \/ SkipCycle
           \/ StartPeriod \/ StartPayouts \/ FinishPayouts \/ NothingToPay
           \/ Retry
           \/ pc' \in Stopped /\ UNCHANGED <<last, toProcess, completed>>
           \/ UNCHANGED <<pc, last, toProcess, completed>>
BY DEF Next, MainStep, Succeed, MonitorStep, StartPanics, Canceled, PrepareFails,
   Fetch, Wake, FetchCanceled, Signal, Block, ChangeProtocol, Stopped, vars

\* The notes on protocols change at the start and when it is checked.
LEMMA ProtocolFrame ==
    ASSUME [Next]_vars
    PROVE  Start \/ CheckProtocol \/ UNCHANGED <<expected, lastPair>>
BY DEF Next, MainStep, Succeed, MonitorStep, StartPanics, Loop, Receive,
   Canceled, SkipCycle, StartPeriod, FinishPayouts, NothingToPay,
   StartPayouts, Retry, PrepareFails, Fetch, Wake, FetchCanceled, Signal, Block,
   ChangeProtocol, vars

\* The admin is told of something when the protocol is checked or a cycle fails.
LEMMA NoticeFrame ==
    ASSUME [Next]_vars
    PROVE  CheckProtocol \/ Retry \/ UNCHANGED <<sent, again, lastRetry>>
BY DEF Next, MainStep, Succeed, MonitorStep, Start, StartPanics, Loop, Receive,
   Canceled, SkipCycle, StartPeriod, FinishPayouts, NothingToPay, StartPayouts,
   PrepareFails, Fetch, Wake, FetchCanceled, Signal, Block, ChangeProtocol,
   notices, vars

----------------------------------------------------------------------------
(* The parts of the invariant, one by one.                                 *)

\* No number lies between a number's successor and the number.
LEMMA EmptyRange == \A n \in Int : n + 1 .. n = {}
OBVIOUS

\* Nothing comes back to the start.
LEMMA NoRestart ==
    ASSUME [Next]_vars
    PROVE  /\ pc' = "start" => pc = "start" /\ UNCHANGED <<last, completed>>
           /\ Start => pc = "start" /\ pc' = "loop"
<1>1. Start => pc = "start" /\ pc' = "loop"
  BY DEF Start
<1> QED
  BY <1>1, PcFrame DEF Loop, Receive, CheckProtocol, EvaluateProtocolChange,
     SkipCycle, StartPeriod, StartPayouts, FinishPayouts, NothingToPay, Complete,
     Retry, Stopped

\* Once a cycle is settled it stays so.
LEMMA SettledStays ==
    ASSUME TypeOK, [Next]_vars, ~Start, NEW c \in Int, Settled(c)
    PROVE  Settled(c)'
<1>1. delay' = delay
  BY StartFrame
<1>2. \/ cycle' = cycle /\ (pos' = pos \/ pos' = pos + 1)
      \/ cycle' = cycle + 1 /\ pos' = 0
  BY ChainFrame DEF Block, ChangeProtocol, chain
<1>3. cycle \in Int /\ pos \in Int /\ delay \in Int /\ cycle' >= cycle
  BY <1>2, ConstantsAssumption DEF TypeOK
<1>4. CASE cycle' = cycle + 1 /\ pos' = 0
  BY <1>1, <1>3, <1>4 DEF Settled
<1>5. CASE cycle' = cycle /\ (pos' = pos \/ pos' = pos + 1)
  BY <1>1, <1>3, <1>5 DEF Settled
<1> QED
  BY <1>2, <1>4, <1>5

\* The monitor offers, and the loop takes, only settled cycles.
LEMMA MonitorStepInv ==
    ASSUME TypeOK, MonitorInv, [Next]_vars
    PROVE  MonitorInv'
<1> DEFINE Sent == mon = "send" => pc # "start" /\ offer <= cycle
                                   /\ Settled(offer - 1)
           Taken == completed <= known \/ Settled(completed)
<1>1. cycle \in Int /\ pos \in Nat /\ delay \in Nat /\ offer \in Int
      /\ completed \in Int /\ known \in Int
  BY ConstantsAssumption DEF TypeOK
<1>2. cycle' \in Int /\ cycle' >= cycle
  BY <1>1, ChainFrame DEF Block, ChangeProtocol, chain
<1>3. Sent'
  <2>1. CASE Fetch
    BY <2>1, <1>1 DEF Fetch, chain, Settled
  <2>2. CASE mon' # "send"
    BY <2>2
  <2>3. CASE mon' = mon /\ offer' = offer /\ mon = "send"
    <3>1. pc # "start" /\ offer <= cycle /\ Settled(offer - 1)
      BY <2>3 DEF MonitorInv
    <3>2. ~Start
      BY <3>1 DEF Start
    <3>3. Settled(offer - 1)'
      <4>1. PICK c \in Int : c = offer - 1
        BY <1>1
      <4> QED
        BY <2>3, <3>1, <3>2, <4>1, SettledStays DEF Settled
    <3> QED
      BY <3>1, <3>3, <2>3, <1>1, <1>2, NoRestart
  <2> QED
    BY <2>1, <2>2, <2>3, MonitorFrame
<1>4. Taken'
  <2>1. CASE Start
    BY <2>1, <1>1 DEF Start, chain
  <2>2. CASE Receive
    <3>1. known' = known /\ delay' = delay /\ cycle' = cycle /\ pos' = pos
      BY <2>2 DEF Receive, started, chain
    <3>2. \/ completed' = completed
          \/ completed' = offer - 1 /\ Settled(offer - 1)
      BY <2>2 DEF Receive, MonitorInv
    <3> QED
      BY <3>1, <3>2 DEF MonitorInv, Settled
  <2>3. CASE UNCHANGED completed /\ ~Start
    <3>1. known' = known
      BY <2>3, StartFrame
    <3>2. Settled(completed) => Settled(completed)'
      <4>1. PICK c \in Int : c = completed
        BY <1>1
      <4> QED
        BY <2>3, <4>1, SettledStays DEF Settled
    <3> QED
      BY <3>1, <3>2, <2>3 DEF MonitorInv
  <2> QED
    BY <2>1, <2>2, <2>3, CompletedFrame
<1> QED
  BY <1>3, <1>4 DEF MonitorInv

\* The loop looks only at completed cycles, one after the other.
LEMMA LoopStepInv ==
    ASSUME TypeOK, LoopInv, [Next]_vars
    PROVE  LoopInv'
<1> USE DEF LoopInv
<1>1. last \in Int /\ completed \in Int /\ offer \in Int
  BY DEF TypeOK
<1>2. CASE pc' \in {"loop", "wait"} \cup Stopped
  BY <1>2 DEF Stopped
<1>3. CASE Receive
  BY <1>3, <1>1 DEF Receive
<1>4. CASE Loop
  BY <1>4, <1>1 DEF Loop
<1>5. CASE CheckProtocol
  BY <1>5, CheckFacts
<1>6. CASE StartPeriod
  BY <1>6 DEF StartPeriod, IsPeriodEnd
<1>7. CASE StartPayouts
  BY <1>7 DEF StartPayouts
<1>8. CASE UNCHANGED <<pc, last, toProcess, completed>>
  BY <1>8 DEF IsPeriodEnd
<1>9. (Start \/ SkipCycle \/ FinishPayouts \/ NothingToPay \/ Retry)
        => pc' \in {"loop", "wait"} \cup Stopped
  BY DEF Start, SkipCycle, FinishPayouts, NothingToPay, Complete, Retry, Stopped
<1> QED
  BY <1>2, <1>3, <1>4, <1>5, <1>6, <1>7, <1>8, <1>9, PcFrame

\* In safe mode a noticed change of protocol keeps the loop from its work.
LEMMA SafeStepInv ==
    ASSUME TypeOK, SafeInv, [Next]_vars
    PROVE  SafeInv'
<1>1. /\ protocol \in Int /\ expected \in Int /\ protocol' \in Int
      /\ protocol' >= protocol
  BY ConstantsAssumption, ChainFrame
     DEF TypeOK, Block, ChangeProtocol, chain
<1>2. CASE Start
  BY <1>1, <1>2 DEF Start, SafeInv, chain
<1>3. CASE CheckProtocol
  <2>1. protocol' = protocol
    BY <1>3, CheckFacts DEF chain
  <2>2. pc # "start" /\ pc' # "start" /\ expected' \in {expected, protocol}
    BY <1>3, CheckFacts
  <2>3. ASSUME ~IgnoreProtocolChanges, lastPair' # NoPair
        PROVE  expected' < protocol' /\ pc' \notin {"process", "work", "pay"}
    <3>1. ASSUME protocol = expected PROVE FALSE
      <4>1. lastPair' = lastPair
        BY <1>3, <3>1, CheckFacts, Zenon
      <4>2. expected < protocol
        BY <2>3, <4>1 DEF SafeInv
      <4> QED
        BY <1>1, <3>1, <4>2
    <3>2. pc' = "loop" /\ expected' = expected
      BY <1>3, <2>3, <3>1, CheckFacts
    <3>3. expected <= protocol
      BY DEF SafeInv
    <3> QED
      BY <1>1, <2>1, <3>1, <3>2, <3>3
  <2>4. expected' <= protocol'
    <3>1. expected <= protocol
      BY DEF SafeInv
    <3> QED
      BY <1>1, <2>1, <2>2, <3>1
  <2> QED
    BY <2>2, <2>3, <2>4, Zenon DEF SafeInv
<1>4. CASE UNCHANGED <<expected, lastPair>> /\ ~Start /\ ~CheckProtocol
  <2>1. pc' \in {"process", "work", "pay"} => pc \in {"process", "work", "pay"}
    BY <1>4, PcFrame DEF Loop, Receive, SkipCycle, StartPeriod, StartPayouts,
       FinishPayouts, NothingToPay, Complete, Retry, Stopped
  <2>2. pc' = "start" => pc = "start"
    BY NoRestart
  <2>3. /\ expected' <= protocol'
        /\ expected < protocol => expected' < protocol'
    BY <1>1, <1>4 DEF SafeInv
  <2> QED
    BY <1>4, <2>1, <2>2, <2>3, Zenon DEF SafeInv
<1> QED
  BY <1>2, <1>3, <1>4, ProtocolFrame

\* No period that was processed reaches the end cycle while the mode goes on.
LEMMA EndStepInv ==
    ASSUME TypeOK, LoopInv, EndInv, [Next]_vars
    PROVE  EndInv'
<1> SUFFICES ASSUME EndCycle # 0, Running', pc' # "start",
                    NEW e \in since' + 1 .. last', IsPeriodEnd(e)
             PROVE  e < EndCycle
  BY DEF EndInv, IsPeriodEnd
<1>1. last \in Int /\ since \in Int /\ EndCycle \in Int
  BY ConstantsAssumption DEF TypeOK
<1>2. CASE Start
  <2>1. since' = last' /\ last' \in Int
    BY <1>2, TypeStep DEF Start, TypeOK
  <2>2. last' + 1 .. last' = {}
    BY <2>1, EmptyRange, Zenon
  <2> QED
    BY <2>1, <2>2
<1>3. CASE ~Start
  <2>1. since' = since /\ Running /\ pc # "start"
    <3>1. Running
      BY <1>3, PcFrame DEF Running, Stopped, Loop, Receive, CheckProtocol,
         SkipCycle, StartPeriod, StartPayouts, FinishPayouts, NothingToPay, Retry
    <3>2. pc # "start"
      BY <1>3, PcFrame DEF Running, Loop, Receive, CheckProtocol,
         SkipCycle, StartPeriod, StartPayouts, FinishPayouts, NothingToPay, Retry
    <3> QED
      BY <1>3, <3>1, <3>2, StartFrame
  <2>2. \A d \in since + 1 .. last : IsPeriodEnd(d) => d < EndCycle
    BY <2>1 DEF EndInv
  <2>3. CASE SkipCycle
    BY <1>1, <2>1, <2>2, <2>3 DEF SkipCycle
  <2>4. CASE FinishPayouts \/ NothingToPay
    <3>1. last' = last + 1 /\ last' = toProcess
      BY <2>4 DEF LoopInv, FinishPayouts, NothingToPay, Complete
    <3>2. last' < EndCycle
      BY <1>1, <2>4, <3>1 DEF FinishPayouts, NothingToPay, Complete, Running, Stopped
    <3> QED
      BY <1>1, <2>1, <2>2, <3>1, <3>2
  <2> QED
    BY <1>3, <2>1, <2>2, <2>3, <2>4, LastFrame
<1> QED
  BY <1>2, <1>3

\* A number is a quotient times the divisor, and a remainder below it.
LEMMA Division ==
    ASSUME NEW i \in Nat \ {0}, NEW y \in Int
    PROVE  /\ y = i * (y \div i) + (y % i)
           /\ y % i \in 0 .. i - 1
           /\ y \div i \in Int
OBVIOUS

\* A remainder that completes a multiple to zero is zero.
LEMMA NoRemainder ==
    ASSUME NEW i \in Nat \ {0}, NEW k \in Int, NEW r \in 0 .. i - 1, i * k + r = 0
    PROVE  r = 0
<1>1. CASE k = 0
  BY <1>1
<1>2. CASE k > 0
  <2>1. i * k >= i
    BY <1>2
  <2> QED
    BY <2>1
<1>3. CASE k < 0
  <2>1. i * k <= -i
    BY <1>3
  <2> QED
    BY <2>1
<1> QED
  BY <1>1, <1>2, <1>3

\* Before a multiple of i comes another.
LEMMA MultipleBefore ==
    ASSUME NEW i \in Nat \ {0}, NEW y \in Int, y % i = 0
    PROVE  (y - i) % i = 0
<1> DEFINE q == y \div i
           p == (y - i) \div i
           r == (y - i) % i
<1>1. q \in Int /\ y = i * q
  BY Division
<1>2. p \in Int /\ r \in 0 .. i - 1 /\ y - i = i * p + r
  BY Division, y - i \in Int
<1> HIDE DEF q, p, r
<1>3. i * (p - q + 1) + r = 0
  BY <1>1, <1>2
<1>4. p - q + 1 \in Int
  BY <1>1, <1>2
<1>5. r = 0
  BY <1>2, <1>3, <1>4, NoRemainder
<1> QED
  BY <1>5 DEF r

\* The period before one that ends at e ends Interval cycles earlier.
LEMMA PeriodBefore ==
    ASSUME NEW e \in Int, IsPeriodEnd(e), e - Interval > 0
    PROVE  IsPeriodEnd(e - Interval)
<1>1. Interval \in Nat \ {0} /\ Offset \in Nat
  BY IntervalPositive, BoundsNatural
<1> DEFINE I == Interval
           x == e + Offset
<1>2. I \in Nat \ {0} /\ x \in Int /\ x % I = 0
  BY <1>1 DEF IsPeriodEnd
<1>3. (x - I) % I = 0
  BY <1>2, MultipleBefore
<1>4. (e - Interval) + Offset = x - I
  BY <1>1
<1> QED
  BY <1>3, <1>4 DEF IsPeriodEnd

\* Every cycle the loop is past is covered, or its period has not ended: what
\* a period does not cover lies before the end of an earlier one.
LEMMA CoverStepInv ==
    ASSUME TypeOK, LoopInv, CoverInv, [Next]_vars
    PROVE  CoverInv'
<1>1. last \in Int /\ since \in Int
  BY DEF TypeOK
<1>2. CASE Start
  <2>1. since' = last' /\ last' \in Int
    BY <1>2, TypeStep DEF Start, TypeOK
  <2>2. last' + 1 .. last' = {}
    BY <2>1, EmptyRange, Zenon
  <2> QED
    BY <2>1, <2>2, Zenon DEF CoverInv
<1>3. CASE UNCHANGED <<last, covered>> /\ ~Start
  <2>1. since' = since
    BY <1>3, StartFrame
  <2> QED
    BY <1>3, <2>1 DEF CoverInv, IsPeriodEnd
<1>4. SUFFICES ASSUME SkipCycle \/ FinishPayouts \/ NothingToPay,
                      NEW c \in since' + 1 .. last', c > 0, c \notin covered'
               PROVE  \A e \in c .. last' : ~IsPeriodEnd(e)
  BY <1>2, <1>3, LastFrame DEF CoverInv, IsPeriodEnd
<1>5. since' = since /\ last' = last + 1 /\ covered \subseteq covered'
  BY <1>4, <1>1 DEF SkipCycle, FinishPayouts, NothingToPay, Complete, LoopInv, started
<1>6. c <= last => \A e \in c .. last : ~IsPeriodEnd(e)
  BY <1>1, <1>4, <1>5 DEF CoverInv
<1>7. ~IsPeriodEnd(last + 1)
  <2>1. CASE SkipCycle
    BY <2>1 DEF SkipCycle
  <2>2. CASE FinishPayouts \/ NothingToPay
    <3>1. /\ toProcess = last + 1 /\ IsPeriodEnd(toProcess)
          /\ covered' = covered \cup CyclesOfPeriod(toProcess)
      BY <2>2 DEF LoopInv, FinishPayouts, NothingToPay, Complete
    <3>2. Interval \in Nat \ {0} /\ IncludePrevious \in Nat
      BY IntervalPositive, BoundsNatural
    <3>3. c < last + 1 - Interval + 1
      BY <1>1, <1>4, <1>5, <3>1, <3>2 DEF CyclesOfPeriod
    <3>4. last + 1 - Interval \in c .. last
      BY <1>1, <1>4, <3>2, <3>3
    <3>5. IsPeriodEnd(last + 1 - Interval)
      BY <1>1, <1>4, <3>1, <3>2, <3>4, PeriodBefore
    <3> QED
      BY <1>1, <1>4, <1>6, <3>2, <3>4, <3>5
  <2> QED
    BY <1>4, <2>1, <2>2
<1>8. \A e \in c .. last + 1 : e \in c .. last \/ e = last + 1
  BY <1>1
<1> QED
  BY <1>1, <1>4, <1>5, <1>6, <1>7, <1>8

\* What a check of the protocol tells: the pair it found, unless that is the
\* one it told last.
LEMMA CheckNotice ==
    ASSUME CheckProtocol
    PROVE  IF protocol # expected /\ <<expected, protocol>> # lastPair
           THEN Notify(<<"protocol", <<expected, protocol>>>>)
           ELSE UNCHANGED notices
<1> DEFINE d == EvaluateProtocolChange(expected, protocol, lastPair)
<1>1. /\ d.notify <=> protocol # expected /\ <<expected, protocol>> # lastPair
      /\ d.notify => d.pair = <<expected, protocol>>
  BY DEF EvaluateProtocolChange
<1>2. IF d.notify THEN Notify(<<"protocol", d.pair>>) ELSE UNCHANGED notices
  BY DEF CheckProtocol
<1> HIDE DEF d
<1> QED
  BY <1>1, <1>2, Zenon

\* Nothing is told twice by a check of the protocol: a pair that was told and is
\* found again is the one remembered.
LEMMA CheckNoticeInv ==
    ASSUME TypeOK, NoticeInv, CheckProtocol
    PROVE  NoticeInv'
<1> DEFINE new == <<"protocol", <<expected, protocol>>>>
<1>1. /\ protocol \in Int /\ expected \in Int /\ protocol' = protocol
      /\ last' = last /\ lastRetry' = lastRetry /\ pc' # "start"
  BY CheckFacts, ConstantsAssumption DEF TypeOK, chain
<1>2. /\ expected' = IF IgnoreProtocolChanges THEN protocol ELSE expected
      /\ lastPair' = IF protocol # expected THEN <<expected, protocol>>
                                            ELSE lastPair
  BY CheckFacts
<1>3. \A n \in sent : n[1] = "retry" =>
         /\ n[2] \in Int /\ n[2] <= last + 1
         /\ n[2] = last + 1 => lastRetry = n[2]
  BY DEF NoticeInv
<1>4. \A n \in sent : n[1] = "protocol" =>
         /\ n[2][2] \in Int /\ n[2][2] <= protocol
         /\ n[2][2] = protocol =>
               expected = protocol \/ (n[2] = <<expected, protocol>> /\ lastPair = n[2])
  BY DEF NoticeInv
<1>5. CASE protocol # expected /\ <<expected, protocol>> # lastPair
  <2>1. new \notin sent
    <3> SUFFICES ASSUME new \in sent PROVE FALSE
      OBVIOUS
    <3>1. new[1] = "protocol" /\ new[2] = <<expected, protocol>>
          /\ new[2][2] = protocol
      OBVIOUS
    <3> HIDE DEF new
    <3>2. lastPair = new[2]
      BY <1>4, <1>5, <3>1
    <3> QED
      BY <1>5, <3>1, <3>2
  <2>2. sent' = sent \cup {new} /\ ~again'
    BY <1>5, <2>1, CheckNotice, Zenon DEF Notify, NoticeInv
  <2>3. \A n \in sent : n[1] = "protocol" => n[2][2] < protocol
    <3> SUFFICES ASSUME NEW n \in sent, n[1] = "protocol", n[2][2] = protocol
                 PROVE  FALSE
      BY <1>1, <1>4
    <3>1. n[2] = <<expected, protocol>> /\ lastPair = n[2]
      BY <1>4, <1>5
    <3> QED
      BY <1>5, <3>1
  <2>4. new[1] = "protocol" /\ new[2][1] = expected /\ new[2][2] = protocol
        /\ new[2] = <<expected, protocol>>
    OBVIOUS
  <2> HIDE DEF new
  <2>5. \A n \in sent' : n[1] = "retry" =>
           /\ n[2] \in Int /\ n[2] <= last' + 1
           /\ n[2] = last' + 1 => lastRetry' = n[2]
    BY <1>1, <1>3, <2>2, <2>4
  <2>6. expected' = protocol \/ expected' = expected
    BY <1>2
  <2>7. \A n \in sent' : n[1] = "protocol" =>
           /\ n[2][2] \in Int /\ n[2][2] <= protocol'
           /\ n[2][2] = protocol' =>
               expected' = protocol' \/ (n[2] = <<expected', protocol'>> /\ lastPair' = n[2])
    BY <1>1, <1>2, <1>4, <1>5, <2>2, <2>3, <2>4, <2>6
  <2> QED
    BY <1>1, <2>2, <2>5, <2>7, Zenon DEF NoticeInv
<1>6. CASE ~(protocol # expected /\ <<expected, protocol>> # lastPair)
  <2>1. sent' = sent /\ (again' <=> again) /\ lastPair' = lastPair
    BY <1>2, <1>6, CheckNotice, Zenon DEF notices
  <2>2. \A n \in sent' : n[1] = "protocol" =>
         /\ n[2][2] \in Int /\ n[2][2] <= protocol'
         /\ n[2][2] = protocol' =>
             expected' = protocol' \/ (n[2] = <<expected', protocol'>> /\ lastPair' = n[2])
    BY <1>1, <1>2, <1>4, <2>1
  <2> QED
    BY <1>1, <1>3, <2>1, <2>2, Zenon DEF NoticeInv
<1> QED
  BY <1>5, <1>6

\* Nothing is told twice by a cycle that fails: the one it is at was told only if
\* it is remembered.
LEMMA RetryNoticeInv ==
    ASSUME TypeOK, LoopInv, NoticeInv, Retry
    PROVE  NoticeInv'
<1> DEFINE new == <<"retry", toProcess>>
<1>1. /\ toProcess = last + 1 /\ last \in Int
      /\ last' = last /\ lastRetry' = toProcess /\ pc' # "start"
      /\ UNCHANGED <<protocol, expected, lastPair>>
  BY RetryFacts DEF LoopInv, TypeOK, chain
<1>2. \A n \in sent : n[1] = "retry" =>
         /\ n[2] \in Int /\ n[2] <= last + 1
         /\ n[2] = last + 1 => lastRetry = n[2]
  BY DEF NoticeInv
<1>3. \A n \in sent : n[1] = "protocol" =>
         /\ n[2][2] \in Int /\ n[2][2] <= protocol
         /\ n[2][2] = protocol =>
               expected = protocol \/ (n[2] = <<expected, protocol>> /\ lastPair = n[2])
  BY DEF NoticeInv
<1>4. \/ lastRetry # toProcess /\ Notify(new)
      \/ UNCHANGED notices
  BY Zenon DEF Retry
<1>5. new[1] = "retry" /\ new[2] = last + 1
  BY <1>1
<1> HIDE DEF new
<1>6. (sent' = sent \cup {new} \/ sent' = sent) /\ ~again'
  <2>1. lastRetry # toProcess => new \notin sent
    BY <1>1, <1>2, <1>5
  <2>2. ~again
    BY Zenon DEF NoticeInv
  <2>3. CASE lastRetry # toProcess /\ Notify(new)
    BY <2>1, <2>2, <2>3, Zenon DEF Notify
  <2>4. CASE UNCHANGED notices
    <3>1. sent' = sent /\ again' = again
      BY <2>4 DEF notices
    <3> QED
      BY <3>1, <2>2, Zenon
  <2> QED
    BY <1>4, <2>3, <2>4
<1>7. \A n \in sent' : n[1] = "retry" =>
         /\ n[2] \in Int /\ n[2] <= last' + 1
         /\ n[2] = last' + 1 => lastRetry' = n[2]
  BY <1>1, <1>2, <1>5, <1>6
<1>8. \A n \in sent' : n[1] = "protocol" => n \in sent
  BY <1>5, <1>6
<1>9. \A n \in sent' : n[1] = "protocol" =>
         /\ n[2][2] \in Int /\ n[2][2] <= protocol'
         /\ n[2][2] = protocol' =>
             expected' = protocol' \/ (n[2] = <<expected', protocol'>> /\ lastPair' = n[2])
  BY <1>1, <1>3, <1>8
<1> QED
  BY <1>1, <1>6, <1>7, <1>9, Zenon DEF NoticeInv

\* No step tells the admin something a second time.
LEMMA NoticeStepInv ==
    ASSUME TypeOK, LoopInv, NoticeInv, [Next]_vars
    PROVE  NoticeInv'
<1>1. CASE UNCHANGED <<sent, again, lastRetry>> /\ ~CheckProtocol /\ ~Retry
  <2>1. CASE Start
    <3>1. sent' = {} /\ ~again'
      <4>1. sent = {} /\ ~again
        BY <2>1, NoRestart, Zenon DEF NoticeInv
      <4> QED
        BY <1>1, <4>1, Zenon
    <3> QED
      BY <3>1, Zenon DEF NoticeInv
  <2>2. CASE ~Start
    <3>1. UNCHANGED <<expected, lastPair>>
      BY <1>1, <2>2, ProtocolFrame
    <3>2. protocol \in Int /\ protocol' \in Int /\ protocol' >= protocol
      BY ConstantsAssumption, ChainFrame
         DEF TypeOK, Block, ChangeProtocol, chain
    <3>3. last \in Int /\ (last' = last \/ last' = last + 1)
      BY <2>2, LastFrame
         DEF TypeOK, LoopInv, SkipCycle, FinishPayouts, NothingToPay, Complete
    <3>4. sent' = sent /\ ~again' /\ (pc' = "start" => sent' = {})
      BY <1>1, NoRestart, Zenon DEF NoticeInv
    <3>5. \A n \in sent : n[1] = "retry" =>
             /\ n[2] \in Int /\ n[2] <= last' + 1
             /\ n[2] = last' + 1 => lastRetry' = n[2]
      BY <1>1, <3>3 DEF NoticeInv
    <3>6. \A n \in sent : n[1] = "protocol" =>
             /\ n[2][2] \in Int /\ n[2][2] <= protocol'
             /\ n[2][2] = protocol' => expected' = protocol'
                                       \/ (n[2] = <<expected', protocol'>> /\ lastPair' = n[2])
      BY <3>1, <3>2 DEF NoticeInv
    <3> QED
      BY <3>4, <3>5, <3>6, Zenon DEF NoticeInv
  <2> QED
    BY <2>1, <2>2
<1> QED
  BY <1>1, CheckNoticeInv, RetryNoticeInv, NoticeFrame

----------------------------------------------------------------------------
(* The invariant holds, and the properties with it.                        *)

\* The invariant holds in the beginning.
LEMMA InvInit == Init => ContinualInv
<1> SUFFICES ASSUME Init PROVE ContinualInv
  OBVIOUS
<1>1. MonitorInv /\ LoopInv
  BY DEF Init, MonitorInv, LoopInv, Stopped
<1>2. SafeInv /\ EndInv
  BY DEF Init, SafeInv, EndInv
<1>3. CoverInv
  BY DEF Init, CoverInv
<1>4. NoticeInv
  BY Zenon DEF Init, NoticeInv
<1> QED
  BY <1>1, <1>2, <1>3, <1>4 DEF ContinualInv

\* Every reachable state has the types and the invariant.
LEMMA SpecInv == Spec => [](TypeOK /\ ContinualInv)
<1>1. TypeOK /\ ContinualInv /\ [Next]_vars => (TypeOK /\ ContinualInv)'
  BY TypeStep, MonitorStepInv, LoopStepInv, SafeStepInv, EndStepInv, CoverStepInv,
     NoticeStepInv
     DEF ContinualInv
<1> QED
  BY <1>1, TypeInit, InvInit, PTL DEF Spec

\* A period that is processed after a message is settled: no early or stale
\* message of the monitor starts it.
THEOREM OnlySettled == Spec => []OnlySettledCycles
<1>1. TypeOK /\ ContinualInv => OnlySettledCycles
  <2> SUFFICES ASSUME TypeOK, ContinualInv, pc \in {"work", "pay"}
               PROVE  toProcess <= known \/ Settled(toProcess)
    BY DEF OnlySettledCycles
  <2>1. toProcess <= completed
    BY DEF ContinualInv, LoopInv, TypeOK
  <2>2. completed <= known \/ Settled(completed)
    BY DEF ContinualInv, MonitorInv
  <2>3. /\ toProcess \in Int /\ completed \in Int /\ known \in Int
        /\ cycle \in Int /\ pos \in Int /\ delay \in Int
    BY ConstantsAssumption DEF TypeOK
  <2> QED
    BY <2>1, <2>2, <2>3 DEF Settled
<1> QED
  BY <1>1, SpecInv, PTL

\* No cycle is passed over, whatever the interval, the offset and the faults.
THEOREM NoneSkipped == Spec => []NoCycleSkipped
<1>1. TypeOK /\ ContinualInv => NoCycleSkipped
  <2> SUFFICES ASSUME TypeOK, CoverInv,
                      NEW e \in since + 1 .. last, IsPeriodEnd(e),
                      NEW c \in 1 .. e, c > since
               PROVE  c \in covered
    BY DEF NoCycleSkipped, ContinualInv
  <2>1. c \in since + 1 .. last /\ c > 0 /\ e \in c .. last
    BY DEF TypeOK
  <2> QED
    BY <2>1 DEF CoverInv
<1> QED
  BY <1>1, SpecInv, PTL

\* In safe mode nothing is processed after a noticed change of protocol.
THEOREM SafeStops == Spec => SafeModeStops
<1>1. TypeOK /\ ContinualInv /\ [Next]_vars =>
        [~IgnoreProtocolChanges /\ lastPair # NoPair =>
           last' = last /\ covered' = covered]_vars
  <2> SUFFICES ASSUME ContinualInv, [Next]_vars, ~IgnoreProtocolChanges,
                      lastPair # NoPair
               PROVE  last' = last /\ covered' = covered
    OBVIOUS
  <2>1. pc \notin {"start", "process", "work", "pay"}
    BY DEF ContinualInv, SafeInv
  <2> QED
    BY <2>1, LastFrame DEF Start, SkipCycle, FinishPayouts, NothingToPay
<1> QED
  BY <1>1, SpecInv, PTL DEF Spec, SafeModeStops

\* After the end cycle at most the period it lies in is processed.
THEOREM StopsAtEnd == Spec => []StopsAtEndCycle
<1>1. TypeOK /\ ContinualInv => StopsAtEndCycle
  <2> SUFFICES ASSUME TypeOK, ContinualInv, EndCycle # 0, pc \in {"work", "pay"}
               PROVE  \A e \in since + 1 .. toProcess - 1 :
                        IsPeriodEnd(e) => e < EndCycle
    BY DEF StopsAtEndCycle
  <2>1. toProcess - 1 = last
    BY DEF ContinualInv, LoopInv, TypeOK
  <2>2. Running /\ pc # "start"
    BY DEF Running, Stopped
  <2> QED
    BY <2>1, <2>2 DEF ContinualInv, EndInv
<1> QED
  BY <1>1, SpecInv, PTL

\* No notice, of a failing cycle or of a new protocol, is sent twice, however the
\* failures, the completed cycles and the protocols follow one another.
THEOREM NoticeOnce == Spec => []NoNoticeTwice
<1>1. TypeOK /\ ContinualInv => NoNoticeTwice
  BY Zenon DEF ContinualInv, NoticeInv, NoNoticeTwice
<1> QED
  BY <1>1, SpecInv, PTL
============================================================================
