-------------------------- MODULE PayCommand_proofs --------------------------
(***************************************************************************)
(* Proofs about PayCommand, for any store of extensions and any number of  *)
(* batches, alerts and signals.                                            *)
(***************************************************************************)
EXTENDS PayCommand, SequenceTheorems, TLAPS

-----------------------------------------------------------------------------
(* The loop over the batches and what runs beside it.                      *)

Places == {"idle", "check", "dispatch", "pause", "begin", "waiting", "drain", "resume",
           "stopping", "over", "killed"}

\* Where the operation of the batch is out and has no result.
Sent == {"pause", "begin", "waiting", "drain", "resume", "stopping", "killed"}

LoopType ==
    /\ at \in Places
    /\ batch \in 1..BatchCount + 1
    /\ section \in [active : BOOLEAN, pending : BOOLEAN, signaled : BOOLEAN]
    /\ watcher \in [Batches -> {"none", "ticking", "stopped"}]
    /\ results \in [Batches -> {"none", "success", "failed", "terminated"}]

\* The loop is within its batches, those it is past have a result, and the
\* section is left for the wait only.
LoopInv ==
    /\ LoopType
    /\ at = "idle" => batch = 1
    /\ at \in Sent \cup {"dispatch"} => batch <= BatchCount
    /\ \A b \in Batches : results[b] = "none" <=> b >= batch
    /\ at \in {"check", "dispatch", "pause", "stopping"} => section.active
    /\ at \in Sent => op # "unsent" /\ watcher[batch] # "none"

\* A step of the loop, of what runs beside it or of the world, seen without
\* the rest of the command.
LoopAction ==
    \/ StartSection \/ Loop \/ Beside \/ World \/ LoopInitAgain
    \/ \E covered : Signal(covered)
    \/ UNCHANGED loopVars

LEMMA EveryStep == [Next]_vars => LoopAction
  BY DEF Next, Command, RunHook, HookReturns, NothingToPay, PayoutsExecuted, Close, Finish,
     CompleteCycle, NextCycle, StopContinual, ExtensionFails, PayOut, StartPayouts,
     Background, Outside, SignalComes, Stopped, LoopAction, vars

LEMMA LoopInitially == LoopInit => LoopInv
  BY BatchAssumption DEF LoopInit, LoopInv, LoopType, NoSection, Places, Sent, Batches

LEMMA NextBatchKeeps ==
  ASSUME LoopInv, batch \in Batches,
         NEW result \in {"success", "failed", "terminated"}, NextBatch(result)
  PROVE  /\ batch' \in 1..BatchCount + 1 /\ at' = "check"
         /\ results' \in [Batches -> {"none", "success", "failed", "terminated"}]
         /\ \A b \in Batches : results'[b] = "none" <=> b >= batch'
<1>1. /\ batch' = batch + 1 /\ results' = [results EXCEPT ![batch] = result] /\ at' = "check"
      /\ results \in [Batches -> {"none", "success", "failed", "terminated"}]
      /\ \A b \in Batches : results[b] = "none" <=> b >= batch
      /\ batch \in Nat /\ BatchCount \in Nat /\ Batches = 1..BatchCount
  BY BatchAssumption DEF NextBatch, LoopInv, LoopType, Batches
<1>2. \A b \in Batches : results'[b] = "none" <=> b >= batch + 1
  <2> SUFFICES ASSUME NEW b \in Batches PROVE results'[b] = "none" <=> b >= batch + 1
    BY <1>1
  <2>1. CASE b = batch
    BY <1>1, <2>1
  <2>2. CASE b # batch
    <3>1. results'[b] = results[b]
      BY <1>1, <2>2
    <3> QED
      BY <1>1, <2>2, <3>1
  <2> QED
    BY <2>1, <2>2
<1> QED
  BY <1>1, <1>2

LEMMA LoopKeeps == LoopInv /\ LoopAction => LoopInv'
<1> SUFFICES ASSUME LoopInv, LoopAction PROVE LoopInv'
  OBVIOUS
<1> USE BatchAssumption DEF Batches
<1>1. CASE StartSection \/ StopSection
  BY <1>1 DEF StartSection, StopSection, LoopInv, LoopType, waitVars, watchVars, Places, Sent
<1>2. CASE CheckSignaled
  <2>1. CASE section.signaled
    BY <1>2, <2>1, NextBatchKeeps
       DEF CheckSignaled, LoopInv, LoopType, waitVars, watchVars, Places, Sent
  <2>2. CASE ~section.signaled
    BY <1>2, <2>2 DEF CheckSignaled, LoopInv, LoopType, waitVars, watchVars, Places, Sent
  <2> QED
    BY <2>1, <2>2
<1>3. CASE Dispatch
  <2>1. CASE NextBatch("failed") /\ UNCHANGED watcher
    BY <1>3, <2>1, NextBatchKeeps DEF Dispatch, LoopInv, LoopType, Places, Sent
  <2>2. CASE /\ op' = "pending" /\ watcher' = [watcher EXCEPT ![batch] = "ticking"]
             /\ at' = "pause" /\ UNCHANGED <<batch, results>>
    BY <1>3, <2>2 DEF Dispatch, LoopInv, LoopType, Places, Sent
  <2> QED
    BY <1>3, <2>1, <2>2 DEF Dispatch
<1>4. CASE Pause \/ Resume
  BY <1>4 DEF Pause, Resume, LoopInv, LoopType, waitVars, watchVars, Places, Sent
<1>5. CASE BeginWait \/ WaitReturns \/ ReadAnswer
  BY <1>5 DEF BeginWait, WaitReturns, ReadAnswer, LoopInv, LoopType, watchVars, Places, Sent
<1>6. CASE ReportOutcome
  BY <1>6, NextBatchKeeps DEF ReportOutcome, LoopInv, LoopType, waitVars, Places, Sent
<1>7. CASE PollWakes \/ PollFinds \/ PollFails
  BY <1>7 DEF PollWakes, PollFinds, PollFails, LoopInv, LoopType, watchVars, Places, Sent
<1>8. ASSUME NEW b \in Batches, Handler(b) PROVE LoopInv'
  BY <1>8 DEF Handler, LoopInv, LoopType, watchVars
<1>9. ASSUME NEW b \in Batches, Watcher(b) PROVE LoopInv'
  BY <1>9 DEF Watcher, WatcherAlerts, WatcherStops, LoopInv, LoopType, waitVars
<1>10. CASE World
  BY <1>10 DEF World, Settle, Learn, MonitorEnds, LoopInv, LoopType, watchVars
<1>11. ASSUME NEW covered, Signal(covered) PROVE LoopInv'
  <2>1. UNCHANGED <<batch, op, watcher, results>> /\ at \notin {"idle", "over", "killed"}
    BY <1>11 DEF Signal, watchVars
  <2>2. at' = at \/ (at' = "killed" /\ ~section.active)
    BY <1>11 DEF Signal
  <2>3. /\ section' \in [active : BOOLEAN, pending : BOOLEAN, signaled : BOOLEAN]
        /\ section'.active = section.active
    BY <1>11 DEF Signal, LoopInv, LoopType
  <2> QED
    BY <2>1, <2>2, <2>3 DEF LoopInv, LoopType, Places, Sent
<1>12. CASE NoteSignal
  BY <1>12 DEF NoteSignal, LoopInv, LoopType, waitVars, watchVars
<1>13. CASE LoopInitAgain
  BY <1>13 DEF LoopInitAgain, LoopInv, LoopType, NoSection, Places, Sent
<1>14. CASE UNCHANGED loopVars
  BY <1>14 DEF loopVars, waitVars, watchVars, LoopInv, LoopType
<1> QED
  BY <1>1, <1>2, <1>3, <1>4, <1>5, <1>6, <1>7, <1>8, <1>9, <1>10, <1>11, <1>12, <1>13, <1>14
     DEF LoopAction, Loop, Beside

-----------------------------------------------------------------------------
(* The outcome of the wait.                                                *)

Settled == op \in {"applied", "failed"}

\* What the indexer answers is how the operation ended, and it is asked during
\* the wait only: no answer is left for the next batch.
AppliedInv ==
    /\ known => Settled
    /\ answer # "none" => answer = op /\ Settled
    /\ poll # "closed" \/ answer # "none" => at \in {"waiting", "drain", "killed"}
    /\ SuccessIsApplied

LEMMA AppliedKeeps == LoopInv /\ AppliedInv /\ LoopAction => AppliedInv'
<1> SUFFICES ASSUME LoopInv, AppliedInv, LoopAction PROVE AppliedInv'
  OBVIOUS
<1> USE DEF AppliedInv, SuccessIsApplied, Settled
<1>1. CASE StartSection \/ StopSection
  BY <1>1 DEF StartSection, StopSection, LoopInv, waitVars, watchVars
<1>2. ASSUME NextBatch("failed") \/ NextBatch("terminated"), batch \in Batches
      PROVE  /\ at' = "check" /\ results'[batch' - 1] # "success"
             /\ results' = [results EXCEPT ![batch] = "failed"]
                  \/ results' = [results EXCEPT ![batch] = "terminated"]
  BY <1>2, BatchAssumption DEF NextBatch, LoopInv, LoopType, Batches
<1>3. CASE CheckSignaled
  <2>1. batch \in Batches
    BY <1>3, BatchAssumption DEF CheckSignaled, LoopInv, LoopType, Batches
  <2> QED
    BY <1>2, <1>3, <2>1 DEF CheckSignaled, waitVars
<1>4. CASE Dispatch
  <2>1. batch \in Batches
    BY <1>4, BatchAssumption DEF Dispatch, LoopInv, LoopType, Batches
  <2> QED
    BY <1>2, <1>4, <2>1 DEF Dispatch
<1>5. CASE Pause \/ Resume \/ BeginWait \/ WaitReturns
  BY <1>5 DEF Pause, Resume, BeginWait, WaitReturns, waitVars, watchVars
<1>6. CASE ReadAnswer
  BY <1>6 DEF ReadAnswer, Answers
<1>7. CASE ReportOutcome
  <2>1. batch \in Batches
    BY <1>7, BatchAssumption DEF ReportOutcome, LoopInv, LoopType, Batches, Sent
  <2>2. /\ batch' = batch + 1 /\ at' = "check"
        /\ results' = [results EXCEPT ![batch] = IF outcome = "applied" THEN "success" ELSE "failed"]
    BY <1>7 DEF ReportOutcome, NextBatch
  <2>3. results'[batch' - 1] = IF outcome = "applied" THEN "success" ELSE "failed"
    BY <2>1, <2>2, BatchAssumption DEF LoopInv, LoopType, Batches
  <2> QED
    BY <1>7, <2>2, <2>3 DEF ReportOutcome, waitVars
<1>8. CASE PollWakes \/ PollFinds \/ PollFails
  BY <1>8 DEF PollWakes, PollFinds, PollFails
<1>9. ASSUME NEW b \in Batches, Handler(b) \/ Watcher(b) PROVE AppliedInv'
  BY <1>9 DEF Handler, Watcher, waitVars
<1>10. CASE World
  BY <1>10 DEF World, Settle, Learn, MonitorEnds, Watched
<1>11. ASSUME NEW covered, Signal(covered) PROVE AppliedInv'
  <2>1. UNCHANGED <<batch, poll, answer, op, known, outcome, results>>
        /\ (at' = at \/ at' = "killed")
    BY <1>11 DEF Signal
  <2> QED
    BY <2>1
<1>12. CASE NoteSignal
  BY <1>12 DEF NoteSignal, waitVars
<1>13. CASE LoopInitAgain
  BY <1>13 DEF LoopInitAgain
<1>14. CASE UNCHANGED loopVars
  BY <1>14 DEF loopVars, waitVars
<1> QED
  BY <1>1, <1>3, <1>4, <1>5, <1>6, <1>7, <1>8, <1>9, <1>10, <1>11, <1>12, <1>13, <1>14
     DEF LoopAction, Loop, Beside

(* A batch reported successful was applied, whichever of the monitor, the  *)
(* fallback and a signal ended the wait (transactor/default.go).           *)
THEOREM Applied == Spec => []SuccessIsApplied
<1>1. Init => LoopInv /\ AppliedInv
  BY LoopInitially DEF Init, LoopInit, AppliedInv, SuccessIsApplied, Settled
<1>2. LoopInv /\ AppliedInv /\ [Next]_vars => LoopInv' /\ AppliedInv'
  BY LoopKeeps, AppliedKeeps, EveryStep
<1>3. AppliedInv => SuccessIsApplied
  BY DEF AppliedInv
<1> QED
  BY <1>1, <1>2, <1>3, PTL DEF Spec

-----------------------------------------------------------------------------
(* The notices.                                                            *)

AllAlerts(told) == \A i \in 1..Len(told) : told[i] = "alert"

\* What the admin was told of a batch that has its result.
Complete(told) ==
    told = <<>> \/ (/\ Len(told) > 1 /\ told[Len(told)] = "outcome"
                    /\ \A i \in 1..Len(told) - 1 : told[i] = "alert")

\* Nothing but alerts is told while the batch has no result, and nothing at all
\* without a watcher or after it stopped with the batch.
NoticesInv ==
    /\ notices \in [Batches -> Seq({"alert", "outcome"})]
    /\ \A b \in Batches :
          /\ watcher[b] = "none" => notices[b] = <<>>
          /\ results[b] # "none" => watcher[b] # "ticking" /\ Complete(notices[b])
          /\ results[b] = "none" => AllAlerts(notices[b])
          /\ b > batch => watcher[b] = "none"
    /\ at \in {"idle", "check", "dispatch"} /\ batch \in Batches => watcher[batch] = "none"

\* One notice more.
LEMMA OneMore ==
  ASSUME NEW told \in Seq({"alert", "outcome"}), AllAlerts(told)
  PROVE  /\ Append(told, "alert") \in Seq({"alert", "outcome"})
         /\ AllAlerts(Append(told, "alert"))
         /\ Append(told, "outcome") \in Seq({"alert", "outcome"})
         /\ told # <<>> => Complete(Append(told, "outcome"))
<1>1. \A e \in {"alert", "outcome"} :
         /\ Append(told, e) \in Seq({"alert", "outcome"}) /\ Len(Append(told, e)) = Len(told) + 1
         /\ Append(told, e)[Len(told) + 1] = e
         /\ \A i \in 1..Len(told) : Append(told, e)[i] = told[i]
  BY AppendProperties
<1>2. Len(told) \in Nat /\ (told # <<>> => Len(told) > 0)
  BY EmptySeq
<1>3. AllAlerts(Append(told, "alert"))
  BY <1>1, <1>2 DEF AllAlerts
<1>4. told # <<>> => Complete(Append(told, "outcome"))
  BY <1>1, <1>2 DEF AllAlerts, Complete
<1> QED
  BY <1>1, <1>3, <1>4

\* Told nothing, or only alerts and then the outcome.
LEMMA Untold == AllAlerts(<<>>) /\ Complete(<<>>)
  BY DEF AllAlerts, Complete

\* The loop leaves a batch whose watcher is not ticking.
LEMMA PastBatch ==
  ASSUME LoopInv, NoticesInv, batch \in Batches,
         NEW result \in {"success", "failed", "terminated"}, NextBatch(result),
         watcher' = watcher, watcher[batch] # "ticking",
         notices' \in [Batches -> Seq({"alert", "outcome"})],
         \A b \in Batches : b # batch => notices'[b] = notices[b],
         watcher[batch] = "none" => notices'[batch] = <<>>, Complete(notices'[batch])
  PROVE  NoticesInv'
<1>1. /\ batch' = batch + 1 /\ at' = "check" /\ batch \in Nat
      /\ results' = [results EXCEPT ![batch] = result]
      /\ results \in [Batches -> {"none", "success", "failed", "terminated"}]
      /\ BatchCount \in Nat /\ Batches = 1..BatchCount
  BY BatchAssumption DEF NextBatch, LoopInv, LoopType, Batches
<1>2. ASSUME NEW b \in Batches
      PROVE  /\ watcher'[b] = "none" => notices'[b] = <<>>
             /\ results'[b] # "none" => watcher'[b] # "ticking" /\ Complete(notices'[b])
             /\ results'[b] = "none" => AllAlerts(notices'[b])
             /\ b > batch' => watcher'[b] = "none"
  <2>1. CASE b = batch
    BY <1>1, <2>1
  <2>2. CASE b # batch
    <3>1. results'[b] = results[b]
      BY <1>1, <2>2
    <3>2. b > batch' => b > batch
      BY <1>1
    <3> QED
      BY <2>2, <3>1, <3>2 DEF NoticesInv
  <2> QED
    BY <2>1, <2>2
<1>3. batch' \in Batches => watcher'[batch'] = "none"
  <2>1. batch' > batch
    BY <1>1
  <2> QED
    BY <2>1 DEF NoticesInv
<1> QED
  BY <1>1, <1>2, <1>3 DEF NoticesInv, Complete, AllAlerts

\* Where the loop moves on within a batch and nobody is told anything.
LEMMA SameNotices ==
  ASSUME NoticesInv, UNCHANGED <<batch, results, watcher, notices>>,
         at' \in {"idle", "check", "dispatch"} => at \in {"idle", "check", "dispatch"}
  PROVE  NoticesInv'
  BY DEF NoticesInv, AllAlerts, Complete

LEMMA NoticesKeep == LoopInv /\ NoticesInv /\ LoopAction => NoticesInv'
<1> SUFFICES ASSUME LoopInv, NoticesInv, LoopAction PROVE NoticesInv'
  OBVIOUS
<1>1. CASE StartSection \/ StopSection
  BY <1>1, SameNotices DEF StartSection, StopSection, watchVars
<1>2. CASE CheckSignaled
  <2>1. batch \in Batches /\ watcher[batch] = "none" /\ Complete(notices[batch])
        /\ notices \in [Batches -> Seq({"alert", "outcome"})] /\ notices[batch] = <<>>
    BY <1>2, Untold, BatchAssumption
       DEF CheckSignaled, LoopInv, LoopType, Batches, NoticesInv
  <2>2. CASE section.signaled
    BY <1>2, <2>1, <2>2, PastBatch DEF CheckSignaled, watchVars
  <2>3. CASE ~section.signaled
    BY <1>2, <2>3, SameNotices DEF CheckSignaled, watchVars
  <2> QED
    BY <2>2, <2>3
<1>3. CASE Dispatch
  <2>1. batch \in Batches /\ watcher[batch] = "none" /\ notices[batch] = <<>>
        /\ results[batch] = "none" /\ notices \in [Batches -> Seq({"alert", "outcome"})]
    BY <1>3, BatchAssumption DEF Dispatch, LoopInv, LoopType, Batches, NoticesInv, Sent
  <2>2. CASE NextBatch("failed") /\ UNCHANGED watcher
    BY <1>3, <2>1, <2>2, Untold, PastBatch DEF Dispatch
  <2>3. CASE /\ watcher' = [watcher EXCEPT ![batch] = "ticking"]
             /\ at' = "pause" /\ UNCHANGED <<batch, results>>
    <3>1. /\ notices' = notices /\ batch' = batch /\ results' = results /\ at' = "pause"
          /\ \A b \in Batches : b # batch => watcher'[b] = watcher[b]
          /\ watcher'[batch] = "ticking"
      BY <1>3, <2>1, <2>3 DEF Dispatch, LoopInv, LoopType
    <3>2. ASSUME NEW b \in Batches
          PROVE  /\ watcher'[b] = "none" => notices[b] = <<>>
                 /\ results[b] # "none" => watcher'[b] # "ticking" /\ Complete(notices[b])
                 /\ results[b] = "none" => AllAlerts(notices[b])
                 /\ b > batch => watcher'[b] = "none"
      <4>1. CASE b = batch
        <5>1. ~(b > batch)
          BY <4>1, BatchAssumption DEF Batches
        <5> QED
          BY <2>1, <3>1, <4>1, <5>1, Untold
      <4>2. CASE b # batch
        BY <3>1, <4>2 DEF NoticesInv
      <4> QED
        BY <4>1, <4>2
    <3> QED
      BY <3>1, <3>2 DEF NoticesInv, Complete, AllAlerts
  <2> QED
    BY <1>3, <2>2, <2>3 DEF Dispatch
<1>4. CASE Pause \/ Resume
  BY <1>4, SameNotices DEF Pause, Resume, watchVars
<1>5. CASE BeginWait \/ WaitReturns \/ ReadAnswer
  BY <1>5, SameNotices DEF BeginWait, WaitReturns, ReadAnswer, watchVars
<1>6. CASE ReportOutcome
  <2>1. /\ batch \in Batches /\ watcher[batch] = "stopped"
        /\ notices \in [Batches -> Seq({"alert", "outcome"})]
        /\ notices[batch] \in Seq({"alert", "outcome"}) /\ AllAlerts(notices[batch])
    BY <1>6, BatchAssumption DEF ReportOutcome, LoopInv, LoopType, Batches, NoticesInv, Sent
  <2>2. /\ notices' \in [Batches -> Seq({"alert", "outcome"})]
        /\ \A b \in Batches : b # batch => notices'[b] = notices[b]
        /\ Complete(notices'[batch])
    <3>1. CASE notices[batch] = <<>>
      BY <1>6, <2>1, <3>1, Untold DEF ReportOutcome
    <3>2. CASE notices[batch] # <<>>
      <4>1. notices' = [notices EXCEPT ![batch] = Append(notices[batch], "outcome")]
        BY <1>6, <3>2 DEF ReportOutcome
      <4>2. /\ Append(notices[batch], "outcome") \in Seq({"alert", "outcome"})
            /\ Complete(Append(notices[batch], "outcome"))
        BY <2>1, <3>2, OneMore
      <4> HIDE DEF Complete
      <4> QED
        BY <2>1, <4>1, <4>2
    <3> QED
      BY <3>1, <3>2
  <2>3. NextBatch("success") \/ NextBatch("failed")
    BY <1>6 DEF ReportOutcome
  <2>4. watcher' = watcher
    BY <1>6 DEF ReportOutcome
  <2> QED
    BY <2>1, <2>2, <2>3, <2>4, PastBatch
<1>7. CASE PollWakes \/ PollFinds \/ PollFails
  BY <1>7, SameNotices DEF PollWakes, PollFinds, PollFails, watchVars
<1>8. ASSUME NEW b \in Batches, Handler(b) PROVE NoticesInv'
  BY <1>8, SameNotices DEF Handler, watchVars
<1>9. ASSUME NEW b \in Batches, Watcher(b) PROVE NoticesInv'
  <2>1. /\ watcher[b] = "ticking" /\ UNCHANGED <<at, batch, results>>
        /\ notices \in [Batches -> Seq({"alert", "outcome"})]
        /\ watcher \in [Batches -> {"none", "ticking", "stopped"}]
    BY <1>9 DEF Watcher, WatcherAlerts, WatcherStops, LoopInv, LoopType, NoticesInv
  <2>2. results[b] = "none" /\ AllAlerts(notices[b]) /\ notices[b] \in Seq({"alert", "outcome"})
    BY <2>1 DEF NoticesInv
  <2>3. PICK told \in Seq({"alert", "outcome"}), state \in {"ticking", "stopped"} :
           /\ AllAlerts(told)
           /\ notices' = [notices EXCEPT ![b] = told] /\ watcher' = [watcher EXCEPT ![b] = state]
    <3>1. CASE WatcherAlerts(b)
      <4>1. /\ Append(notices[b], "alert") \in Seq({"alert", "outcome"})
            /\ AllAlerts(Append(notices[b], "alert"))
        BY <2>2, OneMore
      <4>2. /\ notices' = [notices EXCEPT ![b] = Append(notices[b], "alert")]
            /\ watcher' = [watcher EXCEPT ![b] = "ticking"]
        BY <2>1, <3>1 DEF WatcherAlerts
      <4> QED
        BY <4>1, <4>2
    <3>2. CASE WatcherStops(b)
      <4>1. /\ notices' = [notices EXCEPT ![b] = notices[b]]
            /\ watcher' = [watcher EXCEPT ![b] = "stopped"]
        BY <2>1, <3>2 DEF WatcherStops
      <4> QED
        BY <2>2, <4>1
    <3> QED
      BY <1>9, <3>1, <3>2 DEF Watcher
  <2>4. ASSUME NEW c \in Batches
        PROVE  /\ watcher'[c] = "none" => notices'[c] = <<>>
               /\ results[c] # "none" => watcher'[c] # "ticking" /\ Complete(notices'[c])
               /\ results[c] = "none" => AllAlerts(notices'[c])
               /\ c > batch => watcher'[c] = "none"
    <3>1. CASE c = b
      <4>1. ~(c > batch)
        BY <2>1, <3>1 DEF NoticesInv
      <4> QED
        BY <2>1, <2>2, <2>3, <3>1, <4>1
    <3>2. CASE c # b
      BY <2>1, <2>3, <3>2 DEF NoticesInv
    <3> QED
      BY <3>1, <3>2
  <2>5. at \in {"idle", "check", "dispatch"} /\ batch \in Batches => watcher'[batch] = "none"
    BY <2>1, <2>3 DEF NoticesInv
  <2>6. notices' \in [Batches -> Seq({"alert", "outcome"})]
    BY <2>1, <2>3
  <2> QED
    BY <2>1, <2>4, <2>5, <2>6 DEF NoticesInv, Complete, AllAlerts
<1>10. CASE World
  BY <1>10, SameNotices DEF World, Settle, Learn, MonitorEnds, watchVars
<1>11. ASSUME NEW covered, Signal(covered) PROVE NoticesInv'
  <2>1. UNCHANGED <<batch, results, watcher, notices>> /\ (at' = at \/ at' = "killed")
    BY <1>11 DEF Signal, watchVars
  <2> QED
    BY <2>1, SameNotices
<1>12. CASE NoteSignal
  BY <1>12, SameNotices DEF NoteSignal, watchVars
<1>13. CASE LoopInitAgain
  <2>1. /\ notices' = [b \in Batches |-> <<>>] /\ watcher' = [b \in Batches |-> "none"]
        /\ results' = [b \in Batches |-> "none"]
    BY <1>13 DEF LoopInitAgain
  <2>2. notices' \in [Batches -> Seq({"alert", "outcome"})]
    BY <2>1
  <2>3. \A b \in Batches : /\ notices'[b] = <<>> /\ watcher'[b] = "none"
                           /\ results'[b] = "none" /\ AllAlerts(notices'[b])
    BY <2>1, Untold
  <2> QED
    BY <2>2, <2>3 DEF NoticesInv, AllAlerts
<1>14. CASE UNCHANGED loopVars
  BY <1>14, SameNotices DEF loopVars, watchVars
<1> QED
  BY <1>1, <1>2, <1>3, <1>4, <1>5, <1>6, <1>7, <1>8, <1>9, <1>10, <1>11, <1>12, <1>13, <1>14
     DEF LoopAction, Loop, Beside

(* The admin hears how a batch ended if and only if there was an alert,    *)
(* once and last, whenever the alert comes (confirmation_watch.go).        *)
THEOREM Outcome == Spec => []OutcomeIffAlerted
<1>1. Init => LoopInv /\ NoticesInv
  <2> SUFFICES ASSUME LoopInit PROVE NoticesInv
    BY LoopInitially DEF Init
  <2>1. /\ notices = [b \in Batches |-> <<>>] /\ watcher = [b \in Batches |-> "none"]
        /\ results = [b \in Batches |-> "none"]
    BY DEF LoopInit
  <2>2. notices \in [Batches -> Seq({"alert", "outcome"})]
    BY <2>1
  <2> QED
    BY <2>1, <2>2, Untold DEF NoticesInv
<1>2. LoopInv /\ NoticesInv /\ [Next]_vars => LoopInv' /\ NoticesInv'
  BY LoopKeeps, NoticesKeep, EveryStep
<1>3. LoopInv /\ NoticesInv => OutcomeIffAlerted
  <2> SUFFICES ASSUME LoopInv, NoticesInv, NEW b \in Batches
               PROVE  /\ results[b] # "none" =>
                            notices[b] = <<>>
                            \/ (Len(notices[b]) > 1 /\ notices[b][Len(notices[b])] = "outcome")
                      /\ \A i \in 1..Len(notices[b]) - 1 : notices[b][i] = "alert"
    BY DEF OutcomeIffAlerted
  <2>1. notices[b] \in Seq({"alert", "outcome"}) /\ Len(notices[b]) \in Nat
    BY DEF NoticesInv
  <2>2. CASE results[b] = "none"
    BY <2>1, <2>2 DEF NoticesInv, AllAlerts
  <2>3. CASE results[b] # "none"
    <3>1. Complete(notices[b])
      BY <2>3 DEF NoticesInv
    <3>2. CASE notices[b] = <<>>
      BY <3>2
    <3>3. CASE notices[b] # <<>>
      BY <3>1, <3>3 DEF Complete
    <3> QED
      BY <3>2, <3>3
  <2> QED
    BY <2>2, <2>3
<1> QED
  BY <1>1, <1>2, <1>3, PTL DEF Spec

-----------------------------------------------------------------------------
(* The extensions.                                                         *)

ExtStates ==
    [loaded : BOOLEAN, stream : {"none", "open", "broken"}, init : {"none", "done", "failed"}]

Hooks == HookStages \cup {"collect_additional_notification_data", Absent}

Calls ==
    [hook : Hooks, index : DOMAIN Store, attempt : Nat,
     phase : {"none", "attempt", "init", "send", "ok", "error"}, served : SUBSET Names]

\* Only what is being initialized is started and not initialized.
ExtInv ==
    /\ ext \in [Names -> ExtStates]
    /\ call \in Calls
    /\ \A n \in Names : ext[n].stream = "open" /\ ext[n].init = "none" =>
                           call.phase = "init" /\ Current = n

LEMMA StoreIsSequence ==
  /\ Store \in Seq(Names) /\ Len(Store) \in Nat /\ Len(Store) >= 1
  /\ DOMAIN Store = 1..Len(Store) /\ \A i \in DOMAIN Store : Store[i] \in Names
<1>1. Store \in Seq(Names) /\ Store # <<>>
  BY StoreAssumption
<1> QED
  BY <1>1, EmptySeq

\* The other extensions are as they were.
LEMMA ExtKeeps ==
  ASSUME ExtInv, call' \in Calls, NEW state \in ExtStates,
         ext' = [ext EXCEPT ![Current] = state],
         call'.index = call.index,
         state.stream = "open" /\ state.init = "none" => call'.phase = "init"
  PROVE  ExtInv'
<1>1. /\ Current \in Names /\ Current' = Current
      /\ \A n \in Names : ext'[n] = IF n = Current THEN state ELSE ext[n]
  BY StoreIsSequence DEF ExtInv, Calls, Current
<1>2. ext' \in [Names -> ExtStates]
  BY DEF ExtInv
<1> QED
  BY <1>1, <1>2 DEF ExtInv

\* The hook moves on and nothing is being initialized.
LEMMA CallKeeps ==
  ASSUME ExtInv, call.phase # "init", call' \in Calls, UNCHANGED ext
  PROVE  ExtInv'
  BY DEF ExtInv

LEMMA OnwardsCalls ==
  ASSUME call \in Calls, NEW served \in SUBSET Names, Onwards(served)
  PROVE  call' \in Calls
<1>1. CASE call.index < Len(Store)
  <2>1. call.index + 1 \in DOMAIN Store
    BY <1>1, StoreIsSequence DEF Calls
  <2> QED
    BY <1>1, <2>1 DEF Onwards, Calls
<1>2. CASE ~(call.index < Len(Store))
  BY <1>2 DEF Onwards, Calls
<1> QED
  BY <1>1, <1>2

LEMMA RetryCalls ==
  ASSUME call \in Calls, Retry
  PROVE  call' \in Calls
<1>1. CASE call.attempt + 1 < GetRetry(Current)
  <2>1. call' = [call EXCEPT !.attempt = call.attempt + 1, !.phase = "attempt"]
    BY <1>1 DEF Retry
  <2>2. call.attempt + 1 \in Nat
    BY DEF Calls
  <2> QED
    BY <2>1, <2>2 DEF Calls
<1>2. CASE ~(call.attempt + 1 < GetRetry(Current))
  BY <1>2, OnwardsCalls DEF Retry, Returns, Calls
<1> QED
  BY <1>1, <1>2

LEMMA ReturnsCalls ==
  ASSUME call \in Calls, NEW result \in {"send", "init", "error"}, Returns(result)
  PROVE  call' \in Calls /\ call'.index = call.index /\ call'.phase = result
  BY DEF Returns, Calls

LEMMA States == Started \in ExtStates /\ NotStarted \in ExtStates
  BY DEF Started, NotStarted, ExtStates

LEMMA HookStepKeeps == ExtInv /\ HookStep => ExtInv'
<1> SUFFICES ASSUME ExtInv, HookStep PROVE ExtInv'
  OBVIOUS
<1>1. call \in Calls /\ ext \in [Names -> ExtStates] /\ Current \in Names
  BY StoreIsSequence DEF ExtInv, Calls, Current
<1>2. call.served \in SUBSET Names /\ call.served \cup {Current} \in SUBSET Names
  BY <1>1 DEF Calls
<1>3. CASE SkipExtension
  BY <1>1, <1>2, <1>3, OnwardsCalls, CallKeeps DEF SkipExtension
<1>4. CASE LoadExtension
  <2>1. CASE (Returns("send") \/ Returns("error")) /\ UNCHANGED ext
    BY <1>1, <1>4, <2>1, ReturnsCalls, CallKeeps DEF LoadExtension
  <2>2. CASE ext' = [ext EXCEPT ![Current] = Started] /\ Returns("init")
    BY <1>1, <2>2, ReturnsCalls, States, ExtKeeps
  <2> QED
    BY <1>4, <2>1, <2>2 DEF LoadExtension
<1>5. CASE InitExtension
  <2>1. ASSUME NEW result \in {"done", "failed"}, ext' = [ext EXCEPT ![Current].init = result],
               Returns("send") \/ Returns("error")
        PROVE  ExtInv'
    <3> DEFINE state == [ext[Current] EXCEPT !.init = result]
    <3>1. state \in ExtStates /\ state.init # "none"
      BY <1>1, <2>1 DEF ExtStates
    <3>2. ext' = [ext EXCEPT ![Current] = state]
      BY <2>1
    <3> HIDE DEF state
    <3> QED
      BY <1>1, <2>1, <3>1, <3>2, ReturnsCalls, ExtKeeps
  <2> QED
    BY <1>5, <2>1 DEF InitExtension
<1>6. CASE SendHook
  BY <1>1, <1>2, <1>6, RetryCalls, OnwardsCalls, CallKeeps DEF SendHook, Answered
<1> QED
  BY <1>3, <1>4, <1>5, <1>6 DEF HookStep

LEMMA DeathKeeps == ExtInv /\ ExtensionDies => ExtInv'
<1> SUFFICES ASSUME ExtInv, ExtensionDies PROVE ExtInv'
  OBVIOUS
<1>1. call \in Calls /\ ext \in [Names -> ExtStates] /\ Current \in Names
  BY StoreIsSequence DEF ExtInv, Calls, Current
<1> DEFINE state == [ext[Current] EXCEPT !.stream = "broken"]
<1>2. state \in ExtStates /\ state.stream # "open"
  BY <1>1 DEF ExtStates
<1>3. ext' = [ext EXCEPT ![Current] = state] /\ call' = call
  BY DEF ExtensionDies
<1> HIDE DEF state
<1> QED
  BY <1>1, <1>2, <1>3, ExtKeeps

LEMMA CloseKeeps == \A names : ExtInv /\ CloseExtensions(names) => ExtInv'
<1> SUFFICES ASSUME NEW names, ExtInv, CloseExtensions(names) PROVE ExtInv'
  OBVIOUS
<1>1. call' = call /\ \A n \in Names : ext'[n] = NotStarted \/ ext'[n] = ext[n]
  BY DEF CloseExtensions, Closed
<1>2. ext' \in [Names -> ExtStates]
  BY States DEF CloseExtensions, Closed, ExtInv
<1> QED
  BY <1>1, <1>2 DEF ExtInv, NotStarted, Current

LEMMA NoCallIsCall == NoCall \in Calls /\ NoCall.phase = "none"
  BY StoreIsSequence DEF NoCall, Calls, Hooks

LEMMA ExtStep == ExtInv /\ [Next]_vars => ExtInv'
<1> SUFFICES ASSUME ExtInv, [Next]_vars PROVE ExtInv'
  OBVIOUS
<1>1. CASE RunHook
  <2>1. ASSUME BeginHook(HookOf(stage)) PROVE ExtInv'
    <3>1. HookOf(stage) \in Hooks
      BY <1>1 DEF RunHook, HookOf, Hooks
    <3>2. call' \in Calls
      BY <2>1, <3>1, NoCallIsCall DEF BeginHook, Calls
    <3> QED
      BY <2>1, <3>2, CallKeeps DEF BeginHook
  <2> QED
    BY <1>1, <2>1, HookStepKeeps DEF RunHook
<1>2. CASE HookReturns
  BY <1>2, NoCallIsCall, CallKeeps DEF HookReturns
<1>3. CASE ExtensionFails
  BY <1>3, DeathKeeps DEF ExtensionFails
<1>4. ASSUME UNCHANGED extVars PROVE ExtInv'
  BY <1>4 DEF extVars, ExtInv, Current
<1>5. CASE Close \/ CompleteCycle
  BY <1>4, <1>5, CloseKeeps DEF Close, CompleteCycle
<1> QED
  BY <1>1, <1>2, <1>3, <1>4, <1>5
     DEF Next, Command, NothingToPay, PayoutsExecuted, Finish, NextCycle, StopContinual,
         PayOut, StartPayouts, Background, Outside, SignalComes, Stopped, vars

LEMMA ExtInitially == Init => ExtInv
  BY NoCallIsCall, States DEF Init, ExtInit, ExtInv, NotStarted

(* An extension that was started is initialized, or refused it, before it  *)
(* is sent a hook, also when it died and was started again (extension.go). *)
THEOREM Initialized == Spec => []UninitializedOnlyAfterFailure
<1>1. ExtInv => UninitializedOnlyAfterFailure
  BY StoreIsSequence DEF ExtInv, UninitializedOnlyAfterFailure, Calls, Current
<1> QED
  BY <1>1, ExtInitially, ExtStep, PTL DEF Spec

-----------------------------------------------------------------------------
(* The order of the hooks.                                                 *)

LEMMA Order ==
  /\ DOMAIN HookOrder = 1..7 /\ Len(HookOrder) = 7
  /\ HookOrder[1] = "after_candidates_generated"
  /\ HookOrder[2] = "after_bonds_distributed"
  /\ HookOrder[3] = "on_fees_collection"
  /\ HookOrder[4] = "after_payouts_blueprint_generated"
  /\ HookOrder[5] = "after_payouts_prepared"
  /\ HookOrder[6] = "after_payouts_accumulated"
  /\ HookOrder[7] = "check_balance"
<1> DEFINE T == {"after_candidates_generated", "after_bonds_distributed", "on_fees_collection",
                 "after_payouts_blueprint_generated", "after_payouts_prepared",
                 "after_payouts_accumulated", "check_balance"}
<1>1. /\ Len(GenerationHooks) = 4 /\ DOMAIN GenerationHooks = 1..4
      /\ Len(PreparationHooks) = 3 /\ DOMAIN PreparationHooks = 1..3
  BY DEF GenerationHooks, PreparationHooks
<1>2. /\ GenerationHooks[1] = "after_candidates_generated"
      /\ GenerationHooks[2] = "after_bonds_distributed"
      /\ GenerationHooks[3] = "on_fees_collection"
      /\ GenerationHooks[4] = "after_payouts_blueprint_generated"
      /\ PreparationHooks[1] = "after_payouts_prepared"
      /\ PreparationHooks[2] = "after_payouts_accumulated"
      /\ PreparationHooks[3] = "check_balance"
  BY DEF GenerationHooks, PreparationHooks
<1>3. GenerationHooks \in Seq(T) /\ PreparationHooks \in Seq(T)
  BY DEF GenerationHooks, PreparationHooks
<1>4. /\ HookOrder \in Seq(T) /\ Len(HookOrder) = 4 + 3
      /\ \A i \in 1..(4 + 3) : HookOrder[i] =
            IF i <= 4 THEN GenerationHooks[i] ELSE PreparationHooks[i - 4]
  <2> HIDE DEF T
  <2>1. HookOrder = GenerationHooks \o PreparationHooks
    BY DEF HookOrder
  <2>2. /\ HookOrder \in Seq(T) /\ Len(HookOrder) = Len(GenerationHooks) + Len(PreparationHooks)
        /\ \A i \in 1..Len(GenerationHooks) + Len(PreparationHooks) : HookOrder[i] =
              IF i <= Len(GenerationHooks) THEN GenerationHooks[i]
              ELSE PreparationHooks[i - Len(GenerationHooks)]
    BY <1>3, <2>1, ConcatProperties
  <2> QED
    BY <1>1, <2>2
<1>5. DOMAIN HookOrder = 1..7 /\ Len(HookOrder) = 7
  BY <1>4
<1> QED
  BY <1>2, <1>4, <1>5

LEMMA Distinct ==
  /\ \A i, j \in 1..7 : HookOrder[i] = HookOrder[j] => i = j
  /\ \A i \in 1..7 : /\ HookOrder[i] \in HookStages
                     /\ HookOrder[i] \notin EndStages
                           \cup {"pay", "notify", "finish", "complete", "between", "close"}
  /\ HookStages = {HookOrder[i] : i \in 1..7}
<1>1. \A i \in 1..7 : i = 1 \/ i = 2 \/ i = 3 \/ i = 4 \/ i = 5 \/ i = 6 \/ i = 7
  OBVIOUS
<1>2. \A i \in 1..7 : HookOrder[i] =
         CASE i = 1 -> "after_candidates_generated" [] i = 2 -> "after_bonds_distributed"
           [] i = 3 -> "on_fees_collection" [] i = 4 -> "after_payouts_blueprint_generated"
           [] i = 5 -> "after_payouts_prepared" [] i = 6 -> "after_payouts_accumulated"
           [] i = 7 -> "check_balance"
  BY Order
<1>3. HookStages = {HookOrder[i] : i \in 1..7}
  BY Order DEF HookStages
<1> QED
  BY <1>1, <1>2, <1>3 DEF EndStages

\* What follows a number of hooks is the first of the rest that is not left
\* out, or the payment.
LEMMA AfterIs ==
  ASSUME NEW count \in 0..7, NEW left
  PROVE  \/ /\ After(count, left) = "pay"
            /\ \A j \in count + 1..7 : HookOrder[j] \in left
         \/ \E i \in count + 1..7 : /\ After(count, left) = HookOrder[i]
                                    /\ \A j \in count + 1..i - 1 : HookOrder[j] \in left
<1> DEFINE rest == {i \in count + 1..7 : HookOrder[i] \notin left}
           Least(i) == \A j \in rest : i <= j
<1>1. After(count, left) = IF rest = {} THEN "pay" ELSE HookOrder[CHOOSE i \in rest : Least(i)]
  BY Order DEF After
<1>2. CASE rest = {}
  BY <1>1, <1>2
<1>3. CASE rest # {}
  <2>1. \E i \in rest : Least(i)
    <3>1. rest \subseteq 1..7 /\ \A i \in 1..7 : i \in {1, 2, 3, 4, 5, 6, 7}
      OBVIOUS
    <3> HIDE DEF rest
    <3>2. 1 \in rest \/ 2 \in rest \/ 3 \in rest \/ 4 \in rest \/ 5 \in rest \/ 6 \in rest \/ 7 \in rest
      BY <1>3, <3>1
    <3>3. CASE 1 \in rest
      BY <3>1, <3>3
    <3>4. CASE 1 \notin rest /\ 2 \in rest
      BY <3>1, <3>4
    <3>5. CASE {1, 2} \cap rest = {} /\ 3 \in rest
      BY <3>1, <3>5
    <3>6. CASE {1, 2, 3} \cap rest = {} /\ 4 \in rest
      BY <3>1, <3>6
    <3>7. CASE {1, 2, 3, 4} \cap rest = {} /\ 5 \in rest
      BY <3>1, <3>7
    <3>8. CASE {1, 2, 3, 4, 5} \cap rest = {} /\ 6 \in rest
      BY <3>1, <3>8
    <3>9. CASE {1, 2, 3, 4, 5, 6} \cap rest = {} /\ 7 \in rest
      BY <3>1, <3>9
    <3> QED
      BY <3>2, <3>3, <3>4, <3>5, <3>6, <3>7, <3>8, <3>9
  <2>2. PICK i \in rest : Least(i) /\ After(count, left) = HookOrder[i]
    BY <1>1, <1>3, <2>1
  <2>3. i \in count + 1..7 /\ \A j \in count + 1..i - 1 : HookOrder[j] \in left
    BY <2>2
  <2> QED
    BY <2>2, <2>3
<1> QED
  BY <1>2, <1>3

LEMMA FollowingIs ==
  ASSUME NEW i \in 1..7
  PROVE  Following(HookOrder[i]) = After(i, skips)
  BY Order, Distinct DEF Following

-----------------------------------------------------------------------------
(* The answers the payment rests on.                                       *)

\* The required extensions that ask for a hook have answered it.
Approved(hook) ==
    \A n \in Names : Asked(n, hook) /\ IsRequired(n) => <<hook, n>> \in passed

Served(i) ==
    Asked(Store[i], call.hook) /\ IsRequired(Store[i]) => Store[i] \in call.served

\* The extensions before the current one have answered, and all of them when
\* the hook is over.
CallInv ==
    /\ call.phase # "none" => stage \in HookStages \cup {"notify"} /\ call.hook = HookOf(stage)
    /\ call.phase \in {"attempt", "init", "send"} => \A i \in 1..call.index - 1 : Served(i)
    /\ call.phase = "ok" => \A i \in DOMAIN Store : Served(i)

\* The hooks before the stage, and all of them when payouts may be executed.
StageInv ==
    /\ stage \in HookStages \cup EndStages
                    \cup {"pay", "notify", "finish", "complete", "between", "close"}
    /\ at # "idle" => stage \in {"pay", "panicked"}
    /\ \A i \in 1..7 : stage = HookOrder[i] =>
          \A j \in 1..i - 1 : HookOrder[j] \notin skips => Approved(HookOrder[j])
    /\ stage = "pay" /\ at = "idle" =>
          \A j \in 1..7 : HookOrder[j] \notin skips => Approved(HookOrder[j])

\* An attempt that begins.
LEMMA Begins ==
  ASSUME stage' = After(0, skips'), at' = "idle" \/ at' = at, at = "idle"
  PROVE  StageInv'
<1>1. CASE /\ stage' = "pay" /\ \A j \in 1..7 : HookOrder[j] \in skips'
  BY <1>1, Distinct DEF StageInv
<1>2. ASSUME NEW i \in 1..7, stage' = HookOrder[i], \A j \in 1..i - 1 : HookOrder[j] \in skips'
      PROVE  StageInv'
  BY <1>2, Distinct DEF StageInv
<1>3. \/ stage' = "pay" /\ \A j \in 0 + 1..7 : HookOrder[j] \in skips'
      \/ \E i \in 0 + 1..7 : /\ stage' = HookOrder[i]
                             /\ \A j \in 0 + 1..i - 1 : HookOrder[j] \in skips'
  BY AfterIs
<1> QED
  BY <1>1, <1>2, <1>3

\* A stage at which no hook is run.
Rests(next) ==
    next \in EndStages \cup {"notify", "finish", "complete", "between", "close"}

LEMMA RestsKeeps ==
  ASSUME Rests(stage'), at' = "idle"
  PROVE  StageInv'
  BY Distinct DEF Rests, StageInv, EndStages

\* The extension that is passed over is not asked, may be ignored, or answered.
LEMMA OnwardsServes ==
  ASSUME ExtInv, CallInv, call.phase \in {"attempt", "send"}, UNCHANGED stage,
         NEW served \in SUBSET Names, call.served \subseteq served, Onwards(served),
         Asked(Current, call.hook) /\ IsRequired(Current) => Current \in served
  PROVE  CallInv'
<1>1. /\ call \in Calls /\ call.index \in 1..Len(Store) /\ Len(Store) \in Nat
      /\ DOMAIN Store = 1..Len(Store)
  BY StoreIsSequence DEF ExtInv, Calls
<1>2. \A i \in 1..call.index :
         Asked(Store[i], call.hook) /\ IsRequired(Store[i]) => Store[i] \in served
  <2> SUFFICES ASSUME NEW i \in 1..call.index, Asked(Store[i], call.hook), IsRequired(Store[i])
               PROVE  Store[i] \in served
    OBVIOUS
  <2>1. CASE i = call.index
    BY <2>1 DEF Current
  <2>2. CASE i # call.index
    <3>1. i \in 1..call.index - 1
      BY <1>1, <2>2
    <3> QED
      BY <3>1 DEF CallInv, Served
  <2> QED
    BY <2>1, <2>2
<1>3. CASE call.index < Len(Store)
  <2>1. /\ call'.hook = call.hook /\ call'.index = call.index + 1
        /\ call'.phase = "attempt" /\ call'.served = served
    BY <1>1, <1>3 DEF Onwards, Calls
  <2>2. 1..call'.index - 1 = 1..call.index
    BY <1>1, <2>1
  <2>3. CallInv' <=> /\ stage \in HookStages \cup {"notify"} /\ call.hook = HookOf(stage)
                     /\ \A i \in 1..call.index :
                           Asked(Store[i], call.hook) /\ IsRequired(Store[i]) => Store[i] \in served
    BY <2>1, <2>2 DEF CallInv, Served
  <2> QED
    BY <1>2, <2>3 DEF CallInv
<1>4. CASE ~(call.index < Len(Store))
  <2>1. call'.hook = call.hook /\ call'.phase = "ok" /\ call'.served = served
    BY <1>1, <1>4 DEF Onwards, Calls
  <2>2. 1..call.index = DOMAIN Store
    BY <1>1, <1>4
  <2> QED
    BY <1>2, <2>1, <2>2 DEF CallInv, Served
<1> QED
  BY <1>3, <1>4

\* Within an extension, or to the end with an error.
LEMMA SameServed ==
  ASSUME ExtInv, CallInv, UNCHANGED stage, call.phase # "none",
         call'.hook = call.hook, call'.index = call.index, call'.served = call.served,
         call'.phase \in {"attempt", "init", "send"} => call.phase \in {"attempt", "init", "send"},
         call'.phase # "ok"
  PROVE  CallInv'
  BY DEF CallInv, Served

LEMMA HookStepServes == ExtInv /\ CallInv /\ HookStep /\ UNCHANGED stage => CallInv'
<1> SUFFICES ASSUME ExtInv, CallInv, HookStep, UNCHANGED stage PROVE CallInv'
  OBVIOUS
<1>1. call \in Calls /\ Current \in Names /\ call.served \in SUBSET Names
      /\ call.served \cup {Current} \in SUBSET Names
  BY StoreIsSequence DEF ExtInv, Calls, Current
<1>2. ASSUME NEW result \in {"send", "init", "error"}, Returns(result),
             call.phase \in {"attempt", "init", "send"}
      PROVE  CallInv'
  <2>1. /\ call'.hook = call.hook /\ call'.index = call.index
        /\ call'.served = call.served /\ call'.phase = result
    BY <1>1, <1>2 DEF Returns, Calls
  <2> QED
    BY <1>2, <2>1, SameServed
<1>3. CASE SkipExtension
  BY <1>1, <1>3, OnwardsServes DEF SkipExtension
<1>4. CASE LoadExtension \/ InitExtension
  BY <1>2, <1>4 DEF LoadExtension, InitExtension
<1>5. ASSUME Retry, call.phase = "send" PROVE CallInv'
  <2>1. CASE call.attempt + 1 < GetRetry(Current)
    <3>1. call' = [call EXCEPT !.attempt = call.attempt + 1, !.phase = "attempt"]
      BY <1>5, <2>1 DEF Retry
    <3>2. /\ call'.hook = call.hook /\ call'.index = call.index
          /\ call'.served = call.served /\ call'.phase = "attempt"
      BY <1>1, <3>1 DEF Calls
    <3> QED
      BY <1>5, <3>2, SameServed
  <2>2. CASE /\ ~(call.attempt + 1 < GetRetry(Current))
             /\ Definition[Current].errorAction = "continue"
    BY <1>1, <1>5, <2>2, OnwardsServes DEF Retry, IsRequired
  <2>3. CASE /\ ~(call.attempt + 1 < GetRetry(Current))
             /\ Definition[Current].errorAction # "continue"
    BY <1>2, <1>5, <2>3 DEF Retry
  <2> QED
    BY <2>1, <2>2, <2>3
<1>6. CASE SendHook
  <2>1. CASE Retry
    BY <1>5, <1>6, <2>1 DEF SendHook
  <2>2. CASE Answered
    BY <1>1, <1>6, <2>2, OnwardsServes DEF SendHook, Answered
  <2> QED
    BY <1>6, <2>1, <2>2 DEF SendHook
<1> QED
  BY <1>3, <1>4, <1>6 DEF HookStep

LEMMA CallStep == ExtInv /\ StageInv /\ CallInv /\ [Next]_vars => CallInv'
<1> SUFFICES ASSUME ExtInv, StageInv, CallInv, [Next]_vars PROVE CallInv'
  OBVIOUS
<1>1. CASE RunHook
  <2>1. UNCHANGED stage /\ stage \in HookStages \cup {"notify"}
    BY <1>1 DEF RunHook, cmdVars
  <2>2. CASE BeginHook(HookOf(stage))
    <3>1. /\ call'.hook = HookOf(stage) /\ call'.index = 1 /\ call'.phase = "attempt"
      BY <2>2 DEF BeginHook, NoCall
    <3> QED
      BY <2>1, <3>1 DEF CallInv, HookOf
  <2> QED
    BY <1>1, <2>1, <2>2, HookStepServes DEF RunHook
<1>2. CASE HookReturns
  BY <1>2, NoCallIsCall DEF HookReturns, CallInv
<1>3. ASSUME UNCHANGED <<call, stage>> PROVE CallInv'
  BY <1>3 DEF CallInv, Served
<1>4. ASSUME UNCHANGED call, stage \notin HookStages \cup {"notify"} PROVE CallInv'
  BY <1>4 DEF CallInv
<1>5. CASE NothingToPay \/ PayoutsExecuted \/ Close \/ Finish \/ CompleteCycle \/ NextCycle
           \/ StopContinual
  <2>1. stage \in {"pay", "close", "finish", "complete", "between"} /\ UNCHANGED call
    BY <1>5 DEF NothingToPay, PayoutsExecuted, Close, Finish, CompleteCycle, NextCycle,
       StopContinual, extVars, CloseExtensions
  <2>2. stage \notin HookStages \cup {"notify"}
    BY <2>1, Distinct DEF EndStages
  <2> QED
    BY <1>4, <2>1, <2>2
<1>6. CASE ExtensionFails
  BY <1>3, <1>6 DEF ExtensionFails, ExtensionDies, cmdVars
<1>7. CASE PayOut \/ Background \/ Outside \/ UNCHANGED vars
  BY <1>3, <1>7 DEF PayOut, StartPayouts, Background, Outside, extVars, cmdVars, vars
<1>8. CASE SignalComes
  <2>1. stage = "pay" /\ UNCHANGED call
    BY <1>8 DEF SignalComes, extVars
  <2>2. stage \notin HookStages \cup {"notify"}
    BY <2>1, Distinct
  <2> QED
    BY <1>4, <2>1, <2>2
<1> QED
  BY <1>1, <1>2, <1>5, <1>6, <1>7, <1>8 DEF Next, Command, Stopped

\* Steps beside the command's.
LEMMA BesidePlace ==
  /\ Beside \/ World => at' = at
  /\ Loop => at # "idle" /\ at' # "idle"
  /\ \A covered : Signal(covered) => at # "idle" /\ at' # "idle"
<1>1. Beside \/ World => at' = at
  BY DEF Beside, PollWakes, PollFinds, PollFails, NoteSignal, Handler, Watcher,
     World, Settle, Learn, MonitorEnds
<1>2. Loop => at # "idle" /\ at' # "idle"
  BY DEF Loop, StopSection, CheckSignaled, NextBatch, Dispatch, Pause, BeginWait, WaitReturns,
     ReadAnswer, Resume, ReportOutcome
<1>3. \A covered : Signal(covered) => at # "idle" /\ at' # "idle"
  BY DEF Signal
<1> QED
  BY <1>1, <1>2, <1>3

\* The hook of a stage returns.
LEMMA ReturnKeeps == ExtInv /\ StageInv /\ CallInv /\ HookReturns => StageInv'
<1> SUFFICES ASSUME ExtInv, StageInv, CallInv, HookReturns PROVE StageInv'
  OBVIOUS
<1>1. /\ UNCHANGED <<at, skips>> /\ stage \in HookStages \cup {"notify"}
      /\ call.hook = HookOf(stage)
  BY DEF HookReturns, loopVars, CallInv
<1>2. at = "idle" /\ at' = "idle"
  BY <1>1, Distinct DEF StageInv, EndStages
<1>3. CASE call.phase = "ok" /\ stage = "notify"
  BY <1>2, <1>3, RestsKeeps DEF HookReturns, Rests
<1>4. CASE call.phase = "ok" /\ stage # "notify"
  <2>1. PICK i \in 1..7 : stage = HookOrder[i]
    BY <1>1, <1>4, Distinct
  <2>2. /\ stage' = After(i, skips) /\ i \in 0..7
        /\ passed' = passed \cup {stage} \X {n \in call.served : IsRequired(n)}
    BY <1>4, <2>1, FollowingIs DEF HookReturns
  <2>3. Approved(HookOrder[i])'
    <3> SUFFICES ASSUME NEW n \in Names, Asked(n, HookOrder[i]), IsRequired(n)
                 PROVE  <<HookOrder[i], n>> \in passed'
      BY DEF Approved
    <3>1. call.hook = HookOrder[i]
      BY <1>1, <1>4, <2>1 DEF HookOf
    <3>2. PICK k \in DOMAIN Store : n = Store[k]
      BY DEF Names
    <3>3. n \in call.served
      BY <1>4, <3>1, <3>2 DEF CallInv, Served
    <3> QED
      BY <2>1, <2>2, <3>3
  <2>4. \A j \in 1..i : HookOrder[j] \notin skips => Approved(HookOrder[j])'
    <3> SUFFICES ASSUME NEW j \in 1..i, HookOrder[j] \notin skips
                 PROVE  Approved(HookOrder[j])'
      OBVIOUS
    <3>1. CASE j = i
      BY <2>1, <2>3, <3>1 DEF Approved
    <3>2. CASE j # i
      <4>1. j \in 1..i - 1
        BY <3>2
      <4>2. Approved(HookOrder[j])
        BY <2>1, <4>1 DEF StageInv
      <4> QED
        BY <2>2, <4>2 DEF Approved
    <3> QED
      BY <3>1, <3>2
  <2>5. CASE stage' = "pay" /\ \A j \in i + 1..7 : HookOrder[j] \in skips
    <3>1. \A j \in 1..7 : HookOrder[j] \notin skips => j \in 1..i
      BY <2>5
    <3> QED
      BY <1>1, <1>2, <2>4, <2>5, <3>1, Distinct DEF StageInv
  <2>6. ASSUME NEW m \in i + 1..7, stage' = HookOrder[m],
               \A j \in i + 1..m - 1 : HookOrder[j] \in skips
        PROVE  StageInv'
    <3>1. \A j \in 1..m - 1 : HookOrder[j] \notin skips => j \in 1..i
      BY <2>6
    <3>2. m \in 1..7
      OBVIOUS
    <3> QED
      BY <1>1, <1>2, <2>4, <2>6, <3>1, <3>2, Distinct DEF StageInv
  <2> QED
    BY <2>2, <2>5, <2>6, AfterIs
<1>5. CASE call.phase = "error"
  <2>1. stage' = AfterError /\ passed' = IF stage' = HookOrder[1] THEN {} ELSE passed
    BY <1>5 DEF HookReturns
  <2>2. CASE AfterError = HookOrder[1]
    BY <1>1, <1>2, <2>1, <2>2, Distinct DEF StageInv
  <2>3. CASE AfterError = stage /\ AfterError # HookOrder[1]
    BY <1>1, <1>2, <2>1, <2>3 DEF StageInv, Approved
  <2>4. CASE AfterError \in {"finish", "exited"}
    BY <1>2, <2>1, <2>4, RestsKeeps DEF Rests, EndStages
  <2> QED
    BY <2>2, <2>3, <2>4 DEF AfterError
<1> QED
  BY <1>3, <1>4, <1>5 DEF HookReturns

LEMMA StageStep == ExtInv /\ StageInv /\ CallInv /\ [Next]_vars => StageInv'
<1> SUFFICES ASSUME ExtInv, StageInv, CallInv, [Next]_vars PROVE StageInv'
  OBVIOUS
<1>1. ASSUME UNCHANGED <<at, stage, skips, passed>> PROVE StageInv'
  BY <1>1 DEF StageInv, Approved
<1>2. ASSUME at # "idle", at' # "idle", stage' \in {stage, "panicked"} PROVE StageInv'
  BY <1>2, Distinct DEF StageInv, EndStages
<1>3. CASE RunHook \/ ExtensionFails \/ UNCHANGED vars
  BY <1>1, <1>3 DEF RunHook, ExtensionFails, loopVars, cmdVars, vars
<1>4. CASE NothingToPay
  BY <1>4, RestsKeeps DEF NothingToPay, loopVars, Rests, EndStages
<1>5. CASE PayoutsExecuted
  BY <1>5, RestsKeeps DEF PayoutsExecuted, LoopInitAgain, Rests, EndStages
<1>6. CASE Close \/ Finish \/ CompleteCycle \/ StopContinual
  <2>1. stage \notin {"pay", "panicked"} /\ UNCHANGED at
    BY <1>6 DEF Close, Finish, CompleteCycle, StopContinual, loopVars
  <2>2. Rests(stage')
    BY <1>6 DEF Close, Finish, CompleteCycle, StopContinual, Rests, EndStages
  <2> QED
    BY <2>1, <2>2, RestsKeeps DEF StageInv
<1>7. CASE NextCycle
  <2>1. stage' = After(0, skips') /\ at' = at /\ at = "idle"
    BY <1>7 DEF NextCycle, loopVars, StageInv
  <2> QED
    BY <2>1, Begins
<1>8. CASE PayOut
  <2>1. CASE StartPayouts
    BY <2>1, Distinct DEF StartPayouts, StartSection, StageInv
  <2>2. CASE stage = "pay" /\ Loop /\ UNCHANGED <<extVars, cmdVars>>
    BY <1>2, <2>2, BesidePlace DEF cmdVars
  <2> QED
    BY <1>8, <2>1, <2>2 DEF PayOut
<1>9. CASE Background \/ Outside
  BY <1>1, <1>9, BesidePlace DEF Background, Outside, cmdVars
<1>10. CASE SignalComes
  BY <1>2, <1>10, BesidePlace DEF SignalComes
<1> QED
  BY <1>3, <1>4, <1>5, <1>6, <1>7, <1>8, <1>9, <1>10, ReturnKeeps DEF Next, Command, Stopped

LEMMA CommandInitially == Init => ExtInv /\ StageInv /\ CallInv
<1> SUFFICES ASSUME Init PROVE ExtInv /\ StageInv /\ CallInv
  OBVIOUS
<1>1. CallInv
  BY NoCallIsCall DEF Init, ExtInit, CallInv
<1>2. /\ stage = After(0, skips) /\ at = "idle"
  BY DEF Init, LoopInit
<1>3. ASSUME stage = "pay", \A j \in 1..7 : HookOrder[j] \in skips PROVE StageInv
  BY <1>2, <1>3, Distinct DEF StageInv
<1>4. ASSUME NEW i \in 1..7, stage = HookOrder[i], \A j \in 1..i - 1 : HookOrder[j] \in skips
      PROVE  StageInv
  BY <1>2, <1>4, Distinct DEF StageInv
<1>5. \/ stage = "pay" /\ \A j \in 0 + 1..7 : HookOrder[j] \in skips
      \/ \E i \in 0 + 1..7 : /\ stage = HookOrder[i]
                             /\ \A j \in 0 + 1..i - 1 : HookOrder[j] \in skips
  BY <1>2, AfterIs
<1> QED
  BY <1>1, <1>3, <1>4, <1>5, ExtInitially

CommandInv == ExtInv /\ StageInv /\ CallInv

LEMMA CommandKeeps == Spec => []CommandInv
<1>1. CommandInv /\ [Next]_vars => CommandInv'
  BY ExtStep, StageStep, CallStep DEF CommandInv
<1> QED
  BY <1>1, CommandInitially, PTL DEF Spec, CommandInv

(* The execution of payouts starts only once every required extension has  *)
(* answered, in the same attempt, each hook it asks for that the attempt   *)
(* comes to: whatever the store, the retries and the restarts (extension/, *)
(* cmd/pay.go, cmd/continual.go).                                          *)
THEOREM Approval == Spec => PaysOnlyApproved
<1>1. CommandInv /\ [Next]_vars =>
         [at = "idle" /\ at' # "idle" =>
             \A hook \in HookStages \ skips, n \in Names :
                Asked(n, hook) /\ IsRequired(n) => <<hook, n>> \in passed]_vars
  <2> SUFFICES ASSUME CommandInv, Next, at = "idle", at' # "idle",
                      NEW hook \in HookStages \ skips, NEW n \in Names,
                      Asked(n, hook), IsRequired(n)
               PROVE  <<hook, n>> \in passed
    BY DEF vars, loopVars
  <2>1. StartPayouts
    <3>1. ~(Loop \/ Beside \/ World \/ \E covered : Signal(covered))
      BY BesidePlace
    <3>2. ~(RunHook \/ ExtensionFails \/ NothingToPay \/ PayoutsExecuted \/ HookReturns \/ Close
            \/ Finish \/ CompleteCycle \/ NextCycle \/ StopContinual \/ Stopped)
      BY DEF RunHook, ExtensionFails, NothingToPay, PayoutsExecuted, LoopInitAgain, HookReturns,
         Close, Finish, CompleteCycle, NextCycle, StopContinual, Stopped, loopVars, vars
    <3> QED
      BY <3>1, <3>2 DEF Next, Command, PayOut, Background, Outside, SignalComes
  <2>2. PICK j \in 1..7 : hook = HookOrder[j]
    BY Distinct
  <2>3. Approved(HookOrder[j])
    BY <2>1, <2>2 DEF StartPayouts, CommandInv, StageInv
  <2> QED
    BY <2>2, <2>3 DEF Approved
<1> QED
  BY <1>1, CommandKeeps, PTL DEF Spec, PaysOnlyApproved

(* While payouts are executed a signal ends the process only when the       *)
(* operation of the current batch is out and has no result, except that in *)
(* continual mode the first one may, by panic, at any point (os.go,        *)
(* 1_ExecutePayouts.go, cycle_monitor.go).                                 *)
THEOREM Protected == Spec => ProtectedOutsideWaits
<1> DEFINE Ends == at \notin {"idle", "over"} /\ Running /\ ~Running'
           Excused == \/ monitor = "armed" /\ stage' = "panicked"
                      \/ /\ monitor # "armed" /\ at' = "killed"
                         /\ batch \in Batches /\ results[batch] = "none"
                         /\ op # "unsent" /\ watcher[batch] # "none"
<1>1. Init => LoopInv
  BY LoopInitially DEF Init
<1>2. LoopInv /\ [Next]_vars => LoopInv'
  BY LoopKeeps, EveryStep
<1>3. LoopInv /\ CommandInv /\ [Next]_vars => [Ends => Excused]_vars
  <2> SUFFICES ASSUME LoopInv, CommandInv, Next, Ends PROVE Excused
    OBVIOUS
  <2>1. stage = "pay" /\ at \notin {"idle", "over"}
    BY DEF CommandInv, StageInv, Running, EndStages
  <2>2. stage \notin HookStages \cup {"notify"}
    BY <2>1, Distinct
  <2>3. ASSUME PayOut \/ Background \/ Outside PROVE Running'
    <3>1. stage' = "pay" /\ (StartSection \/ Loop \/ Beside \/ World)
      BY <2>1, <2>3 DEF PayOut, StartPayouts, Background, Outside, cmdVars
    <3>2. Loop => at' # "killed"
      BY DEF Loop, StopSection, CheckSignaled, NextBatch, Dispatch, Pause, BeginWait,
         WaitReturns, ReadAnswer, Resume, ReportOutcome
    <3>3. StartSection => at' # "killed"
      BY DEF StartSection
    <3> QED
      BY <3>1, <3>2, <3>3, BesidePlace DEF Running, EndStages
  <2>4. SignalComes
    <3>1. ~(RunHook \/ HookReturns \/ NothingToPay \/ PayoutsExecuted \/ Close \/ Finish
            \/ CompleteCycle \/ NextCycle \/ StopContinual)
      BY <2>1, <2>2 DEF RunHook, HookReturns, CallInv, CommandInv, NothingToPay, PayoutsExecuted,
         Close, Finish, CompleteCycle, NextCycle, StopContinual
    <3>2. ExtensionFails \/ Stopped => Running' \/ ~Running
      BY DEF ExtensionFails, Stopped, loopVars, cmdVars, vars, Running
    <3> QED
      BY <2>3, <3>1, <3>2 DEF Next, Command
  <2>5. CASE monitor = "armed"
    <3>1. at' = at
      BY <2>4, <2>5 DEF SignalComes, Signal
    <3> QED
      BY <2>4, <2>5, <3>1 DEF SignalComes, Running
  <2>6. CASE monitor # "armed"
    <3>1. at' = "killed" /\ ~section.active /\ at # "killed"
      BY <2>4, <2>6 DEF SignalComes, Signal, Running
    <3>2. at \in Sent
      BY <2>1, <3>1 DEF LoopInv, LoopType, Places, Sent
    <3> QED
      BY <2>6, <3>1, <3>2, BatchAssumption DEF LoopInv, LoopType, Sent, Batches
  <2> QED
    BY <2>5, <2>6
<1> QED
  BY <1>1, <1>2, <1>3, CommandKeeps, PTL DEF Spec, ProtectedOutsideWaits

(* The states of the command: where its parts stand, and that exactly the  *)
(* batches the loop is past have a result (cmd/pay.go, cmd/continual.go).  *)
THEOREM Typed == Spec => []TypeOK
<1> DEFINE ModeInv ==
             /\ mode \in {"pay", "continual"} /\ LoopInv
             /\ monitor \in IF mode = "pay" THEN {"none"} ELSE {"armed", "canceled"}
<1>1. Init => ModeInv
  BY LoopInitially DEF Init
<1>2. ModeInv /\ [Next]_vars => ModeInv'
  <2> SUFFICES ASSUME ModeInv, [Next]_vars
               PROVE  /\ mode' = mode
                      /\ \/ monitor' = monitor
                         \/ monitor = "armed" /\ monitor' = "canceled"
    BY LoopKeeps, EveryStep
  <2> QED
    BY DEF Next, Command, RunHook, HookReturns, NothingToPay, PayoutsExecuted, Close, Finish,
       CompleteCycle, NextCycle, StopContinual, ExtensionFails, PayOut, StartPayouts,
       Background, Outside, SignalComes, Stopped, cmdVars, vars
<1>3. ModeInv /\ CommandInv => TypeOK
  <2> SUFFICES ASSUME ModeInv, CommandInv PROVE TypeOK
    OBVIOUS
  <2>1. call.index \in DOMAIN Store /\ call.served \subseteq Names
    BY DEF CommandInv, ExtInv, Calls
  <2> QED
    BY <2>1 DEF CommandInv, ExtInv, ExtStates, StageInv, LoopInv, LoopType, Places, TypeOK
<1> HIDE DEF ModeInv
<1> QED
  BY <1>1, <1>2, <1>3, CommandKeeps, PTL DEF Spec
=============================================================================
