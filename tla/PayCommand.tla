------------------------------ MODULE PayCommand ------------------------------
(***************************************************************************)
(* A payout seen from its process: the command runs the hooks of the       *)
(* generation and of the preparation in turn, executes the batches, runs   *)
(* the hook of the notifications, and closes the extensions.  "pay" does   *)
(* it once, "continual" for one cycle after the other (cmd/pay.go,         *)
(* cmd/continual.go).                                                      *)
(***************************************************************************)
EXTENDS Extensions, BatchConfirmation

VARIABLES
    mode,       \* the command
    stage,      \* the hook it runs, or what it does else
    monitor,    \* the callback that cancels the cycle monitor when a signal comes
    skips,      \* the hooks that this attempt does not come to
    passed      \* the required extensions that answered each hook of this attempt

cmdVars == <<mode, stage, monitor, skips, passed>>
vars    == <<extVars, loopVars, cmdVars>>

GenerationHooks ==
    <<"after_candidates_generated", "after_bonds_distributed", "on_fees_collection",
      "after_payouts_blueprint_generated">>
PreparationHooks == <<"after_payouts_prepared", "after_payouts_accumulated", "check_balance">>
HookOrder == GenerationHooks \o PreparationHooks

HookStages == {HookOrder[i] : i \in DOMAIN HookOrder}
EndStages  == {"exited", "ended", "panicked"}

\* What follows a number of hooks, none of them among those left out.
After(count, left) ==
    LET rest == {i \in count + 1..Len(HookOrder) : HookOrder[i] \notin left}
    IN  IF rest = {} THEN "pay" ELSE HookOrder[CHOOSE i \in rest : \A j \in rest : i <= j]

Following(hook) == After(CHOOSE i \in DOMAIN HookOrder : HookOrder[i] = hook, skips)

\* Nothing is accumulated for a single cycle; "pay" may take what was generated
\* from a file, and skip the check of the balance.
Skippable(command) ==
    LET ofFile == {GenerationHooks[i] : i \in DOMAIN GenerationHooks}
    IN  {UNION parts : parts \in SUBSET
            ({{"after_payouts_accumulated"}}
             \cup IF command = "pay" THEN {ofFile, {"check_balance"}} ELSE {})}

Init ==
    /\ ExtInit /\ LoopInit
    /\ mode \in {"pay", "continual"}
    /\ skips \in Skippable(mode)
    /\ stage = After(0, skips)
    /\ monitor = IF mode = "continual" THEN "armed" ELSE "none"
    /\ passed = {}

-----------------------------------------------------------------------------
(* The hooks.                                                              *)

HookOf(current) ==
    IF current = "notify" THEN "collect_additional_notification_data" ELSE current

RunHook ==
    /\ stage \in HookStages \cup {"notify"}
    /\ BeginHook(HookOf(stage)) \/ HookStep
    /\ UNCHANGED <<loopVars, cmdVars>>

ExtensionFails == ExtensionDies /\ UNCHANGED <<loopVars, cmdVars>>

\* An error of the notifications' hook is logged, any other ends "pay";
\* "continual" starts over when it comes from the generation and waits when
\* it comes from the check of the balance.
AfterError ==
    IF stage = "notify" THEN "finish"
    ELSE IF mode = "pay" THEN "exited"
    ELSE IF stage \in {GenerationHooks[i] : i \in DOMAIN GenerationHooks} THEN HookOrder[1]
    ELSE IF stage = "check_balance" THEN stage
    ELSE "exited"

\* Its failure is not to be ignored.
IsRequired(n) == Definition[n].errorAction # "continue"

HookReturns ==
    /\ call.phase \in {"ok", "error"}
    /\ call' = NoCall
    /\ IF call.phase = "ok"
       THEN /\ stage' = IF stage = "notify" THEN "finish" ELSE Following(stage)
            /\ passed' = passed \cup {stage} \X {n \in call.served : IsRequired(n)}
       ELSE /\ stage' = AfterError
            /\ passed' = IF stage' = HookOrder[1] THEN {} ELSE passed
    /\ UNCHANGED <<ext, loopVars, mode, monitor, skips>>

-----------------------------------------------------------------------------
(* The payment.                                                            *)

NothingToPay ==
    /\ stage = "pay" /\ at = "idle"
    /\ stage' = IF mode = "pay" THEN "exited" ELSE "complete"
    /\ skips' = {} /\ passed' = {}
    /\ UNCHANGED <<extVars, loopVars, mode, monitor>>

\* Once payouts are executed, what led there is over.
StartPayouts ==
    /\ stage = "pay" /\ StartSection
    /\ skips' = {} /\ passed' = {}
    /\ UNCHANGED <<extVars, mode, stage, monitor>>

PayOut ==
    \/ StartPayouts
    \/ stage = "pay" /\ Loop /\ UNCHANGED <<extVars, cmdVars>>

Background == Beside /\ UNCHANGED <<extVars, cmdVars>>

Outside == World /\ UNCHANGED <<extVars, cmdVars>>

\* What ran beside the loop ends at once when the loop has.
Quiet == poll = "closed" /\ \A b \in Batches : intr[b] \in {"none", "stopped"}

\* A failed batch ends "pay"; "continual" takes the cycle for processed.
PayoutsExecuted ==
    /\ stage = "pay" /\ at = "over" /\ Quiet
    /\ stage' = IF \E b \in Batches : results[b] # "success"
                THEN IF mode = "pay" THEN "exited" ELSE "complete"
                ELSE "notify"
    /\ LoopInitAgain
    /\ UNCHANGED <<extVars, mode, monitor, skips, passed>>

\* The callback that cancels the monitor takes one signal and closes the channel
\* of the monitor.  Its goroutine is asleep, or blocked in sending as it soon is
\* while nobody waits for a cycle: then the process panics.  Signals that come
\* while nothing is executed are left out.
SignalComes ==
    /\ stage = "pay" /\ Signal(monitor = "armed")
    /\ IF monitor = "armed" THEN monitor' = "canceled" /\ stage' \in {stage, "panicked"}
                            ELSE UNCHANGED <<monitor, stage>>
    /\ UNCHANGED <<extVars, mode, skips, passed>>

-----------------------------------------------------------------------------
(* The end of the command, or of a cycle.                                  *)

\* Leaving through os.Exit runs no deferred function.
Close ==
    /\ stage = "close"
    /\ IF ClosePanics(Names) THEN stage' = "panicked" /\ UNCHANGED extVars
       ELSE stage' = "ended" /\ CloseExtensions(Names)
    /\ UNCHANGED <<loopVars, mode, monitor, skips, passed>>

Finish ==
    /\ stage = "finish"
    /\ stage' = IF mode = "pay" THEN "close" ELSE "complete"
    /\ UNCHANGED <<extVars, loopVars, mode, monitor, skips, passed>>

\* The end cycle may be reached.
CompleteCycle ==
    /\ stage = "complete"
    /\ IF ClosePanics(Scoped) THEN stage' = "panicked" /\ UNCHANGED extVars
       ELSE stage' \in {"between", "exited"} /\ CloseExtensions(Scoped)
    /\ UNCHANGED <<loopVars, mode, monitor, skips, passed>>

\* Also when the monitor was canceled, as long as completed cycles are left.
NextCycle ==
    /\ stage = "between"
    /\ skips' \in Skippable(mode) /\ passed' = {}
    /\ stage' = After(0, skips')
    /\ UNCHANGED <<extVars, loopVars, mode, monitor>>

StopContinual ==
    /\ stage = "between"
    /\ stage' = "close"
    /\ UNCHANGED <<extVars, loopVars, mode, monitor, skips, passed>>

Command ==
    \/ RunHook \/ HookReturns \/ NothingToPay \/ PayoutsExecuted \/ Close \/ Finish
    \/ CompleteCycle \/ NextCycle \/ StopContinual

Running == stage \notin EndStages /\ at # "killed"

Stopped == ~Running /\ UNCHANGED vars

Next ==
    \/ /\ Running
       /\ Command \/ ExtensionFails \/ PayOut \/ Background \/ Outside \/ SignalComes
    \/ Stopped

\* The scheduler runs every goroutine; the indexer learns of an operation that
\* was included, and an indexer that is asked again and again answers.
Fairness ==
    /\ WF_vars(Running /\ PayOut)
    /\ WF_vars(Running /\ PollWakes /\ UNCHANGED <<extVars, cmdVars>>)
    /\ SF_vars(Running /\ PollFinds /\ UNCHANGED <<extVars, cmdVars>>)
    /\ WF_vars(Running /\ Learn /\ UNCHANGED <<extVars, cmdVars>>)
    /\ \A b \in Batches : WF_vars(Running /\ Watcher(b) /\ UNCHANGED <<extVars, cmdVars>>)
    /\ \A b \in Batches : WF_vars(Running /\ Handler(b) /\ UNCHANGED <<extVars, cmdVars>>)

Spec     == Init /\ [][Next]_vars
FairSpec == Spec /\ Fairness
-----------------------------------------------------------------------------

\* What every reachable state looks like: where the parts stand, and which
\* batches have a result.
TypeOK ==
    /\ mode \in {"pay", "continual"}
    /\ monitor \in IF mode = "pay" THEN {"none"} ELSE {"armed", "canceled"}
    /\ stage \in HookStages \cup EndStages
                    \cup {"pay", "notify", "finish", "complete", "between", "close"}
    /\ ext \in [Names -> [loaded : BOOLEAN, stream : {"none", "open", "broken"},
                          init : {"none", "done", "failed"}]]
    /\ call.index \in DOMAIN Store /\ call.served \subseteq Names
    /\ at \in {"idle", "check", "dispatch", "pause", "begin", "waiting", "drain", "resume",
               "stopping", "over", "killed"}
    /\ batch \in 1..BatchCount + 1
    /\ \A b \in Batches : results[b] = "none" <=> b >= batch

\* Payouts are executed only after each extension whose failure is not to be
\* ignored answered, in this attempt, every hook it asked for and the attempt
\* comes to, through retries, restarts and the checks that are repeated
\* (ExecuteHook and the commands that call it).
PaysOnlyApproved ==
    [][at = "idle" /\ at' # "idle" =>
          \A hook \in HookStages \ skips, n \in Names :
              Asked(n, hook) /\ IsRequired(n) => <<hook, n>> \in passed]_vars

\* What an extension is started as is initialized, or was refused it, before
\* it is sent a hook: also after it died and was started again (extension.go,
\* LoadExtension).
UninitializedOnlyAfterFailure ==
    call.phase = "send" /\ ext[Current].stream = "open" => ext[Current].init # "none"

\* While payouts are executed a signal ends the process only when the operation
\* of the current batch is out and without a result (os.go and the pause around
\* WaitForApply in 1_ExecutePayouts.go).  In continual mode the first signal
\* never kills it, but the callback of the monitor, which takes that signal, may
\* make it panic at any point (cycle_monitor.go).
ProtectedOutsideWaits ==
    [][at \notin {"idle", "over"} /\ Running /\ ~Running' =>
          \/ monitor = "armed" /\ stage' = "panicked"
          \/ /\ monitor # "armed" /\ at' = "killed"
             /\ batch \in Batches /\ results[batch] = "none"
             /\ op # "unsent" /\ watcher[batch] # "none"]_vars

\* Once a batch has its result, the admin was told of it the outcome, once and
\* last, if and only if there had been an alert, although the alert races the
\* end of the wait (confirmation_watch.go: "If admin was notified, stop also
\* reports the final outcome of the batch").
OutcomeIffAlerted ==
    \A b \in Batches :
        LET told == notices[b]
        IN  /\ results[b] # "none" =>
                  told = <<>> \/ (Len(told) > 1 /\ told[Len(told)] = "outcome")
            /\ \A i \in 1..Len(told) - 1 : told[i] = "alert"

\* A batch is reported successful only when its operation was applied, however
\* the monitor, the fallback, a signal and the end of the wait race
\* (transactor/default.go, WaitForApply).
SuccessIsApplied ==
    /\ at \in {"resume", "stopping"} /\ outcome = "applied" => op = "applied"
    /\ at = "check" /\ batch > 1 /\ results[batch - 1] = "success" => op = "applied"

\* Unless a signal ends the process, a wait for an operation that was included
\* ends even when the monitor is stuck (the fallback of WaitForApply).
WaitEnds ==
    Running /\ at = "waiting" /\ op \in {"applied", "failed"} ~> ~(Running /\ at = "waiting")

\* A wait that does not end is alerted (confirmation_watch.go).
StuckIsAlerted ==
    \A b \in Batches :
        LET waits == Running /\ at = "waiting" /\ batch = b
        IN  waits ~> ~waits \/ notices[b] # <<>>
=============================================================================
