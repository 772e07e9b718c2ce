----------------------------- MODULE Extensions -----------------------------
(***************************************************************************)
(* The store of extensions and the execution of hooks (extension/).  An    *)
(* extension is a process, or a server, at the other end of a stream: it   *)
(* is started and initialized when the first hook needs it, started again  *)
(* when a health check finds its stream broken, and closed at the end of   *)
(* its lifespan.                                                           *)
(***************************************************************************)
EXTENDS Naturals, Sequences

CONSTANTS
    Store,          \* the names of the extensions, in the order of the configuration
    Definition,     \* the ExtensionDefinition of each
    Absent          \* a field a definition leaves out

Names == {Store[i] : i \in DOMAIN Store}

ASSUME StoreAssumption ==
    /\ Store \in Seq(Names) /\ Store # <<>>
    /\ \A n \in Names : /\ Definition[n].kind \in {"stdio", "tcp"}
                        /\ Definition[n].retry = Absent \/ Definition[n].retry \in Nat

VARIABLES
    ext,            \* what the store holds of each extension
    call            \* the hook that is being executed

extVars == <<ext, call>>

\* init is how the initialization of what was started last ended.
NotStarted == [loaded |-> FALSE, stream |-> "none", init |-> "none"]
Started    == [loaded |-> TRUE,  stream |-> "open", init |-> "none"]
NoCall     == [hook |-> Absent, index |-> 1, attempt |-> 0, phase |-> "none", served |-> {}]

ExtInit ==
    /\ ext = [n \in Names |-> NotStarted]
    /\ call = NoCall

-----------------------------------------------------------------------------
(* What a definition says.                                                 *)

GetRetry(n) == IF Definition[n].retry = Absent THEN 2 ELSE Definition[n].retry

GetLifespan(n) ==
    IF Definition[n].lifespan # Absent THEN Definition[n].lifespan
    ELSE IF Definition[n].kind = "stdio" THEN "scoped" ELSE "transient"

\* The mode of the first entry for the hook, or of the last for all of them.
MatchedMode(n, hook) ==
    LET entries  == Definition[n].hooks
        Entry(h) == {i \in DOMAIN entries : entries[i].id = h}
    IN  IF Entry(hook) # {}
        THEN entries[CHOOSE i \in Entry(hook) : \A j \in Entry(hook) : i <= j].mode
        ELSE IF Entry("all") # {}
        THEN entries[CHOOSE i \in Entry("all") : \A j \in Entry("all") : j <= i].mode
        ELSE "unknown"

Asked(n, hook) == MatchedMode(n, hook) \in {"ro", "rw"} /\ GetRetry(n) > 0

\* A health check: a notification that only a broken stream refuses.
IsLoaded(n) == ext[n].loaded /\ ext[n].stream = "open"

\* A tcp extension with a command starts it twice; the second start fails.
CanStart(n) == Definition[n].kind = "stdio" \/ ~Definition[n].command

-----------------------------------------------------------------------------
(* A hook goes to the extensions one after the other.                      *)

Current == Store[call.index]

BeginHook(hook) ==
    /\ call.phase = "none"
    /\ call' = [NoCall EXCEPT !.hook = hook, !.phase = "attempt"]
    /\ UNCHANGED ext

Returns(result) == call' = [call EXCEPT !.phase = result]

\* The next extension, with its own attempts.
Onwards(served) ==
    call' = IF call.index < Len(Store)
            THEN [call EXCEPT !.index = @ + 1, !.attempt = 0, !.phase = "attempt", !.served = served]
            ELSE [call EXCEPT !.phase = "ok", !.served = served]

Answered == Onwards(call.served \cup {Current})

\* Mutant: an error of the last attempt is forgotten.
RetryForgotten ==
    IF call.attempt + 1 < GetRetry(Current)
    THEN call' = [call EXCEPT !.attempt = @ + 1, !.phase = "attempt"]
    ELSE Onwards(call.served)

\* An error of an attempt: the next attempt, or what the definition says.
Retry ==
    IF call.attempt + 1 < GetRetry(Current)
    THEN call' = [call EXCEPT !.attempt = @ + 1, !.phase = "attempt"]
    ELSE IF Definition[Current].errorAction = "continue" THEN Onwards(call.served)
    ELSE Returns("error")

SkipExtension ==
    /\ call.phase = "attempt" /\ ~Asked(Current, call.hook)
    /\ Onwards(call.served)
    /\ UNCHANGED ext

\* Mutant: a process that is started again is not initialized.
LoadExtensionAgain ==
    /\ call.phase = "attempt" /\ Asked(Current, call.hook)
    /\ \/ IsLoaded(Current) /\ Returns("send") /\ UNCHANGED ext
       \/ ~IsLoaded(Current) /\ Returns("error") /\ UNCHANGED ext
       \/ /\ ~IsLoaded(Current) /\ CanStart(Current)
          /\ ext' = [ext EXCEPT ![Current] = Started]
          /\ Returns(IF ext[Current].loaded THEN "send" ELSE "init")

\* LoadExtension: a load that fails ends the hook at once, whatever the retries
\* and the error action.
LoadExtension ==
    /\ call.phase = "attempt" /\ Asked(Current, call.hook)
    /\ \/ IsLoaded(Current) /\ Returns("send") /\ UNCHANGED ext
       \/ ~IsLoaded(Current) /\ Returns("error") /\ UNCHANGED ext
       \/ /\ ~IsLoaded(Current) /\ CanStart(Current)
          /\ ext' = [ext EXCEPT ![Current] = Started]
          /\ Returns("init")

\* The init request is answered with success, or it is refused, fails or
\* times out, and the extension stays loaded.
InitExtension ==
    /\ call.phase = "init"
    /\ \/ /\ ext[Current].stream = "open"
          /\ ext' = [ext EXCEPT ![Current].init = "done"]
          /\ Returns("send")
       \/ ext' = [ext EXCEPT ![Current].init = "failed"] /\ Returns("error")

\* A notification, or a request that is answered, unknown to the extension,
\* refused or not answered in time.
SendHook ==
    /\ call.phase = "send"
    /\ IF ext[Current].stream # "open" THEN Retry
       ELSE Answered \/ (MatchedMode(Current, call.hook) = "rw" /\ Retry)
    /\ UNCHANGED ext

\* That an extension died shows when a hook comes to it.
ExtensionDies ==
    /\ call.phase \in {"attempt", "init", "send"} /\ ext[Current].stream = "open"
    /\ ext' = [ext EXCEPT ![Current].stream = "broken"]
    /\ UNCHANGED call

HookStep == SkipExtension \/ LoadExtension \/ InitExtension \/ SendHook

-----------------------------------------------------------------------------
(* Closing.                                                                *)

Closed(names) ==
    [n \in Names |-> IF n \in names /\ IsLoaded(n)
                     THEN NotStarted ELSE ext[n]]

\* The connection of a tcp extension is never kept: closing it panics.
ClosePanics(names) == \E n \in names : IsLoaded(n) /\ Definition[n].kind = "tcp"

Scoped == {n \in Names : GetLifespan(n) = "scoped"}

CloseExtensions(names) == ext' = Closed(names) /\ UNCHANGED call
=============================================================================
