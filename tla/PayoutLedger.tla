---------------------------- MODULE PayoutLedger ----------------------------
(***************************************************************************)
(* What paying out promises, without runs, files or operations: a recipe   *)
(* that is under way or paid is not sent again, unless it was forgotten.   *)
(* PayoutExecution implements it; MayForget is FALSE for an environment    *)
(* that gives the code no way to lose an outcome.                          *)
(***************************************************************************)
EXTENDS FiniteSets

CONSTANTS Recipes, MayForget

VARIABLES
    inflight,   \* recipes sent, outcome open
    paid,       \* recipes paid at least once
    forgotten   \* recipes no record of whose sending was kept

vars == <<inflight, paid, forgotten>>

Init == inflight = {} /\ paid = {} /\ forgotten = {}

Send(b) ==
    /\ b \cap (inflight \cup paid) \subseteq forgotten
    /\ inflight' = inflight \cup b
    /\ UNCHANGED <<paid, forgotten>>

\* Recipes leave the flight, those sent twice perhaps only once.
Land(b) ==
    /\ b \subseteq inflight
    /\ \E again \in SUBSET (b \cap forgotten) :
         inflight' = (inflight \ b) \cup again
    /\ UNCHANGED forgotten

Pay(b)  == Land(b) /\ paid' = paid \cup b
Drop(b) == Land(b) /\ UNCHANGED paid

Forget(b) ==
    /\ MayForget
    /\ b \subseteq inflight \cup paid
    /\ forgotten' = forgotten \cup b
    /\ UNCHANGED <<inflight, paid>>

Next == \E b \in SUBSET Recipes : Send(b) \/ Pay(b) \/ Drop(b) \/ Forget(b)

Spec == Init /\ [][Next]_vars

TypeOK ==
    /\ inflight \subseteq Recipes
    /\ paid \subseteq Recipes
    /\ forgotten \subseteq Recipes

\* A recipe that is paid and under way again had been forgotten.
PaidAgainOnlyIfForgotten == inflight \cap paid \subseteq forgotten

\* Where nothing can be forgotten nothing paid is ever sent again.
NothingForgotten == ~MayForget => inflight \cap paid = {}
============================================================================
