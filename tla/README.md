# tezpay in TLA+

tezpay pays the delegators of a Tezos baker: for each cycle it computes what
everybody is owed, filters out what earlier runs paid, sends the rest in
batches and records what happened in report files. This directory models the
parts of it where order, failure and time matter, and those where the money must
add up, checks them with TLC and proves with TLAPS every safety property that
TLC finds to hold.

## The system

| part | state | operations | talks to |
|---|---|---|---|
| `cmd/continual.go` | cycles completed / processed / in work, expected protocol, what was notified | wait for a cycle, check the protocol, process a period, retry, exit | monitor (channel), locks, generation, preparation, execution |
| `common/cycle_monitor.go` | context, channel, delay | goroutine: fetch the head, send its cycle, sleep; close on a signal | node; continual mode |
| `cmd/a_lock.go` | one file `reports/<cycle>/.lock` per cycle, flocks, a goroutine per cycle | lock with a timeout, unlock | file system, other processes |
| `core/generate` | stages of one cycle's payouts | candidates, bonds, baker's fee, validation, finalization | collector, extensions |
| `core/prepare` | recipes, reports of past payouts | filter by reports, estimate, accumulate, charge fees, check the balance | report files, collector, extensions |
| `core/execute` | batches, their results, the protected section | report, build, record, dispatch, wait, report | report files, transactor, signals |
| `engines/reporter` | `reports/<cycle>/payouts.csv` (and `invalid.csv`, `summary.json`) | rewrite the file of every cycle that has rows; read it | file system |
| `engines/transactor` | an operation: hash, counter, monitor and polling | complete, broadcast, wait for it to apply | node, indexer |
| `engines/collector` | none | cycle, protocol, balance, was an operation applied | node, indexer (which may lag) |
| `utils/os.go` | handlers of SIGINT and SIGTERM | callback, protected section with pause and resume | the runtime |
| `extension` | loaded extensions | load, call a hook with retries, close | other programs |
| `configuration` | none; the validated configuration is passed around | parse, apply defaults, validate | every part |
| signers, notifications, other commands | none that outlives a call | | services, files |

A run of `pay` or a period of `continual` is: lock the cycles, read their
reports, ask the collector about the operations recorded in them, prepare what
is left, execute it, unlock. `continual` repeats this for ever. Signals, the
chain, other processes and the monitor's goroutine act at any time.

What is hard here: the process may die, or lose an answer, between a broadcast
and the report of it; reports are whole files that are rewritten many times;
the collector may not know an operation yet; an operation whose wait was given
up may still apply; lock files are unlinked while others have them open; the
monitor's messages are old when they are taken; a signal closes a channel that
is in use. `PROJECT.json` lists these hazards with their lines.

## Modules

| module | models |
|---|---|
| `PayoutLedger` | abstract: each recipe is paid once, unless the system is allowed to forget it |
| `PayoutExecution` | preparation and execution over many runs, report files, the chain |
| `CycleLock` | the cycle locks of several runs and processes |
| `Continual` | the continual mode with its monitor, the head and signals |
| `PayoutRecipes` | the data: recipes, accumulated payouts, fees, reports, filters, summaries; no state |
| `Configuration` | from the parsed file to the validated runtime configuration; no state |
| `Generation` | the stages that turn a cycle's data into its blueprint, for every cycle of a period |
| `Preparation` | filter, accumulation, balance check, estimation, fees, validation |
| `Batching` | the table to confirm, the split into batches, the summary |
| `PayoutPipeline` | the five above as one run, with what must add up |
| `Extensions` | the store of extensions and the execution of a hook |
| `BatchConfirmation` | the loop over the batches with what runs beside it: signals, the wait, the watcher |
| `PayCommand` | the process of `pay` and of `continual`: the hooks, the payment and the closing, composed of the two above |
| `MC...` | constants for TLC |
| `..._proofs` | theorems about the module of that name |

Each module of the pipeline EXTENDS the one before it: `PayoutRecipes`,
`Configuration`, `Generation`, `Preparation`, `Batching`, `PayoutPipeline`. So do
its proofs: `PayoutRecipes_proofs` (sums, portions, amounts), `Generation_proofs`,
`Preparation_proofs` and `PayoutPipeline_proofs`, which has the theorems. The
same code is seen at three levels. `PayoutExecution` has payouts that are names,
over many runs and crashes; `PayoutPipeline` has one run with its amounts, and
a batch that succeeds or fails; `PayCommand` has one process with its
goroutines, and batches that are numbers.

### PayoutExecution

A state holds the report files (`file`, `torn`), every operation ever built
(`ops`) with the wallet's counter, and what the run has in memory: `todo` and
`batch` are the batches, `report` and `listed` are `batchesResults` together
with `ReportsOfPastSuccesfulPayouts`. A row is reduced to the two fields the
next run looks at, the operation hash and `IsSuccess`; `Blank` is a row with
the zero hash, or none, which the filter treats alike.

`PreparePayouts` is the filter (`FilterRecipesByReports`), with any nonempty
set of the unpaid recipes as the valid ones. The loop of `executePayouts` is
`NextBatch` (partial report), `SkipBatch` / `BuildFails` / `BuildBatch`
(record the batch in advance), `Dispatch...`, `Wait...`; each appends a result.
`ReportPayouts` is a loop of `WriteCycle`, one file at a time, so crashes and
errors come between files; `WriteFails` and `Crash` may leave a file with any of
its rows, empty or unreadable (`Tear`), which takes in every prefix of what
`os.WriteFile` had begun to write. `WaitFails` is a wait that ends although the
operation did not apply, `WaitExpires` one for an operation that was dropped.
`Include` and `Expire` are the chain. One process runs at a time,
which is what `CycleLock` gives for two runs. History variable `exposed` holds
the recipes some run left unrecorded when it ended, although an operation for
them was live.

Faults are named in the constant `Faults`; a run of TLC chooses which can
happen. An interrupted report loses success rows only of the file it was
rewriting, and only rows it was about to write again (`SuccessRowsSurvive`). Left
out: dry runs (they send nothing and report elsewhere),
`--report-to-stdout` (keeps no record), invalid payouts and summaries (written,
never read back), rows of other bakers, chain reorganisations, the shortcut that
asks the collector once per hash.

### CycleLock

A run is a call of `lockCyclesWithTimeout`; `g` is the state of its goroutine
for each cycle, then of the lock it obtained, `fd` the file it has open, `path`
the file at the lock's path. `OpenFile` and `Flock` are two steps, because
another run may unlink the file in between; so are `Close` and `Remove`.
`Timeout` drops the unlock functions but not the goroutines; `Collect` is the
runtime closing their files later; `ProcExit` is any end of a process. Errors of
open and of flock are one action.

### Continual

`pc` is where the main goroutine stands: `loop`, `wait` (for a message),
`check` (the protocol), `process`, `work` (refresh, lock, generate, prepare,
which takes any time) and `pay`. `mon` is where the monitor's goroutine stands:
`fetch`, `send` (blocked until received), `sleep`, `done`. `Start` computes the
cycle to begin with; it and the monitor's creation are one step. The chain is
`Block` and `ChangeProtocol`. `Signal` runs the monitor's callback the first
time; later only the protected section keeps the process alive. A refused
prompt ends the process as `PrepareFails` does. `since`, `known`, `covered`,
`sent` and `again` are history.

Configured delays are positive here (zero makes the monitor choose one itself).

### PayoutPipeline

`stage` names the step that runs next; a step is one function of the code.
Amounts are integers, portions count ten-thousandths (what `GetZPortion`
keeps), and an amount of the configuration counts tenths of a mutez, so that
every rounding of the code is there.

* `LoadConfiguration` takes one of `Sources`, applies the defaults (`Runtime`),
  and then `Validate`, including the panic that passes for success.
* Each cycle of the period runs through `check` (kill switch), `collect`
  (candidates), `distribute` (bonds, with overdelegation, capped and bounded
  balances, and the hook of payout-fa), `fees`, `validate`, `finalize` and
  `blueprint`. `EndCycle` goes to the next one whether or not it failed, as
  `generatePayoutsForCycles` does. What the collector knows (`CycleData`) is
  input.
* `PreparePayouts` filters by what an earlier run may have left (`EarlierRuns`:
  applied, not applied, reported, of another baker), `AccumulatePayouts` groups
  by identifier, `CheckBalanceWithHook` and `CheckBalanceWithCollector` repeat
  with their two counters, `CollectTransactionFees` charges what a simulation
  said (`Costs`), of which any may be refused, `ValidatePreparedPayouts` sorts out
  what became invalid. The hooks `after_payouts_prepared` and
  `after_payouts_accumulated` may fail; an extension that answers with other
  payouts than it was sent is left out, since the code takes whatever it says
  (`0_PreparePayouts.go:118-120`, `1_Accumulate.go:88-90`) and what it says
  need have nothing to do with the recipes. So is a fee buffer other than the
  default of zero.
* `ShowPrepared` is the table the user confirms, `SplitIntoBatches`,
  `SplitNextPayout` and `SplitNextClass` fill the batches, `ExecutePayouts` lets
  each batch succeed or fail and makes the reports and the summary.

Accumulated payouts keep their recipes in the order of cycles, since a fee is
taken from them one after the other; the other collections are sets. Their order
in the code follows the indexer, or none where it comes from a map. Notes are
reduced to the reason that makes a recipe invalid.

### PayCommand

`Extensions` has one record per extension (`ext`: loaded, its stream, how its
initialization ended) and one for the hook being executed (`call`). `LoadExtension`,
`InitExtension`, `SendHook` and `Retry` are the body of `executeHook` for one
extension; `ExtensionDies` breaks a stream at any time.

`BatchConfirmation` has a program counter for each goroutine: `at` for the batch
loop with `WaitForApply`, `section` for the protected section's, `intr` for the
handler of each wait, `poll` for the fallback to the indexer and `watcher` for
each batch's watcher. `Signal` reaches every channel that is subscribed and kills
the process when none is. The chain's and the monitor's steps are shown while
somebody looks (`Watched`); before that they make no difference.

`PayCommand` runs the hooks in the code's order (`HookOrder`), leaves out those
the command does not come to (`skips`), pays, runs the notifications' hook and
closes. `AfterError` is what each command does with an error: `pay` exits,
`continual` starts over, waits or exits, depending on the hook. A path that
leaves through `os.Exit` closes nothing.

Abstractions: the hooks of the generation run once per attempt and not once for
each of its cycles, which are generated one after the other; the loop's
variables start anew with each execution (`LoopInitAgain`), once everything beside
the loop has ended, as it does at once; signals outside the protected section,
which kill `pay` and cancel the monitor of `continual` or make it panic, are left
out here (`Continual` has them).

## What the runs show

| run | shows | bounds |
|---|---|---|
| `payouts` | success rows are true, survive every rewrite that is not interrupted and keep recipes from being sent again; a second payment needs an earlier run that ended without a trace of the first; the runs implement `PayoutLedger`, where only such an end forgets a payment | two cycles, three recipes, two operations, every fault |
| `payouts_reliable` | faults that lose no outcome never lead to a second payment; the runs implement `PayoutLedger` with nothing forgotten; a run ends | the same, harmless faults |
| `payouts_crash` | fails: a crash after the broadcast pays twice | the same, crashes only |
| `locks` | runs overlap on a cycle only after a third removed the lock file; nothing is left behind | three runs, two processes, two cycles, four inodes |
| `locks_live` | each run that does not give up gets its lock | three runs, one cycle |
| `continual` | no cycle early, none skipped, safe mode stops, no notice twice, the end cycle ends the mode | safe mode, the head in five cycles of three blocks, periods of two, an end cycle inside one, three protocols, every fault |
| `continual_live` | every cycle is processed; a signal ends the mode | four cycles, periods of two, no safe mode |
| `offset_doc`, `signal_in_payouts` | fail: see the findings | |
| `pipeline` | a period pays no more than it earned; an error in one cycle stops the payment; no recipe is lost or repeated; fees are charged exactly; the balance that was checked covers them; silent waits are bounded; batches partition the payouts and fit an operation; the summary stays within the earnings and the table equals the reports | four sound configurations and four refused ones, two cycles with five kinds of data, four earlier runs, three balances, two costs |
| `configuration` | fails: a configuration loads whose override has a fee of two | one configuration, same data |
| `pay_command` | nothing is paid without the required extensions; hooks reach initialized extensions; a signal ends the process only during a wait or through the cycle monitor; outcomes follow alerts; success is applied; waits for included operations end, others are alerted | both commands, two extensions, two batches, one signal and one alert each |

The bounds: two operations are the least with which a recipe is paid twice; two
cycles are what it takes for a report to be half written, and two recipes of one
cycle, of which one destination is also paid in the other, let a batch mix
cycles. An overlap of two lock holders needs a third run and no more than one
file each and a spare. Cycles of three blocks let a delay fall inside a cycle;
periods of two leave cycles that end no period, and the head runs over more than
two periods. Three protocols allow a second change after the first was noticed.

In the pipeline, two cycles with a common delegator accumulate; the cycles'
data are a baker within its capacity, one overdelegated, one overdelegated by
its own balance, and one with no balance to divide by. The four configurations
switch on what interacts: shares with donations and balance minimums, a
redirected and capped delegator whose fees the baker pays, tokens as a bonus, and
tokens instead of rewards. The costs are cheap, so that batches fill, or so dear
that payouts become invalid and no batch holds two. Rewards, limits and
buffers are small numbers so that every comparison goes both ways.

In `pay_command` the two extensions differ in everything a definition can say:
one is a server that sees every hook, may decide on one and must not fail; the
other a process without retries whose failure may be ignored. Two batches let a
signal of the first meet the second. One alert suffices since later ones change
nothing; a second signal only repeats the first where a handler is left.

Deadlock is not checked in the runs of the first four modules: a process that is
done, or a chain at the bound, stops. The others stutter explicitly at the end
and check it.

Four runs end in a violation, each of one sentence of the repository. They are
described under `findings` in `PROJECT.json`:

* the row recorded before a broadcast does not prevent double payment after a crash;
* `--interval-trigger-offset` moves the trigger back, not forward;
* a signal during payouts panics the process when the monitor is sending;
* the validation of the configuration stops without an error at an override that
  sets no fee.

### Weaknesses no run reports

What they violate is stated nowhere, or is too simple for a run of its own.

In the model:

* equal delays, which the validation accepts, panic at the start (`StartPanics`);
* a protocol change during the preparation is not seen before the payouts
  (`CheckProtocol` precedes `work`);
* in safe mode, once a change was noticed, the loop no longer waits on the
  monitor, spins, and does not see Ctrl-C (`SignalEndsLoop` is therefore checked
  where changes are ignored);
* a signal during a wait cancels that wait only: it does not set `signaled`, and
  the remaining batches are sent (`Interrupt`);
* between `Pause` and the subscription of the wait's handler, and between its end
  and `Resume`, no handler is left and a signal kills the process, with the row
  recorded under the zero hash. In continual mode the first signal goes to the
  callback of the cycle monitor, so that it never kills, but the monitor panics if
  it is sending, at any point of the payouts. `ProtectedOutsideWaits` says that a
  signal ends the payouts in no other way;
* a signal that comes as a wait ends may be passed over (`Unlisten`);
* an error after the broadcast, when the connection for the wait fails, reports a
  failed batch whose operation is out (`Dispatch`, `DispatchLosesOp`);
* failures and low balances that alternate keep up to twice `NotifyEvery - 1`
  checks in a row silent (`SilentWaitsBounded`; comments speak of every hour);
* an extension whose initialization failed stays loaded and is sent later hooks;
  a load that fails ends the hook whatever `retry` and `error_action` say, a
  `retry` of 0 skips every hook, a tcp extension with a command is started twice
  and never loads, and closing one that loaded panics;
* an override without a fee hides the fee that `fee_overrides` lists for it;
* notificators are never validated: `IsValid` is set nowhere (`base.go:205-218`),
  and `validate.go:88` skips those that lack it (`Validate`). If it were set, a
  valid one would make the message at `validate.go:92` dereference nil;
* `minimum_balance` of an override is looked up by the recipient and not the
  delegator (`MinimumBalanceOf`);
* a payout that the final validation rejects keeps the fees it was charged, while
  one that cannot afford its fees gets them back (`ValidatePrepared`, `WithFees`);
* the income of the zero address counts as a delegator in the summary, and token
  amounts are added to distributed tez (hence `NoTokens`);
* payouts to a recipient that changed between two runs are not taken for paid:
  the identifier holds the recipient.

Seen in the code, not modelled: a minimum delay with an explicit null maximum
dereferences nil (`base.go:138`); `disable_kill_switch` is never copied to the
runtime configuration; shares may be negative, so that others exceed the whole;
a period that reaches cycle 0 generates the last completed cycle instead.

## Fairness

`PayoutExecution!FairSpec`: the process keeps running (weak fairness of its
steps as a whole, `RunStep`) and the chain settles each operation, which is included
or outlives its TTL. The end of a wait for an operation that was dropped
(`WaitExpires`) is no part of `RunStep` and not fair: when the monitor is stuck, the
fallback asks for ever for an operation the indexer never sees. So `RunsEnd` says
that a run ends or stays in just that wait, which `PayCommand` alerts. `CycleLock!FairSpec`: the goroutines of a run and its work go
on; files nothing refers to are closed by the runtime. A goroutine waiting in
flock is not fairly treated against the others: weak fairness suffices because a
holder's close leaves the lock free until one takes it. `Continual!FairSpec`:
both goroutines run and calls are answered; a period that is retried without
end succeeds at some attempt (strong fairness of `Succeed`), as retrying only
makes sense if it can. Blocks, signals, faults and protocol changes are never
fair: cycles may cease, and the property asks only about cycles that came.

`PayCommand!FairSpec`: the Go scheduler runs the batch loop, the fallback and every
watcher and handler (weak fairness, each on its own); the indexer learns of an
operation that was included (weak fairness of `Learn`); and, asked again and
again, it answers once it knows (strong fairness of `PollFinds`, which its failures,
`PollFails`, interrupt). That an operation is included, that the monitor reports
anything and that signals come is not assumed: `WaitEnds` asks only about
operations that were included, and `StuckIsAlerted` about all others.

## What is proved

TLAPS checks every theorem for all values of the constants, from the named
assumptions of the modules: `ConstantsAssumption` of the first three;
`StoreAssumption` (the store is a nonempty sequence, retries are numbers) and
`BatchAssumption` (the bounds are numbers); and for the pipeline
`NotifyAssumption` (a period of notices is positive), `TokenAssumption` (a token
has a price), `CyclesAssumption` (the period names each cycle once),
`DataAssumption` and `BalancesAssumption` (the collector and the node tell no
negative balances, and list a delegator once), `OptionsAssumption`,
`CostsAssumption` and `LimitsAssumption` (gas, bytes, burned amounts and limits
are not negative). TLC evaluates them with every run of the module.

The theorems on the pipeline's amounts have one more hypothesis, `SoundSources`:
no configuration file has a negative share among the recipients of bonds, fees or
donations, nor a negative maximum balance. The code does not guarantee that, as
`validate.go` bounds the sum of the shares and not each of them: shares of -1, 1
and 1 pass, and two recipients are each paid the whole. So it is a
hypothesis of the theorems, where a reader sees it, and not an assumption of the
module; `MCPayoutPipeline` asserts it of the files of its runs.

* `PayoutExecution_proofs`: types; success rows name applied operations; they
  survive all but an interrupted write of a file that already held them; recorded recipes are not sent; two live operations for a recipe
  only if it was exposed; where only harmless faults happen every recipe is paid
  at most once (`PaidOnce`); and the refinement of `PayoutLedger`, for any
  faults (`Refinement`). The invariant is `RecordInv`, `SendInv` and `ReliableInv`:
  what the run has in memory is disjoint (`MemoryInv`), the current operation
  pays the current batch (`CurInv`), rows in memory are as truthful as those in
  the files, every success row of the run's cycles is carried along
  (`CarriedInv`), what is left to send is not live (`SendInv`), and, without
  faults that lose an outcome, all that is live is waited for or remembered by a
  list or a file (`Remembered`), which the last report takes over from the one to
  the other. Without `CarriedInv` a rewrite could lose a row; without `MemoryInv`
  a batch could contain a recipe already recorded; without `Remembered` the end of
  a run could forget one. For the refinement each step is one of four: a broadcast
  is `Send`, an inclusion or expiry `Pay` or `Drop`, the end of a run or a crash
  `Forget` or a stutter, and everything else leaves the ledger alone.
* `CycleLock_proofs`: types; overlap needs a third run; nothing is left behind;
  and, of two runs only, that they exclude each other (`MutualExclusion`). The
  invariant: `RunInv` ties a run's state to its goroutines', `OpenInv` says that
  who waits or holds has the file at the path, unless some run removed that, and
  `FlockInv` that one open file has the flock. Two holders of a cycle thus have
  different files, so one of them lost its file to a run that is past its
  unlocking, which neither is.
* `Continual_proofs`: types; only settled cycles; no cycle skipped; safe mode
  stops; the end cycle ends; no notice is repeated. `MonitorInv` says what the
  message in the channel and the last one taken still are worth, `LoopInv` that
  the loop works on the cycle after the last, and that is completed, `SafeInv` and
  `EndInv` are the two reasons to stop, `CoverInv` says that an uncovered cycle
  waits for the end of its period, and `NoticeInv` that the two variables that
  remember the last notices suffice, because cycles and protocols only grow. The
  step of `CoverInv` needs that a period end is preceded by another one `Interval`
  cycles before, which is arithmetic of remainders (`MultipleBefore`).
* `PayoutPipeline_proofs`: types and all ten safety properties of `pipeline`. An
  error stops the payment (an invariant of the stages and of `todo`); silent waits
  are bounded, by a bound that each counter gives up as it counts (`SilentInv`,
  `SilentOf`); the batches partition the payouts and mix only what they may. For
  that `SplitInv` says that what is in the queue, in the open batch and in the
  batches is disjoint and all there, and that the classes still in the queue are
  apart (`QueueOfClasses`). The properties of amounts rest on one inductive
  invariant, `RunInv`, which TLC checked on the constants of `pipeline` before it
  was proved:
  * `GenInv` follows the money of a cycle through the generation. `MoneyInv` says at
    every stage that the candidates' rewards and the income taken so far are within
    `Earned`, which an overdelegated baker, caps and excluded balances only lower;
    `WithinTotals` carries that to the recipes, where `FinalizeRecipes` divides bonds,
    fees and donations by shares that round down (`PortionBounds`); `BlueprintsInv`
    adds that no cycle has two blueprints and no two recipes are of one payout.
  * `PrepInv` follows the recipes. `Accounted` says that those paid before, due
    and invalid are all of the blueprints', each once, and never more than there:
    accumulating regroups them (`AccumulatedIs`), a refusal or a fee above the
    reward moves them. `Charged` relates a payout to the recipes it was made of.
    `CoverInv` says that the balance covers what is sent with a buffer for each
    payout, which charging fees keeps, for the fees are taken from the rewards or
    are below the buffer.
  * `ConfirmedReported` and `SummaryWithin` then compare sums over different sets:
    the table's rows, the recipes and the reports are matched one to one by the
    payout they name (`Matches`, `SumMatched`), and a report of a cycle's summary is
    of a recipe of that cycle's blueprint (`RecipeReported`), so that the sums of the
    summary are bounded by the totals of the blueprints. `BatchesFit` needs that a
    batch keeps a reserve and that the first transfer's share of the deserialization
    is counted once (`FitInv`).
* `PayoutRecipes_proofs` has what all of that uses of sums: taking out an element,
  union, image, order, parts and shares. The induction theorems of the library
  take an operator as a parameter, which the provers cannot instantiate. The
  lemmas instead take the set of the subsets that are `Good`, or the least bad one,
  by the well-founded order on the subsets of a finite set, and first show that the
  library's fold solves its recursion (`SolutionExists`).
* `PayCommand_proofs`: types and all five safety properties of `pay_command`.
  `LoopInv` ties the loop's place to the section, the wait and the watchers, from
  which `Protected` follows for both commands, with the panic of the monitor;
  `AppliedInv` follows the outcome from the chain to the indexer's answer, the
  monitor's and the result; `NoticesInv` says that the notices of a batch are alerts
  until its watcher stopped and that one without a result was not told the outcome;
  `ExtInv` that an open stream without initialization is about to be initialized;
  `CallInv` and `StageInv` that the extensions that answered so far, and the
  hooks passed so far, leave none out that was asked for.

Only model-checked: liveness (`RunsEnd`, `EveryRunGetsItsTurn`,
`EveryCycleProcessed`, `SignalEndsLoop`, `WaitEnds`, `StuckIsAlerted`), which is
out of the prover's reach, as is `ENABLED`. No module has a recursive operator; sums
are folds of the library, and the order of the recipes in an accumulated payout is
defined by rank (`InOrderOfCycles`) and not by a fold, so that it can be reasoned
about.

## Plan

Done, in this order: payouts, locks and the continual mode, being what loses or
duplicates money; the pipeline from the configuration to the summary; the process
with its extensions, signals, wait and watcher; the theorems on each of them,
those on amounts last.

1. `ConcurrentRuns`: `CycleLock` composed with `PayoutExecution`, to see what an
   overlap of runs does to the reports.
2. The dry run, and the files of invalid payouts and summaries.
3. Theorems on `Runtime` and `Validate` beyond what `SoundSources` needs, such as
   which files pass unseen behind an override without a fee.
4. The choice of the cycles of `pay` by date, and the reading of a generated
   blueprint from a file.

## Not modelled

* Key handling and signatures, notification services, printing, logging: calls
  without a state of their own, whose failure is an action where the code reacts
  to it.
* Parsing and migration of configurations, the seeds of other tools, the import:
  translations from one format of a file to another.
* Other commands: single calls of the engines, interactive use, tests of a setup.
* payout-fixer and the example extensions: programs of their own, which speak the
  protocol `Extensions` models; of payout-fa the effect on the rewards is modelled.
* The chain's reorganisations, and simulations and limits as the node computes them:
  inputs.
