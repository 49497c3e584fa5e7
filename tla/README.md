# TLA+ models of smirror

This directory holds TLA+ models of smirror's cron coordinator, its rule set, the event entry point `Fn` and the completion actions of a job, with TLC configurations that check them and TLAPS proofs about them. The cron coordinator mirrors recently modified objects between buckets on a schedule. The rule set is the hot-reloaded list of mirroring rules. `Fn` mirrors the object named by one storage event, and the platform redelivers the event when `Fn` fails.

## The system

The sources under `src/` are concatenations of several Go files:

| Part | Source | What it does |
|---|---|---|
| Cron coordinator, revision 2 | `src/unnamed/part_001` | `Tick` reloads the rules, then walks them. For each rule, `processResource` lists the candidates (recursive `appendResources` with the modification-time matcher). `meta.Service.PendingResources` filters the ones already in the ledger. `notifyAll` pushes the pending objects into a buffered `queue` served by a pool of `Limit = 50` goroutines. Each goroutine calls `notify` (a `proxy.Proxy` copy, or a move) and sends its error on `errorChannel`. `waitGroup.Wait` follows, then the channel is drained and the first error is returned. Only when every call succeeded does `AddProcessed` record the batch in the ledger. |
| Rule set | `src/unnamed/part_000` lines 51-153 | `config.Resources`. `Init` runs `initRules` once (a compare-and-swap on `inited`), makes a `base.Meta` watcher and loads. `ReloadIfNeeded` asks the watcher and reloads when it reports a change. `loadAllResources` resets `Rules` to `initialRules` and appends the rules of every `*.json` file under `BaseURL`, returning on the first error. |
| Cron coordinator, revisions 1 and 3 | `src/unnamed/part_000` 153-355, `src/unnamed/part_002` | A trigger-based variant. It starts one goroutine per object, returns on the first error without waiting for the others, and lists candidates without the modification-time matcher. |
| `contract.Response` | `part_000` 1-50 | A result record whose `AddURL` appends under a mutex. |
| `Fn`, `fn` | `src/fn.go` 17-59 | The cloud-function entry point. `fn` builds the service from the `CONFIG` environment variable, calls `Mirror` once, and returns an error when the configuration fails or `response.Error` is set. `Fn` wraps that error with the event's URL. |
| `job.Actions.Run` | `src/fn.go` 60-90 | The completion of a job. It runs `OnSuccess`, or `OnFailure` when the job's context holds an error. Each action's `Do` runs, followed on the failure path by `WriteError`, and the first failing call ends the run. |

The ledger (`meta.Service`), the metadata watcher (`base.Meta`), the proxy, the matcher and the secret facade are not under `src/`. The models take their behaviour from `spec.md`, and PROJECT.json marks those definitions `spec_modelled`.

How the parts interact:
- A tick of the coordinator first calls `Resources.ReloadIfNeeded`. If that or `UpdateSecrets` fails, the tick ends.
- The coordinator reads the rule list only after the reload.
- Each rule's objects go through the ledger, which is shared by all rules.
- A proxy call of one rule can move (delete) a source object that another rule is about to copy.

## Modules

**`CronService.tla`** models revision 2 (part_001).

Constants:
- `Names`: object names.
- `NRules` rules, each with a `Match` set of names.
- `Move`: the rules that move rather than copy.
- `Limit`: the pool size.
- `TimeWindow`.
- `MaxTime`: the bound on the clock.

State:

| Variable | What it models |
|---|---|
| `store` | The source bucket: the version (mtime) of each name, or `Absent`. |
| `ledger` | Fingerprint records `<<name, version>>`, each stamped with the time of `AddProcessed`. |
| `pc`, `ri` | Where `tick` is: idle, listing rule `ri`, or inside `notifyAll`. |
| `pending`, `queue` | The pending objects and the closed queue channel, an unordered set. |
| `wjob`, `wst` | Each pool goroutine's object and phase: idle, in the proxy call, or holding an ok/err result to send. |
| `results` | The contents of `errorChannel`. |
| `copied`, `recopied`, `processed` | History: the latest version each rule copied, the recorded versions that were copied again, and everything ever recorded. |

Each action corresponds to code:

| Action | Code |
|---|---|
| `TickStart` | Lines 38-55: the reload or the secrets can fail. |
| `ProcessResource` | Lines 75-86: the listing uses `Candidates` (lines 151-188, with `ModifiedAfter` as the matcher); the ledger read can fail; nothing pending moves on to the next rule. |
| `Take` | Receiving from `queue`. |
| `Notify` | `notify`, lines 97-117. The proxy copies the object's *current* version and deletes it on a move. On error the copy, and the delete, may or may not have happened. |
| `Send` | `errorChannel <- err`. It blocks while the channel is full, with capacity `ErrCapacity`. |
| `Collect` | `waitGroup.Wait`, the drain and `AddProcessed`, which can fail. |
| `TickDone` | The end of the rule loop. |

The environment has two actions: `Advance` moves the clock and re-arms the scheduler, and `Upload` writes a new version.

**`RuleSet.tla`** models `config.Resources` (part_000 51-153).

The content of a rule file is abstracted to a version, and the rules decoded from file `f` at version `v` are one token `<<f, v>>`. `Seed` is the configuration's rule list.

`Listed` is what `fs.List` returns: the existing files in listing order. It is written by counting: `ListedCount(i)` is how many of the first `i` files exist, and the k-th listed file is the existing one whose count is k. It is not written as a `SelectSeq` over `FileOrder`, whose recursive definition the provers cannot unfold.

`LoadOutcomes` gives every result `loadAllResources` can return:
- an `Exists` or `List` error;
- no files;
- a `Download` error at any file, or a decode error at the first corrupt file, each with the files before it appended;
- success.

`ResourcesInit` models `Init`. Only its successful outcomes are kept, because an error there is fatal in `cron.New`. `ReloadIfNeeded` caches the files' state before it loads, as `base.Meta.HasChanged` does, and `HasChangedFails` is the watcher's listing error. The environment writes, corrupts and deletes files.

**`CronServiceLegacy.tla`** models the trigger-based revision, part_002. The first revision in part_000 has the same tick, `notifyAll` and listing.

What differs from revision 2:
- `Candidates` has no time matcher.
- `ProcessResource` starts one goroutine per pending object, numbered by batch, and a channel of `ErrCapacity` slots.
- A goroutine's `Trigger` calls `dest.Trigger`; on an error the invocation may or may not have gone out.
- `Send` blocks unless the buffer has room, or unless the channel is unbuffered and `notifyAll` waits on it (`CanSend`).
- `Receive` takes results until the first error, which ends the tick at once. Goroutines of that batch keep running, and their channel stays in `chans`. After the last result comes `AddProcessed`.

`RuleSet` also has `LiveSpec`, which adds `ReloadFairness`:
- `ReloadIfNeeded` runs again and again, because every tick calls it.
- A reload that could load the files without error eventually does, because the errors of `Exists`, `List` and `Download` are transient.

**`CompletionSpec.tla`** is the contract of a job's completion, whatever the code. A run takes one of the `Plans`, and the successful calls (`done`) grow along it in order (`Progress`). The run then either stops with an error (`Fail`) or reports success with the whole plan done.

**`CompletionActions.tla`** models `job.Actions.Run` (`src/fn.go` 60-90).
- `Start(x, e)` is a call on the receiver `x`, any rule's `Actions` value, with `context.Error != nil` equal to `e`. `Chosen` picks the list, and an empty list returns nil at once.
- `Do` and `Write` are one call each. Each either appends `<<action, kind>>` to `done` or returns an error. `NextAction` moves to the next action, or returns nil after the last.
- `Plan(l, e)` is the sequence of calls a run should make: each `Do`, followed by a `WriteError` on the failure path.
- `Abstract == INSTANCE CompletionSpec WITH ...` maps `plan` to `Plan(Chosen(c, isError), isError)` and `busy` to `pc # "idle"`. `RefinesCompletionSpec` is `Abstract!Spec`.

**`FnEntry.tla`** models `Fn` and `fn` (`src/fn.go` 17-59) under redelivery.
- One event names a source object that the rule mirrors to `Dests`.
- `Fn` is one delivery. `NewFromEnv` may fail. `MirrorResponse(S)` is the response of `Mirror` when the writes to `S` succeed. It is taken from the spec's error taxonomy, since `Mirror` is not under `src/`:
  - a vanished source gives status ok with `NotFoundError`;
  - an invalid payload gives status error with `SchemaError` and no `Error`;
  - a failed destination sets `Error`.
- `FnError` is `fn`'s test: the configuration failed, or `response.Error != ""`.
- `Platform` acknowledges the event after nil, and otherwise redelivers it up to `MaxAttempts` times. `Delete` removes the source.
- Once the event is acknowledged or dropped, nothing is left to do, so `MC_FnEntry.cfg` sets `CHECK_DEADLOCK FALSE`.

**`CronServiceProofs.tla`**, **`CronServiceWindowProofs.tla`**, **`RuleSetProofs.tla`**, **`CronServiceLegacyProofs.tla`**, **`CompletionActionsProofs.tla`** and **`FnEntryProofs.tla`** hold the TLAPS proofs. **`MC_CronService.tla`** and **`MC_RuleSet.tla`** give the model values for TLC.

## Runs

| Run | Config | Checks | Result |
|---|---|---|---|
| `cron_safety` | `MC_CronService.cfg` | `TypeOK`, `LedgerSound`, `NoCopyAfterRecord` | pass, about 3.1M distinct states, under 1 minute |
| `cron_notify_liveness` | `MC_CronService_live.cfg` | `NotifyAllReturns` | pass, about 0.2M states |
| `cron_overlapping_rules` | `MC_CronService_overlap.cfg` | `ProcessedPerRule` | violation (finding) |
| `legacy_safety_liveness` | `MC_CronServiceLegacy.cfg` | `TypeOK`, `RecordedWasTriggered`, `NoGoroutineLeak` | pass, 247,490 states, about 1 minute |
| `legacy_no_time_window` | `MC_CronServiceLegacy_window.cfg` | `NoRetriggerAfterRecord` | violation (finding) |
| `ruleset_safety` | `MC_RuleSet.cfg` | `TypeOK`, `SeedThenFiles`, `ReloadInstallsAll` | pass, 2,686 states |
| `ruleset_snapshot_on_error` | `MC_RuleSet_snapshot.cfg` | `SnapshotKeptOnFailedReload` | violation (finding) |
| `ruleset_reload_not_retried` | `MC_RuleSet_reload.cfg` | `FilesEventuallyLoaded` | violation (finding) |
| `completion_refinement` | `MC_CompletionActions.cfg` | `TypeOK`, `RefinesCompletionSpec` | pass, 396 states |
| `fn_entry_redelivery` | `MC_FnEntry.cfg` | `AckedMeansMirrored`, `NoRetryOnTerminal` | pass, 138 states |

- **`LedgerSound`**: every ledger record names a version that some rule copied. It would fail if a failed proxy call could still lead to `AddProcessed` (see the mutant `NoErrorIgnored`). It also covers a worker that copies a newer version than the one listed.
- **`NoCopyAfterRecord`**: no version is copied again after the ledger recorded it. This holds because the listing window (`now - TimeWindow`) is shorter than the ledger's retention (`2 * TimeWindow`). Without the modification-time matcher it fails; that is the mutant `ModifiedAfterDropped`, and it is exactly what revisions 1 and 3 do.
- **`NotifyAllReturns`**: `notifyAll` always returns. An `errorChannel` one slot short deadlocks the pool before `waitGroup.Wait` (mutant `ErrCapacityShort`).
- **`ProcessedPerRule`**: the spec's testable property 7, that an object listed by overlapping rules "is processed per-rule but only fingerprinted once per tick". TLC violates it in 10 steps:
  1. Rule 1 copies `n2` and records it.
  2. Rule 2, the move rule, lists `n2`.
  3. `PendingResources` drops `n2` because the ledger is shared and keyed by fingerprint.
  4. The tick ends without error, and `n2` is never moved.
- **`RecordedWasTriggered`**: in the legacy revision, every ledger record was triggered. Ignoring a received error breaks it (mutant `ResultOkIgnored`).
- **`NoGoroutineLeak`**: `notifyAll` returns at the first error without reading the other results. Every goroutine still sends and ends, because the channel has one slot per object. An unbuffered channel leaves them blocked for ever (mutant `ErrCapacityUnbuffered`).
- **`NoRetriggerAfterRecord`**: the spec's tick protocol filters the listing by `[now - W, oo)`. The legacy revisions do not, and `addLastModifiedTimeMatcher` is defined but never called. TLC dispatches a recorded, unchanged object again once its record is older than `2W`. The shortest trace stretches one slow tick over three clock steps between its two rules.
- **`SeedThenFiles`**: the rule set is always the seed once, followed by the rules of distinct files. This needs `Init` to run twice, as `cron.New` does. Without the compare-and-swap the loaded rules become the seed and every reload appends them again (mutant `InitRulesNoCAS`).
- **`ReloadInstallsAll`**: a reload that reports "reloaded" installs the initial rules followed by the decoded rules of every listed file, in listing order. This is the success side of the spec's load policy (the new snapshot is the initial rules followed by the concatenation of the decoded arrays). If `loadAllResources` lost the error of a failed file, a partial load would be reported as a reload (mutant `LoadOutcomesErrorDropped`).
- **`SnapshotKeptOnFailedReload`**: the spec's load policy, "on any decode error the snapshot is rejected and the previous snapshot remains active". TLC violates it in 3 steps:
  1. File `f1` is written.
  2. `Init` loads it: the rules are the seed followed by `f1`'s rules.
  3. The next reload sees the change (the watcher was fresh at `Init`) and hits an `Exists` or `List` error. The active rules are now the seed alone.

  Since `HasChanged` has already cached the new state, later ticks keep running on that rule set until a file changes again.
- **`FilesEventuallyLoaded`**: the spec classes `Exists`, `List` and `Download` failures as transient, retried by the next tick. So, once the rule files stop changing and all decode, the rule set should eventually be the seed followed by every file's rules. The property assumes `Init` eventually stops, as it does once `cron.New` has returned. It is checked under `ReloadFairness`. TLC violates it:
  1. File `f1` is written.
  2. `Init` loads it.
  3. The first reload sees the change and fails. `HasChanged` has already cached the new state.
  4. Every later `ReloadIfNeeded` reports "unchanged", and the rule set stays the seed alone although `f1` decodes.

  The cause is the order in `ReloadIfNeeded` (`part_000:95-99`): `HasChanged` caches before `loadAndInit` runs, and nothing tells the watcher that the load failed.
- **`RefinesCompletionSpec`**: `Run` implements `CompletionSpec`. Its successful calls follow the plan in order, it stops at the first failure, and it returns nil only after every `Do` and every `WriteError` returned nil. The mutant `WritesErrorNever` breaks it: on the failure path `Run` then returns nil with no error written.
- **`TypeOK`** (completion): while `Run` runs, its index stays within the chosen list. Testing the loop's end one action late breaks it (mutant `LastActionOffByOne`).
- **`AckedMeansMirrored`**: the platform acknowledges an event only once every destination has been written by some delivery, or when the source was gone or its payload invalid. A partial destination failure is redelivered, never acknowledged. If `fn` ignored the response, the event would be acknowledged after a partial failure (mutant `FnErrorIgnoresResponse`).
- **`NoRetryOnTerminal`**: the spec says not-found and schema errors are not retried. This holds because `fn` tests `Error`, not `Status`: a schema error has status error but no `Error`. Testing `Status` instead makes the platform redeliver an invalid payload (mutant `FnErrorOnStatus`).

**Bounds.** The cron runs use two names, two rules with overlapping `Match` (rule 2 moves), a pool of `Limit = 2`, `TimeWindow = 1` and `MaxTime = 3`.
- With these bounds a record can be pruned while its object is still stored: retention is 2, over 4 instants.
- Two workers run proxy calls concurrently, and one rule's move races the other rule's listing.
- A third worker adds only permutations of the same results.
- The liveness run uses `MaxTime = 2` to keep the temporal check small.

The legacy runs use the same names and rules, with at most two `notifyAll` batches. That is enough for a batch abandoned at its first error while its other goroutine still runs, beside a later batch. The passing run uses `MaxTime = 2`; the window run needs `MaxTime = 3`, so that a record made at time 0 can be pruned.

The completion run gives the receiver every pair of lists over two actions with at most two entries each, including empty lists and a repeated action. A run can therefore fail at every call of either path, and `Start` meets both the empty and the non-empty case. Longer lists only repeat the loop's step.

The `Fn` run uses two destinations, so that one delivery can write one and fail the other, and `MaxAttempts = 3`, so that partial writes of two deliveries can add up before a third.

The rule-set run uses two files in listing order, one seed rule and two writes per file. That is enough for a failure at the second file after the first has loaded, and for two `Init` calls around a reload.

**Fairness.** Weak fairness is assumed only for the steps of a running tick: `ProcessResource`, `TickDone`, `Collect`, and each worker's `Take`, `Notify` and `Send`. Goroutines are scheduled, and each proxy call carries the tick's context, so it returns. The clock, the uploads and the scheduler are not required to act. The cron configs set `CHECK_DEADLOCK FALSE` because the clock is bounded: once `now = MaxTime`, an idle coordinator has nothing left to do. In the legacy model, fairness is weak fairness of `ProcessResource`, `TickDone`, `Receive`, and each goroutine's step (`GoStep`: trigger or send). A goroutine blocked on a full channel is not enabled, so fairness cannot hide a leak.

## Proofs

`CronServiceProofs.tla` proves three theorems for all values of the constants, assuming `ConstantsAssumption`: `NRules` a natural number, `Match` mapping each rule to a subset of `Names`, `Move` a set of rules, `Limit >= 1`, `TimeWindow >= 1` and `MaxTime` a natural number.
- `IInvariant`: `Spec => []IInv`.
- `TypeCorrect`: `Spec => []TypeOK`.
- `LedgerSoundness`: `Spec => []LedgerSound`.

`LedgerSound` is not inductive on its own: `Collect` records the whole pending set, so the proof must know that every pending object already reported ok. `IInv` adds the following conjuncts:
- `WorkersHoldJobs`: a busy worker holds a fingerprint.
- `PoolQuiet`: outside `notifyAll` every worker is idle.
- `PendingAccounted`: each pending object is in the queue, with a worker, or among the results.
- `OkMeansCopied`: every ok result, and every worker holding ok, has its version delivered.
- `NotYetCalled` and `SourceClock`: versions are never newer than the clock, and the store never goes back below a queued version.

TLC checked `IInv` as an invariant of `cron_safety` before it was proved. The proof has one lemma per action and one step per conjunct that the action can disturb.

Not proved, and checked by TLC only:
- `NotifyAllReturns` (liveness under fairness is out of TLAPS's reach).
- `NoGoroutineLeak` (also liveness).

`CronServiceWindowProofs.tla` extends `CronServiceProofs` and proves, under the same `ConstantsAssumption`:
- `WindowInvariant`: `Spec => [](IInv /\ RInv)`.
- `NoRecopy`: `Spec => []NoCopyAfterRecord`. No proxy call copies a version that `AddProcessed` has recorded.

`NoCopyAfterRecord` is not inductive: whether a copy repeats depends on the ledger, the clock and the uploads in between. `RInv` adds these conjuncts:
- `RecordKept`: a recorded version keeps a ledger record written no earlier than its mtime, unless the version is older than the retention horizon.
- `ProcessedClock`: no recorded version is newer than the clock.
- `QueuePending`, `JobsPending`: the queue and the workers hold pending objects.
- `PendingNotOlder`, `CurrentNotProcessed`: inside `notifyAll`, the current version of a pending object, which is what the proxy copies, is not recorded.
- `RecordedNowCurrent`, `NoRecordNowPending`: a version recorded at the current clock value is still current, and no pending object has one. Without these, an upload in the same clock unit as a record would recreate a recorded fingerprint.

The lemma `PendingNotRecorded` carries the argument. A version that `processResource` finds pending was modified after `now - TimeWindow`. A record kept for it has `at >= mtime > now - 2 * TimeWindow`, so the version would be `Known`. A pruned record means the version is older than `now - 2 * TimeWindow`, so it would not be listed. The proof uses only `TimeWindow >= 0` and the factor 2 of `meta.New`. TLC checked `IInv /\ RInv` on the `cron_safety` instance (3,060,066 states) before it was proved.

`CompletionActionsProofs.tla` proves two theorems for every set of actions and every set `Completions` of rule configurations (`CompletionAssumption`: each configuration is a record of two sequences of actions, and there is at least one):
- `TypeCorrect`: `Spec => []TypeOK`.
- `Refinement`: `Spec => RefinesCompletionSpec`, that is, `job.Actions.Run` implements `CompletionSpec`.

The inductive invariant `IInv` says three things:
- `done` is a prefix of `RunPlan`.
- Its length is fixed by the loop's position: `2(i - 1)` or `i - 1` before a `Do`, and `2i - 1` before a `WriteError`.
- A run in progress has returned nothing, and a run that returned nil has done the whole plan.

The lemma `PlanFacts` gives the plan's length and its element at each position. `NextCall` then shows that the call the loop makes next is the plan's element at `Len(done) + 1`. The refinement proof maps:
- `Start` to `Begin`;
- a call that returned nil to `Progress` (`SuccessRefines`; `CompleteIffIdle` shows the plan is complete exactly when `Run` returns);
- a failing call to `Fail`.

TLC checked `IInv` on the completion run before it was proved.

`FnEntryProofs.tla` proves two theorems for every non-empty set of destinations and every `MaxAttempts >= 1` (`FnEntryAssumption`):
- `AckedMirrored`: `Spec => []AckedMeansMirrored`.
- `NoTerminalRetry`: `Spec => NoRetryOnTerminal`, an action property.

`AckedMeansMirrored` is not inductive on its own. The platform acknowledges whenever `Fn` returned nil, so the invariant must also say what a nil return means. `IInv` adds two conjuncts:
- `ReturnedNilMirrored`: a nil return of `Fn` means every destination was written, or the source was gone or its payload invalid.
- `TerminalIsNil`: after a not-found or schema outcome, `Fn` returned nil.

`TerminalIsNil` also yields `NoRetryOnTerminal`. A redelivery happens only after an error, and no error follows those outcomes. The lemma `MirrorFacts` states what `fn` can learn from the response of `Mirror`. TLC checked `IInv` on `fn_entry_redelivery` before it was proved.

The proof found one defect in the model. The `CASE` arms of `Platform` and `MirrorResponse` overlapped: `~fnErr` and `attempts < MaxAttempts` can both hold. TLC takes the first true arm, but TLA+ gives an arbitrary choice among the true arms, so the proof could not fix which status follows. The guards now mirror the code's `if`/`else` order and are disjoint (`fnErr /\ attempts < MaxAttempts`, `exists /\ ~valid`). TLC's results are unchanged.

`RuleSetProofs.tla` proves three theorems for every set of rule files, every listing order and every seed. It assumes `RuleSetAssumption`: `FileOrder` lists every file once, `Seed` is a sequence of distinct rules that are not file tokens, and `MaxVer >= 1`.
- `TypeCorrect`: `Spec => []TypeOK`.
- `SeedFirst`: `Spec => []SeedThenFiles`.
- `ReloadLoadsAll`: `Spec => ReloadInstallsAll`. This is an action property: a reload that ends with "reloaded" installs `initialRules` followed by the decoded rules of every listed file. The lemma `LoadSuccess` shows that the only error-free outcome of `loadAllResources` is the complete load. Since `InitialIsSeed` holds, the new rules are then the seed followed by all files. The mutant that drops the error flag of a failed file breaks it.

`SeedThenFiles` is not inductive on its own, because a load starts from `r.initialRules`. `IInv` adds two conjuncts:
- `InitialIsSeed`: once `Init` has run, `initialRules` is the seed. The compare-and-swap of `initRules` is what keeps it so.
- `SeedBeforeInit`: before the first `Init`, `rules` is still the seed.

The proof rests on three lemmas about what a load produces:
- `ListedFacts`: `Listed` is a sequence of distinct existing files.
- `LoadShape`: every outcome of `loadAllResources` is the initial rules followed by the rules of the first k listed files, for some k.
- `SeedLoaded`: the seed followed by those rules has the shape `SeedThenFiles` asks for.

`ListedFacts` is induction over the listing. It uses no operator-parameter induction theorem. Instead, the lemma `LeastNat` derives the least-number principle from `WFMin` and `NatLessThanWellFounded`, which take sets, not operators. `ListedIndex` applies it to the first position whose count reaches k. By `CountStep`, that position adds one to the count, so its file exists. TLC checked `IInv` on three files and two seed rules (68,590 states) before it was proved.

`SnapshotKeptOnFailedReload` is violated by the code, which is a finding. `FilesEventuallyLoaded` is liveness, out of TLAPS's reach, and stays with TLC.

`CronServiceLegacyProofs.tla` proves two theorems for every finite set of object names, rule set, time window and bound on batches (`LegacyAssumption`; `Names` is finite because a bucket listing is, which makes `len(objects)` a number):
- `TypeCorrect`: `Spec => []TypeOK`.
- `RecordedTriggered`: `Spec => []RecordedWasTriggered`.

`RecordedWasTriggered` is not inductive on its own. `processResource` records the whole pending set after the last ok, so the proof must know that the last ok really was the last result, and that no error is still to come. `IInv` adds these conjuncts:
- `NotifyCount`: inside `notifyAll`, `left` equals the number of pending objects whose goroutine has not ended (`LiveObjects`) plus the results buffered in the batch's channel.
- `OneGoroutinePerObject`, `BatchesBounded` and `FreshChans`: a batch has one goroutine per object, and no goroutine or buffered result belongs to a later batch. With these, a new batch starts with `left` equal to its number of objects.
- `OkTriggered`: a goroutine whose `dest.Trigger` returned nil has triggered its object.
- `PendingTracked`: a pending object not yet triggered still has a goroutine that will send an error, or an error waits in the channel.

When `notifyAll` receives an ok with `left = 1`, `NotifyCount` says no goroutine of the batch is live and nothing else is buffered. `PendingTracked` then says every pending object was triggered. Goroutines of earlier, abandoned batches never disturb this, because their results go to their own channels. TLC checked `IInv` on `legacy_safety_liveness` (247,490 states) before it was proved. `NoGoroutineLeak` is liveness and stays with TLC.

## Not modelled yet, and the plan

- **`CronWithRules`**: compose `CronService` with `RuleSet`, so that a tick reads the rules `ReloadIfNeeded` left. This is where a failed reload's partial rule set drives later ticks.
- **Left out for good**:
  - the logging of `Fn` (`isFnLoggingEnabled`) and the wording of its errors;
  - `Response.AddURL`, an append under a lock;
  - the proxy, matcher and secret internals, and `Action.Do` itself, which are not under `src/`.
