# TLA+ models of the livepeer eth client and segment transcoder

This directory holds TLA+ models of the code under `src/`, the TLC
configurations that check them, and `PROJECT.json`, which maps every model
definition to the source lines it translates. It also lists the runs, mutants,
findings and hazards.

## 1. Inventory

The repository has four source files:

* `src/unnamed/part_000` is package `eth`, the Go client for the Livepeer
  contracts (`eth.Client`).
* `src/core/transcoder.go` is the local and Nvidia segment transcoders and
  the capability probe.
* `src/unnamed/part_001` and `src/.github/workflows/mac.yml` are GitHub
  Actions workflows (CI only).

### Components, their state and operations

| Component | Code | State it keeps | Operations |
|---|---|---|---|
| ContractRegistry | `NewClient`, `SetManagers` (part_000 86-193) | `Client` fields `bondingManagerAddr`, `jobsManagerAddr`, `roundsManagerAddr` and the three `*Session`s | one registry lookup per role; each field is assigned as soon as its lookup succeeds |
| TransactionOrchestrator | `InitializeRound`, `Transcoder`, `Reward`, `Job`, `ClaimWork`, `Verify`, `DistributeFees`, `Transfer`, `WaitForReceipt` (294-351, 396-423, 468-611, 789-810) | per call: a goroutine, two unbuffered channels `outRes`/`outErr`, the `tx` | dispatch through the contract session (which picks the nonce), then poll `TransactionReceipt` once per second, classify by `gasUsed == gas`, send one value, close both channels |
| ApprovalChain | `Approve`, `SubscribeToApproval`, `Bond`, `Deposit` (353-394, 425-466, 613-669) | per call: a log subscription and its channel, Approve's goroutine and channels, Bond's goroutine, channels and timer | subscribe to `Approval` logs, dispatch `approve`, forward the first log; Bond/Deposit wait for it (or an error, or the event timer) and then dispatch the dependent transaction and `WaitForReceipt` |
| EventWatcher | `SubscribeToJobEvent`, `WatchEvent` (219-252) | a timer; the caller's log channel | return the first log that is not `Removed`, or time out |
| ReadAccessors | `RoundInfo`, `CurrentRoundInitialized`, `IsActiveTranscoder`, `TranscoderStake`, `ProtocolTimeParams`, `GetJob`, `TokenBalance`, ... | none | sequences of RPC reads returning the first error |
| AccountSigning | `NewTransactOptsForAccount`, `SignSegmentHash` | keystore | key export and signing |
| SegmentTranscoder | `LocalTranscoder.Transcode`, `NvidiaTranscoder.Transcode`, `resToTranscodeData`, `recoverFromPanic`, option builders (transcoder.go 41-116, 305-410) | temporary output files `out_*.tempfile` and `.bin` signatures in the work dir | run ffmpeg, read and delete every output, recover a panic into `UnrecoverableError` |
| CapabilityProbe | `forEachTranscoderSample`, `TestTranscoderCapabilities`, `TestSoftwareTranscoderCapabilities` (146-286) | the capability list, `fatalError`, `runRestrictedSessionTest`, one shared test-segment file | for each capability: decode and write its test segment, transcode on every device, collect the supported ones |
| WindowsBuildWorkflow | part_001 | | CI build |

### How the components interact

A caller calls a `Client` method and gets `(<-chan Receipt, <-chan error)`.
It selects on both channels. The method's goroutine uses the contract
sessions that `SetManagers` built. Those sessions share one
`bind.TransactOpts`, which takes each nonce from the node's pending nonce.
Bond and Deposit call `Approve` synchronously before they start their own
goroutine. Approve's goroutine hands the first Approval log over an
unbuffered channel. The chain is the environment: it includes or drops
transactions, emits logs, and marks logs `Removed` on a reorg. The
transcoder side is independent of the eth client: its environment is ffmpeg
and the file system.

### What is hard

* **Concurrency.** Operations from one account run at the same time and race
  for nonces. Approve's goroutine, Bond's goroutine, the subscription's
  producer and the timer all interleave over unbuffered channels.
* **Failure.** Any of these can fail: dispatch, a receipt read, the
  subscription, or an ffmpeg output read. Panics inside ffmpeg can also
  happen.
* **Ordering.** The dependent transaction must come after the Approval log.
  Logs can be retracted (`Removed`).
* **Timeouts.** There is the receipt loop and its `eventTimeout`, Bond's
  event timer, and WatchEvent's timer. A late log can race a timer that has
  already fired.

### What makes each component correct

* TransactionOrchestrator:
  * Each operation resolves exactly once.
  * A receipt is only reported for the operation's own mined transaction.
  * No channel is closed before its value is delivered.
  * The wait ends within `eventTimeout` plus one interval.
  * A result arrives once the transaction is mined.
* ApprovalChain:
  * The dependent transaction is dispatched only after a non-removed
    Approval log (I2).
  * Every call eventually returns and resolves exactly once.
  * No send on a closed channel, and no goroutine is left blocked.
* EventWatcher: it never returns a removed or zero log (I3), and it returns
  by the timeout.
* ContractRegistry: readers never see bindings from two resolutions (I1),
  and a client is returned only with every binding set.
* SegmentTranscoder:
  * On every exit, each temporary output has been removed.
  * The result is either data or an error.
  * A panic becomes an `UnrecoverableError`.
* CapabilityProbe: the returned list is the reference set of capabilities
  that have no test or that pass on every device. `fatalError` is set
  exactly when a required capability fails.

## 2. Plan

The modules are listed in the order they are built, most important behaviour
first.

1. **TxLifecycle** (done). This is the abstract promise of spec.md 3: each
   operation goes `Idle -> Submitted -> Confirmed | Reverted | TimedOut |
   Failed`, and a receipt-backed outcome requires an included transaction.
2. **TxOrchestrator** (done). It models the concurrent direct operations and
   `WaitForReceipt` against a chain with a nonce-ordered pool, and is shown
   to implement TxLifecycle.
3. **ApprovalChain** (done). It composes Approve's subscription and goroutine
   with Bond/Deposit's goroutine and timer, and a chain that emits and
   retracts Approval logs. There is one passing run (I2, subscribe before
   approve, a timeout is final) and four violation runs:
   * cross-talk between calls;
   * the zero value after a Removed log;
   * the send on the closed `logsCh`;
   * the subscription leaked after a timeout.

   The blocking error sends at 619/627 are reached by the model, where the
   caller ends `blocked`. They are listed as a hazard but not given a run of
   their own.
4. **EventWatcher** (done). It models WatchEvent with Removed logs (also
   of events mined before the subscription), a dropping subscription and a
   timer. The checks are I3, the deadline and termination.
5. **ContractRegistry** (done). It models NewClient's SetManagers call
   (per-role lookups that can fail) and Bond's and Deposit's two reads of
   their manager binding. The check is that a nil-session panic follows
   only from the error NewClient drops.
6. **SegmentTranscode** (done). It models Transcode and resToTranscodeData over a set
   of options with read failures, remove failures and panics. The checks
   are the order of segments and detections and cleanup on success; the
   cleanup on every exit fails on the ffmpeg-error and read-error paths.
7. **CapabilityProbe** (done). It models TestTranscoderCapabilities and
   TestSoftwareTranscoderCapabilities over small sets of capabilities and
   devices, with nondeterministic test outcomes. The result is compared with
   a RECURSIVE reference definition. It covers the unreachable session-limit check at
   transcoder.go:213 and capabilities skipped silently at 158-170.

## 3. Modules

### TxLifecycle

This is the abstract specification.
* Variables: `life[o]` is the operation's lifecycle state, and `chain[o]` is
  one of `none`, `pending`, `included` or `gone`.
* Actions:
  * `Submit`: dispatch accepted. It may evict pending transactions that the
    pool treats as replaced.
  * `Reject`: dispatch refused.
  * `Include`: the chain includes the transaction.
  * `Classify`: a receipt-backed outcome, enabled only when the transaction
    is included.
  * `GiveUp`: a timeout or a failed read.

### TxOrchestrator

One goroutine per operation in `Ops`:
* `pc` holds its position: `start`, `dispatch`, `poll`, `sleep`, `sendRes`,
  `sendErr` or `closed`.
* `outcome` holds the value it is about to send.
* `got` holds what the caller received.

The chain state is `txStatus`, `txNonce`, `receipt` and `minedCount`. The
actions map to the code as follows:

| Action | Code |
|---|---|
| `ReadNonce` | the session's pending-nonce read. This is go-ethereum code, modelled from spec.md 5 |
| `Dispatch` | `tx, err := session.Op(...)`. The node accepts the transaction, replacing a pooled one with the same nonce, or rejects it (`outErr <- err; return`) |
| `WaitForReceipt` | one evaluation of the loop condition `time.Since(time.Now()) < c.eventTimeout`. This is `clock - clock < EventTimeout`, always true. The iteration `PollOnce` then either hits a read error (return it), finds a receipt (classify by `gasUsed = GasLimit`), or gets NotFound (sleep). The `timeout` branch is the unreachable line 809 |
| `Wake` | `time.Sleep(time.Second)` returns |
| `Deliver` | the send on `outRes`/`outErr` meeting the caller's select, then the deferred closes |
| `Mine`, `Tick` | the chain mining the account's next nonce, and time passing |

Time is discrete. Goroutine steps take no time, and `Tick` is enabled only
when every goroutine is sleeping or finished. So a time-out bound can be
checked as an invariant. Beyond `MaxClock` time is not told apart: the
clock stops and sleepers wake.

The eight direct operations differ only in the session method they call, so
one model covers them all.

### ApprovalChain

This module models one Bond or Deposit call for each call in `Calls`. All calls are from one account and run concurrently. Deposit has the same shape as Bond.

The state is split by actor:
* **The caller thread** (`caller`):
  * `subscribe`: in `SubscribeToApproval`;
  * `approve`: in the approve dispatch;
  * `blocked`: on Approve's error send;
  * `select`: Bond has returned its channels;
  * `done`.
* **Approve's goroutine GA** (`ga`):
  * `recv`: `<-logsCh`;
  * `close`;
  * `unsub`;
  * `send`: `outRes <- log`;
  * `closed`.
* **Bond's goroutine GB** (`gb`):
  * `select`;
  * `dispatch`;
  * `wait`;
  * `sendRes` or `sendErr`;
  * `closed`.
* **The subscription**:
  * `subActive`, `logsOpen`;
  * `notif`: the node's queue of matching logs.
* **The chain** (`approveTx`, `reorgs`). A mined approve emits an Approval log to every active subscription of the account. The filter matches on the owner only. A reorg re-emits the log with `Removed` set.
* **The timer**: `timer`.

| Action | Code |
|---|---|
| `Subscribe` / `SubscribeToApproval` | Approve 617-623 / 648-669. On error, the send on unbuffered `outErr` blocks the caller |
| `ApproveDispatch` / `StartBond` | Approve 625-631 (on error, the same blocking send) and Bond 356-358, which arms the timer, starts GB and returns |
| `Forward`, `CloseLogs`, `Unsubscribe`, `HandOff` | GA: 634, 636, 637, 639-642. `HandOff` is GA's send meeting GB's `case log := <-inRes` |
| `TimerCase` | `case <-timer.C` (387-389) |
| `DepDispatch`, `DeliverB` | 366-373, 376-381 |
| `DepReceipt`, `DepReadError`, `MineDep` | `WaitForReceipt` (375, 789-810) by its exits: once the dependent transaction is mined, a receipt (or "threw"); at any time, a read error other than NotFound. An unmined transaction is polled for ever (`PollsForever`): the loop condition at 790 never fails. Mining and read errors are not assumed to happen |
| `ReceiveZero` | a Removed log: GB falls out of the select, its deferred closes run (360-361), and the caller reads zero values |
| `MineApprove`, `Reorg`, `ForwardOnClosed`, `TimerFire` | the node, the chain and the timer. `ForwardOnClosed` is the forwarder sending on `logsCh` after GA closed it and before it unsubscribed, which panics the process |

Two kinds of behaviour have no action:
* The `inErr` case of GB's select. Approve never sends on that channel after it has returned.
* Actions after a panic. Every action requires `~panicked`.

### EventWatcher

This module covers `SubscribeToJobEvent` and `WatchEvent` (part_000 219-252).

The state:
* `pc` is the caller's position.
* `queue` holds the logs the node has matched but not yet handed over.
* `sent` is the history of every log sent to this subscription.
* `startAt`, `timerAt` and `timerFired` are WatchEvent's single timer.
* `result` is what WatchEvent returned.

The watcher's actions:
* `SubscribeToJobEvent` establishes the subscription or fails.
* `WatchEvent` arms the timer.
* `RecvLog` is `case log := <-logsCh`. A live log is returned; a Removed one is dropped and the loop continues.
* `TimerCase` is `case <-timer.C`.

The environment's actions:
* `NewJob`: an event is mined.
* `Retract`: a reorg sends the Removed copy of any mined event. This includes events mined before the subscription existed, which is how `[removed, removed, valid]` arises.
* `SubDrop`: the subscription is lost. WatchEvent does not watch `sub.Err()`.
* `TimerFire` and `Tick`.

Time works as in TxOrchestrator: `Tick` waits while the watcher has something to do.

### ContractRegistry

This module covers `NewClient` and `SetManagers` (part_000 86-193), and the two reads of a manager binding that Bond (354, 367) and Deposit (426, 439) make.

The state:
* `registry[r]` is the deployment the on-chain registry names for role `r`.
* `addr[r]` and `session[r]` are the client's `c.<role>Addr` and `c.<role>Session`.

SetManagers is three actions per role, in `RoleOrder`:
* `Lookup`: `Registry(keccak(role))`, which returns on error;
* `AssignAddr`: the address field is set;
* `Bind`: `New<Role>` and the session field.

`NewClientReturn` returns the client whatever SetManagers returned. `smErr` records that a lookup failed, which is the error NewClient drops.

Nothing in the repository calls SetManagers after NewClient, so the model has no second resolution.

Each spender call in `Spenders` (Bond, Deposit) has two reads:
* `ReadSpender` is the approve's `c.<role>Addr`.
* `ReadSession` is `c.<role>Session` once the Approval log has arrived. A nil session is a panic.

The registry's entries are chosen in Init; nothing re-reads them after SetManagers, so upgrades are not modelled.

### SegmentTranscode

This module covers `LocalTranscoder.Transcode`, `NvidiaTranscoder.Transcode` and `resToTranscodeData` (transcoder.go 41-73, 84-116, 322-365). The two Transcodes differ only in the call that runs ffmpeg. `accel`, chosen in `Init`, says which one runs.

The state:
* `opts` is the option list: one per profile (with `sign` when `CalcPerceptualHash` is set), then one per detector. `Init` chooses 1..`MaxProfiles` profiles and 0..`MaxDetectors` detectors, as `profilesToTranscodeOptions` and `detectorsToTranscodeOptions` build them.
* `disk` is the set of this call's temporary files: `<<i, "out">>` and `<<i, "bin">>`. The names are random, so concurrent calls share nothing and one call is modelled.
* `segs`, `dets` and `result` are what Transcode returns; `rmFailed` records a failed `os.Remove`.

The actions:
* `Options` builds the profile options and the detector options (`detectorsToTranscodeOptions`: a Detector and no output file).
* `Transcode3` (`ffmpeg.Transcode3`) and `SessionTranscode` (`nv.session.Transcode`) both run `RunFfmpeg`: ffmpeg succeeds and writes every output, or returns an error or panics after writing any subset. `recoverFromPanic` turns the panic into `"unrecoverable"`.
* `ReadOutput`, `ReadSig`: the loop body's two `ReadFile`s, each returning on error.
* `RemoveSig`, `Keep`: the signature removal (error only logged), the append to `segments` and `os.Remove(oname)` (error ignored).

### CapabilityProbe

This module covers `TestTranscoderCapabilities` (transcoder.go 197-245) and `TestSoftwareTranscoderCapabilities` (263-286), both run by `forEachTranscoderSample` (146-177). `probe` says which one the node called.

The hardware is an input fixed in `Init`:
* `hw[k, d]` is the outcome of four renditions of capability `k` on device `d`: `"ok"`, `"err"`, or `"empty"` (no error but no valid output).
* `hw3[k]` is the outcome of the three-rendition test on the first device.
* `sw[k]` is the outcome of `testSoftwareTranscode` for capability `k`. The outcomes of the probe that is not running are fixed, since they are never read.
* `written[k]` says whether the shared test segment file could be written.

The actions:
* `NextCap` is the loop head: the end of the list, an untested capability (appended), a failed write (skipped), or the start of the device loop.
* `DeviceTest` is one `testNvidiaTranscode(device, ..., 4)`. It ends in `TranscodingFailed` or moves to the next device, and after the last device the capability is appended.
* `TranscodingFailed` is the closure: the session-limit test on the first failure (`SessionLimited`, the condition of line 213 as written) and the fatal error for a required capability. The handler then returns `fatalError == nil`.

* `SoftwareTest` is the software handler: an error leaves the capability out (even a required one), an empty result sets `fatalError` and stops the loop, and otherwise the capability is appended.

`Reference(j)` is a recursive definition of the intended result from capability `j` on. It follows the comment at 207-215: an optional capability that fails on the first device while three renditions succeed there (`DriverLimited`) is the driver's session limit and fatal. `ProbeMatchesReference` compares the final `caps` and `fatalError` with `Reference(1)` on every hardware for which the reference does not report the session limit. On that hardware the code cannot agree: the check at 213 needs an error together with valid output, which `testNvidiaTranscode` never returns (188-190). The property leaves that case out rather than pass because of the dead check; showing the disagreement would take a violation run of its own. `SoftwareReference` and `SoftwareProbeMatchesReference` do the same for the software probe.

## 4. Runs

| Run | Config | Expect | What it shows |
|---|---|---|---|
| tx_core | MCTxOrchestrator.cfg | pass | Two concurrent operations of one account implement TxLifecycle (`ImplementsLifecycle`), under nonce races, replacement, rejection, read failures and all receipt kinds. Every goroutine sends before it closes (`ClosedOnlyAfterDelivery`). A mined transaction always leads to a result (`MinedLeadsToResult`). About 131k distinct states. |
| tx_confirmation_deadline | MCTxOrchestrator_ConfirmationDeadline.cfg | violation | A transaction evicted by a same-nonce replacement is polled forever, past `eventTimeout + 1`. |
| approval_core | MCApprovalChain.cfg | pass | Concurrent Bond and Deposit calls, with subscription and approve failures, one reorg, late Approval logs and event timeouts. Nothing is dispatched after the timer case (`TimeoutIsFinal`). Once Bond has returned its channels, the caller's select ends (`CallerReturns`, liveness under the fairness below): a result, an error, a Removed log (deferred closes only) or the event timer wakes it. The one exception the property states is GB polling for ever for a dependent transaction that is never mined (`PollsForever`, the loop of WaitForReceipt that tx_confirmation_deadline shows). About 64k distinct states. |
| approval_own_grant | MCApprovalChain_OwnGrantObserved.cfg | violation | With the owner-only filter, Deposit dispatches on Bond's Approval log. |
| approval_zero_result | MCApprovalChain_NoZeroResult.cfg | violation | A reorg delivers a Removed log first. GB returns without sending, and the caller reads zero values. |
| approval_send_on_closed | MCApprovalChain_NoSendOnClosedLogs.cfg | violation | A notification arrives between `close(logsCh)` and `Unsubscribe`, and the process panics. |
| approval_subscription_released | MCApprovalChain_SubscriptionReleased.cfg | violation | Failures are off. After a timeout whose approve is never mined, the subscription stays active and GA stays blocked on `logsCh` forever. |
| watch_core | MCEventWatcher.cfg | pass | WatchEvent returns the first non-removed log delivered, never a Removed one (`ReturnsFirstLiveLog`, I3 and spec.md 8). It never waits past `eventTimeout` from its start, however many Removed logs arrive (`WithinDeadline`). It always returns, also when the subscription drops (`WatchReturns`). About 4.5k distinct states. |
| registry_core | MCContractRegistry.cfg | pass | With a lookup failing at any role, the run reaches the nil-session panic, and only after a failed lookup: a spender goroutine panics on a nil session only when SetManagers returned the error NewClient drops at line 127 (`NilSessionOnlyAfterDroppedError`). 392 distinct states. |
| segment_core | MCSegmentTranscode.cfg | pass | With ffmpeg errors and panics after partial output, read failures and remove failures, a successful Transcode returns one segment per profile and one detection per detector in option order (`SegmentsFollowOpts`). It leaves no temporary file behind unless a removal failed (`CleanOnSuccess`). Both backends are covered. 556 distinct states. |
| segment_no_leak | MCSegmentTranscode_NoLeakOnExit.cfg | violation | ffmpeg returns an error after writing an output. Transcode returns at line 61 and the `out_*.tempfile` stays in the work dir. The read-error returns (337, 346) leak the same way. |
| probe_core | MCCapabilityProbe.cfg | pass | For every combination of device outcomes and test-segment writes, each probe returns exactly its reference result (`ProbeMatchesReference`, `SoftwareProbeMatchesReference`), except on hardware where the reference reports the driver's session limit: the branch at 213 never fires, because its condition is unsatisfiable. About 740k distinct states, most of them initial hardware combinations. |

**Bounds.**
* `Ops = {o1, o2}` is the smallest set with a nonce race.
* `GasLimit = 2` makes all three execution kinds distinguishable.
* `EventTimeout = 2`.
* `MaxClock = 5`, which exceeds `EventTimeout + 1` so that a deadline miss
  is reachable.

**Fairness.**
* Each goroutine's steps are weakly fair: the Go scheduler runs runnable
  goroutines.
* `Tick` is weakly fair: time passes.
* Nothing is assumed of the chain, which may never mine. The liveness
  property is therefore stated from the moment of mining.
* ApprovalChain:
  * Every goroutine step is weakly fair, and so is the node forwarding queued
    notifications.
  * Timers fire (`TimerFire` is weakly fair).
  * Mining, reorgs and RPC read errors are not assumed, so a dependent
    transaction may stay unmined and GB poll for ever.
* EventWatcher:
  * `EventTimeout = 2`.
  * `MaxEvents = 3` and `MaxReorgs = 2` allow two Removed logs ahead of a
    valid one.
  * `MaxClock = 3` is one past the timeout, so a wait that overruns it is
    reachable.
  * The watcher's steps, the timer and time are weakly fair. The node is
    not assumed to produce anything.
* SegmentTranscode:
  * `MaxProfiles = 2` and `MaxDetectors = 1`: up to three options, so a
    detector sits between or after profiles and a read error can come after
    a completed option.
  * Read and remove failures are on. The module is sequential; no fairness.
* CapabilityProbe:
  * Three capabilities (a required tested one, an optional tested one, an
    optional untested one) and two devices. This covers a failure on the
    second device, a required failure stopping the probe, and an optional
    failure not stopping it.
  * For the Nvidia probe, all 3^6 device outcomes, 3^3 session-test
    outcomes and 2^3 writes are initial states; for the software probe, all
    3^3 transcode outcomes and 2^3 writes. Sequential; no fairness.
* ContractRegistry:
  * Three roles and two deployments; a lookup can fail at each role, so
    SetManagers stops before, between or after the two spender roles.
  * Only safety is checked, so no fairness is assumed.
* ApprovalChain bounds:
  * `Calls = {bond, deposit}` is the smallest set in which a call can see
    another's log.
  * `MaxReorgs = 1` is enough for a Removed log to arrive.
  * The failure flags are on in every run except the subscription-leak run.
    That run turns them off so that its violation cannot come from the
    blocking error sends.

## 5. Not modelled

* ReadAccessors and AccountSigning hold no state and only do I/O.
* WindowsBuildWorkflow is CI configuration.
* The gzip decoding of the embedded test data (156-165) works on constants
  and is taken as succeeding; only the file write can fail.
* Monitoring calls and logging in Transcode, and `parseURI`, whose result only feeds the monitoring call.
* `NewNvidiaTranscoderWithDetector` and `Stop` are constructors and teardown of the lpms session, with no control flow of their own.
* A second, concurrent SetManagers call, which no caller in the repository
  makes. A partial swap (spec.md 4.5) and torn address reads would need
  one.
* Reorgs that un-mine a mined transaction are not modelled. Receipts are
  read from a chain that only grows.
