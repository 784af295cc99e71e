# Formal models of the AI proof-of-work sealing core

This directory holds TLA+ models of the dual-proof (AI inference + x11 hash) block
sealing core of the repository. It has TLC configurations that check the models on
small instances, and TLAPS proofs of their main safety invariants for every value
of the constants. Every module is translated from the Go source under `src/`.
`PROJECT.json` maps each definition to the source lines it models.

## 1. Inventory

### Components, their state and operations

| Component | Source | State | Operations |
|---|---|---|---|
| C4 Sealer | `consensus/amhash/sealer.go` | per `Seal` call: `curHeader`, `abort`/`found` channels, `pend` WaitGroup. Engine-wide: `amhash.rand` (under `amhash.lock`) and the `amhash.update` channel | `Seal`, `mine` (one goroutine per worker), `aiMineProcess`, `startAIMining` |
| C1 AI bridge driver | `aidigger/digger.go` | process-global `initDataPtr`; per driver: the native thread id, the `stopCh`/`resultCh`/`errCh` of its `aiMineProcess` call | `Init` (one-shot load), `AIDigging` (`creat_thread`, poll `get_result` every 100 ms, `cancel_thread` on stop) |
| Native libdigger | not in the repository (cgo) | inference tasks | `creat_thread`, `get_result`, `cancel_thread` |
| C2 Hash primitives | `consensus/amhash/consensus.go` (`combinationData`, `Reverse`, `reverseHashString`, `hashString2LittleEndian`), `algorithm.go` | none (pure) | build the 80-byte payload; reverse the digest into the share |
| Picture draw | `algorithm.go` `getRandNums`, `sealer.go` `packPictureListByIndex` | none (pure) | draw 16 distinct indices below 64000 from a seeded PRNG |
| C3 Difficulty | `consensus.go` `CalcDifficulty` + Byzantium/Homestead/Frontier, `Prepare` | none (pure, reads min difficulty from the chain) | compute the next difficulty; clamp at the minimum; add the ice-age term |
| C5 Verifier | `consensus.go` `VerifyHeader`, `verifyHeader`, `VerifySeal`, `verifyCoinbaseRole`, `VerifyUncles` | none (reads the chain) | structural checks; coinbase role; AI recomputation (through `aiMineProcess`); PoW share against the target |
| Batch verifier | `consensus.go` `VerifyHeaders`, `verifyHeaderWorker` | `inputs`, `done` and `errorsOut` channels, `errors[]`, `checked[]`, counters `in` and `out` | one producer/coordinator goroutine; `GOMAXPROCS` workers; abort |
| C6 Remote miner agent | `miner/remote_agent.go`, `man/api.go` | `running` (atomic), `quitCh`, `workCh`, `currentWork`, `work` map (under `mu`), `hashrate` map (under `hashrateMu`) | `Start`, `Stop`, `loop` (work input and 5 s ticker), `GetWork`, `SubmitWork`, `SubmitHashrate`, `GetHashRate` |
| C7 Engine registry | `remote_agent.go:162` | the `engine` map keyed by version | lookup by `header.Version` |
| C8 State switch hooks | `core/blockchain_state.go` | governance state in the `StateDB` | `ProcessStateVersionSwitch` and the Gamma, Delta and AIMine switches |
| Out of scope | `run/gman/*`, `run/utils/flags.go`, `core/rawdb`, `internal/manapi`, `core/types/*_old.go`, `transactionInterface.go` | | CLI, config, database encoding, JSON-RPC, legacy types |

### How the components interact

- `Seal` calls `aiMineProcess`. That starts an AI driver goroutine (`startAIMining`, then
  `AIDigging`) and selects on the caller's `stop`, the shared `amhash.update`, the driver's
  `errCh` and its `foundCh`. After an update the driver's `abortCh` is closed and
  `aiMineProcess` calls itself, so a new driver starts on new channels. The old driver
  only stops when it sees its `abortCh` closed and calls `cancel_thread`.
- `Seal` then spawns `NumCPU` `mine` goroutines (one on a broadcast node). They share the
  `abort` channel and the unbuffered `found` channel. `Seal` selects on `stop`, `found`
  and `update`, closes `abort`, and waits on `pend`. After an update it waits on `pend`
  too, then calls itself on `curHeader`.
- `VerifySeal` runs the same `aiMineProcess` (with a stop channel that never closes) to
  recompute the AI hash. So a verifier also receives from `amhash.update`.
- `RemoteAgent.SubmitWork` looks up the pending work and picks an engine by version. It
  calls that engine's `VerifySeal` while holding `mu`. On success it sends the header on
  `returnCh`, still holding `mu`. The `loop` goroutine's work case also locks `mu`, so
  while that send waits for its receiver the loop waits too, and serves no tick.
- `VerifyHeaders` feeds indices to a worker pool through `inputs`. Workers report on
  `done`. The coordinator emits `errors[out]` in index order.

### What is hard here

- **Interleavings of goroutines and native threads.** Several AI driver generations can be
  alive at once. Workers race to the `found` send while `Seal` closes `abort`. The AI
  result, an error, stop and update can all be ready in one `select`, and Go picks any of
  them.
- **Cancellation and leaks.** A native task must be cancelled or read, and every goroutine
  must return. `pend.Wait` must come before a restart.
- **Partial failure at the cgo boundary.** `err` from a cgo call is the C `errno`, not the
  call's result.
- **Protocol sequences at the RPC boundary.** `GetWork` puts `currentWork` back into `work`
  after a successful `SubmitWork` deleted it. Work entries are never swept. `GetWork`
  publishes the difficulty where its comment promises the target.
- **Ordering.** The batch verifier must emit results in header order whatever order the
  workers finish in.
- **Numeric edges.** Difficulty `y == 0`, the `-99` floor and the minimum-difficulty clamp.
  A target of `maxUint256 / difficulty` with a zero difficulty.

### Properties that make each component correct

- Sealer and AI driver: no native task is abandoned without a cancel (`NoOrphanTask`). At
  most one attempt's workers run at a time (`OneAttemptAtATime`). After stop, `Seal` returns
  (`SealReturnsOnStop`) and so does every goroutine it started (`NoGoroutineLeak`).
- Remote agent: a solution is accepted at most once per sealed header. Only work that was
  handed out is accepted. A package's target is the one `VerifySeal` uses. A stale
  hash-rate entry is evicted within one sweep of the 10 s timeout.
- Batch verifier: results come out in submission order, each exactly once. After an abort
  no goroutine blocks for ever.
- Difficulty: the result is at least the minimum difficulty. `Prepare` followed by the
  difficulty check of `verifyHeader` agrees.
- Switch hooks: the governance writes happen in full or the state is discarded. This rests
  on the block processor, outside `src/` (section 5).

## 2. Plan

The modules, in order, with what they compose:

1. **`AISealer`** (done): `Seal`, `mine`, `aiMineProcess` and `AIDigging`, one sealing
   attempt with update restarts. Abstract spec: `SealCall`, the caller contract of `Seal`.
   `AISealer_proofs` proves type correctness, `NoOrphanTask`, `OneAttemptAtATime` and the
   refinement of `SealCall`.
2. **`RemoteAgent`** (done, with `RemoteAgent_proofs`, without the abstract pool spec): `Start`, `Stop`, `loop`, `GetWork`, `SubmitWork`, `SubmitHashrate`, the
   sweep, and the engine lookup. `VerifySeal` is abstracted to "the nonce meets the target
   of the work".
   Runs: a pass run (one work item, a 5 s clock) and violation runs for the duplicate
   acceptance, the stale loop and the sweep held up behind `mu`.
   Abstract spec: a pool of handed-out work from which each item is accepted at most once,
   refined by the agent with the `work` map.
3. **`BatchVerifier`** (done, with `BatchResults` and `BatchVerifier_proofs`): `VerifyHeaders` with N headers and W workers. Abstract spec: an
   ordered stream of per-header results, shown by `INSTANCE ... WITH` (refinement
   mapping: the emitted prefix). Proof of the ordering invariant.
4. **`Difficulty`** (done, with `Difficulty_proofs`): the three calculators, the fork dispatch, `Prepare` and
   the difficulty check of `verifyHeader`, checked against the formula of the spec.
5. **`Verifier`** (done, with `Verifier_proofs`): block import through `VerifyUncles` and the
   nonce handling of `VerifySeal`, with the nonce a worker of `mine` reports. Proofs of
   both of its properties for every constant.
6. **`Payload`** (done): the nonce field of `combinationData`, `Reverse` and the
   MarshalText/Reverse/UnmarshalText idiom.
7. The state switch hooks are not modelled (section 5).

## 3. Modules and runs

### `AISealer` (sealer.go, digger.go)

State: `sealPc` (where `Seal` is: `ai`, `spawn`, `pow`, `restart`, `drain`, `done`),
`outcome`, `stop`, `updates`, `randReady` (`amhash.rand != nil`), `gen` (the current
`aiMineProcess` call), and per generation `drv` (the driver's control point), `task` (the
native task), `aiAbort`, `aiFound`, `aiErr` (the generation's channels). `abort` is the
PoW abort channel. `wpc` holds each worker's control point.

Actions, one per select case or goroutine step:
- `AIStop`, `AIUpdate`, `AIError` and `AIFound` are the cases of `aiMineProcess`.
- `DriverCreate`, `DriverPoll` and `DriverCancel` are the steps of `AIDigging`.
  `TaskComplete` is the native task finishing.
- `Spawn` is the rand seeding and the worker spawn loop.
- `WorkerFind` and `WorkerAbort` are `mine`.
- `PowStop`, `PowFound` and `PowUpdate` are the cases of `Seal`'s select. `Restart` and
  `Drain` are the two `pend.Wait` calls.

Abstractions:
- A nonce's hash is an oracle: `WorkerFind` is "this nonce is under the target". A miss
  changes nothing observable and is left out.
- A poll of a still-running task is a stutter.
- The `update` sender (`Amhash.SetThreads`, not under `src/`) is a bounded environment.
  `MaxUpdates` counts the updates `Seal` receives.
- `stop` is closed by the caller at any time.

Runs:
- `sealer` (`MC_AISealer.cfg`): NumCPU = 2, MaxUpdates = 2, both node kinds. 6,722 states.
  It checks `TypeOK`, `NoOrphanTask`, `OneAttemptAtATime`, `SealReturnsOnStop`,
  `NoGoroutineLeak` and `ImplementsSealCall` (below). Deadlock is not checked, because `Seal` really returns and everything
  stops. Lost progress is checked by the two liveness properties instead.
  - Two workers is the least that lets one worker win while the other is blocked on the
    `found` send.
  - Two updates is the least that lets an old driver outlive a newer one, and that gives an
    AI-stage update followed by a PoW-stage update.
- `sealer_stale_errno` (violation): `SpecStaleErrno` adds the `creat_thread` outcome where
  cgo reports the C errno as an error although the task started. `NoOrphanTask` fails.
  The driver returns without `cancel_thread` and `Seal` returns the error, so the native
  inference thread runs on with nobody to cancel or read it.

`SealCall` is the contract `Seal` offers the miner's worker that calls it. Its state is
`stop`, the `outcome` and `returned`, and it has three actions:
- `CallerStop`: the caller closes `stop`;
- `Decide(o)`: the call settles on `stopped`, `failed` or `sealed`, and `stopped` needs a
  closed `stop`;
- `Return`: a settled call returns.

Its fairness says that after `stop` the call settles, and a settled call returns.
`ImplementsSealCall` is `SealContract!Spec` under `returned <- (sealPc = "done")`, with
`outcome`'s `"pending"` as the contract's unsettled value. A `Seal` that answered a
`crand` failure with `(nil, nil)` breaks it: the caller would read that as a stop it never
asked for.

Fairness: weak fairness on `Seal`'s own steps, on each driver's steps, on each native task
finishing, and on each worker observing `abort`. These are goroutines of the Go runtime
(which schedules every runnable goroutine), and inference is a terminating computation.
Stop, update and a winning nonce get no fairness.

### `RemoteAgent` (miner/remote_agent.go, man/api.go)

State:
- `running`, `quit`, `wch` and `wclosed`: the agent flag, and the quit and work channels
  of each `Start` (an epoch in `1..MaxStarts`). `wch[e]` is the buffer of epoch `e`'s
  work channel, of capacity 1.
- `alive[e]`, `started[e]` and `tick[e]`: whether the `loop` goroutine of epoch `e` runs,
  when it started, and whether its ticker has a pending tick.
- `inbox[e]`: `<<w>>` while loop `e`, in its work case, waits for `mu` to store `w` (`w`
  may be nil, from a closed channel); `<<>>` while it is at its select.
- `sending`: the header `SubmitWork` is sending on `returnCh`. `mu` is held exactly while
  it is not nil (`MuFree`).
- `currentWork` and `work`: the set of headers in `a.work`.
- `handouts`, `pkgs` and `accepted` are history: how often each header was handed out, the
  packages miners hold, and how often each was accepted.
- `hashrate` (last ping per miner id) and `now`, a clock in seconds.

Actions:
- `Start`, `Stop`, `PushWork` (`SetWork`/`workCh <- work`).
- The loop's three select cases: `LoopQuit`, `LoopWork` (a buffered item, or a receive from
  a closed channel giving `nil`) and `LoopTick`, which includes the hash-rate sweep.
  `LoopStore` is the rest of the work case: lock `mu`, store `currentWork`, unlock.
- `GetWork` (needs `mu` free), `SubmitHashrate`.
- `SubmitWork` locks `mu` and verifies. On failure it returns false. On success it starts
  the `returnCh` send, still holding `mu`. `SubmitSend` is the receive by the miner's
  worker: the header is accepted, `a.work`'s entry deleted and `mu` released.
- `Advance`, the environment's clock.

Abstractions:
- A header is a model value with a difficulty (`MCDiff`). A share is a number in
  `0..HashSpace`. `VerifySeal` is "share <= HashSpace / difficulty" (consensus.go:526–535).
- The engine lookup always succeeds: one version.
- `Advance` moves the clock one second. A tick that arrives while one is pending is
  dropped, as `time.Ticker` does. The clock waits for a pending tick only of a loop that can
  run: one at its select, or one in its work case with `mu` free. This is the assumption
  that a runnable goroutine is scheduled within a second. A loop blocked on `mu` holds
  nothing up.

Runs:
- `agent` (pass, 557,290 states): one header handed out once, a passing and a failing
  share, two starts, one reporter and a 5 s clock, so one tick. Checks `TypeOK` and
  `AcceptBackedByHandout`: each acceptance, and each live `work` entry, is paid for by a
  hand-out, while a `returnCh` send holds `mu`. The mutant `SubmitSendNoDelete` forgets
  `delete(a.work, hash)`.
- Violation runs, one per disagreement with the spec (see `findings`):
  - `agent_duplicate_accept`: `GetWork` re-inserts deleted work, so a solution is accepted
    twice.
  - `agent_stale_loop`: an old `loop` survives `Stop` and overwrites `currentWork` after a
    restart.
  - `agent_hashrate`: `HashrateEvicted` says that while the agent runs, no reporter is
    counted more than 15 s (the 10 s timeout plus one 5 s tick) after it, or the current
    loop, was last heard from. TLC finds it violated, on a 16 s clock with one header:
    1. a reporter pings;
    2. a solution is accepted by `VerifySeal`, and its `returnCh` send waits, holding `mu`;
    3. new work arrives, and the loop takes it from `workCh` and blocks on `mu`;
    4. every later tick is dropped, and the reporter is still counted at 16 s.
    The spec (4.4, scenario 6) says entries older than 10 s are evicted.

Three further disagreements are recorded as hazards without a run of their own. `GetWork`
publishes the difficulty itself where the spec and the comment at man/api.go:95 say the
target (remote_agent.go:115); the model keeps both values in the package, but it is one
assignment, visible without a model. `SubmitWork`
never reads `a.running`, so a stopped agent still accepts solutions.

No fairness: every operation is an RPC or the caller's choice. Eviction is stated as a
safety bound on the clock.

### `BatchVerifier` and `BatchResults` (consensus.go `VerifyHeaders`)

State:
- `verdict[i]`: what `verifyHeaderWorker` returns for header `i`. It is fixed at the start.
- `errs`: the `errors` slice.
- `wpc` and `widx`: each worker's control point (`recv`, `verify`, `send`, `exit`) and the
  index it holds.
- `done`: the channel buffer, of capacity `workers`.
- The coordinator's `in`, `out`, `checked` and `cpc` (`select`, `emit` or `ret`).
- `errorsOut` (capacity N, so sends never block) and `abort`.

Actions:
- The coordinator: `Dispatch` (case `inputs <- in`), `Collect` (case `<-done`), `Emit` (one
  turn of the emit loop, returning after the last header) and `CoordAbort` (case `<-abort`).
- The workers: `Verify`, `Report` (blocks while `done` is full) and `WorkerExit` (`range
  inputs` ends when the deferred `close(inputs)` has run).
- The caller: `Abort`.

`BatchResults` is what `VerifyHeaders` promises: the verdicts are delivered one at a time,
in header order, until all N are out or the caller aborts. `BatchVerifier` instantiates it
with `results <- errorsOut, aborted <- abort`.

Runs:
- `batch` (pass): N = 3, GOMAXPROCS = 2, two verdicts (ok, bad). 8,080 states. It checks:
  - `TypeOK`;
  - `OrderedResults`;
  - `ImplementsBatchResults` (the abstract `Spec`, fairness included);
  - `AllReturn`: unless aborted, the coordinator and every worker return.

  Three headers with two workers let a later header finish first and be held back. Deadlock
  is not checked, because the batch really ends.
- `batch_abort_leak` (violation): `WorkersDrainOnAbort` fails. The coordinator can keep
  dispatching while `done` fills up. Once it returns on abort, nobody receives from `done`,
  and a worker blocks for ever on `done <- index`.

Fairness: weak fairness on the coordinator's step and on each worker's step. These are
goroutines under the Go scheduler. `Abort` is the caller's choice and gets none.

### `Difficulty` (consensus.go `CalcDifficulty`, `Prepare`, `verifyHeader`)

The calculators would be pure functions of the parent, the time, the version and the
governance minimum, except for one thing. `calcDifficultyByzantium` sets `y = big1` when
`parent.Difficulty / 2048` is 0. Its bomb branch then runs `y.Sub(...)` and `y.Exp(...)`,
which writes into the package-level `big1`. So the module's state is `big1`, together with
the headers `Prepare` stamped (`prepared`), those `verifyHeader` refused (`rejected`) and a
call counter.

Definitions:
- `CalcByzantium`, `CalcHomestead` and `CalcFrontier` translate the three rules. Each
  returns the difficulty and the value `big1` holds afterwards. `Bomb` is the ice-age term.
- `CalcDifficulty` dispatches on `parent.Number + big1`.
- The actions are `Prepare(in)` and `VerifyDifficulty(h)`.
- An input is a record: the parent's number, difficulty and uncles, the time gap, whether
  the version is at least Gamma, and the minimum.
- `big.Int` division is Euclidean. With positive divisors it is TLA+'s `\div`.

Runs (the Homestead fork at 1000 and Byzantium at 3,000,000; parents at 5, 2000 and
3,299,999; difficulties 1000 and 3000, on both sides of 2048; gaps 1 and 1000 s; minimum
950; three calls):
- `difficulty` (pass, 25,951 states): `DifficultyFloor`. Every stamped difficulty is at
  least the minimum, whatever `big1` holds. It is proved for all constants (section 4).
- `difficulty_big1_alias` (violation): `DifficultyConsistent`. One `Prepare` on a
  low-difficulty parent in ice-age period 3 sets `big1` to 2. `verifyHeader` then
  recomputes 1006 for the header it stamped 1003 and rejects it.

The single-call divergence of `calcDifficultyByzantium` from spec 4.3 is recorded as a
hazard. For a parent below 2048 the code uses 1 in place of `parent.d / 2048`.

The parent at 3,299,999 is the first ice-age period where `big1` changes: at period 2 the
overwrite writes 1.

### `Payload` (consensus.go `combinationData`, `Reverse`; sealer.go `mine`)

`Payload` has no state. It defines, as operators on 8-byte nonces (functions
`1..8 -> 0..255`):
- `EncodeNonce`, `MarshalText` and `UnmarshalText`, go-ethereum's `BlockNonce` and `hexutil`
  (not in this repository, so modelled from their documented contract): big-endian bytes,
  `"0x"` and 16 lower-case digits, and a decoder that rejects text without the prefix or of
  the wrong length, leaving the nonce as it was. The error is discarded by every caller.
- `Reverse` (consensus.go:579–585), which reverses the whole text, `"0x"` included.
- `ReverseNonce`, the idiom `MarshalText; Reverse; UnmarshalText` (sealer.go:175–179,
  consensus.go:520–524, 545–549).
- `NonceField`, payload bytes 76..79 of `combinationData`: the low four bytes of the reversed
  nonce, written big-endian by `uint32ToBytes` (consensus.go:544–558, algorithm.go:20–24).

The other 76 payload bytes do not depend on the nonce and are left out.

### `Verifier` (consensus.go `VerifyUncles`, `VerifySeal`; sealer.go `mine`)

State: `n` (blocks imported after genesis, ids `1..n`), `anc[b]` (b's ancestors, parent
first: what the chain reader's repeated `GetBlock(parent)` returns), `unc[b]` (b's uncle
list), `nonce[b]` (the nonce of b's sealed header) and `sealed[b]` (the nonce field the worker
hashed for b).

One action, `MineAndImport(p, L, f)`: a worker seals a block on parent `p` with uncle list `L`.
Its header carries a nonce `f` that `mine` can report: the zero nonce of the prepared header,
or after `nonce++` the reversed encoding of `seed + attempts` (sealer.go:153–179). The block is
imported when `VerifyUncles` accepts `L` (consensus.go:170–222): at most `maxUncles`; the walk
over `Horizon` ancestors (7 in the code) collecting ancestors and their uncles into `uncles`,
which starts with the block itself; and per uncle the duplicate, ancestor and dangling
checks, in the code's order. Offered uncle lists are any lists of known blocks of length up to
`maxUncles + 1`, repetitions included.

Properties, run `verifier` (MaxBlocks 5, Horizon 3, maxUncles 2, one seed 170):
- `UnclesRewardedOnce`: on every chain, no uncle is named twice (by two blocks or within one
  list) and no uncle is a block of that chain. With `Horizon = 3` and five blocks, chains are
  longer than the walk, so an uncle rewarded beyond the window and re-offered is reached.
  Its mutant drops the duplicate check (`VerifyUnclesNoDupCheck`), and TLC finds a list
  naming one uncle twice.
- `SealVerifyAgree`: the nonce field `VerifySeal` rebuilds from an imported header equals the
  one the worker hashed. It holds because every reversal yields text starting with a digit
  and not `"0x"`, which `UnmarshalText` rejects: the reversal is a no-op. Its mutant is a
  `Reverse` that keeps the prefix in place (`ReverseDigits`); with it the reversal succeeds and
  the nonce changes once in `mine` and again in `VerifySeal`.

Seed 170 (`0xaa`) makes the encoded nonce non-palindromic, so any reversal that did succeed
would show. The difficulty check of `verifyHeader` is in `Difficulty`.

The dangling check leaves one ancestor of slack. An uncle's parent must be a walked ancestor
but not the parent, so an uncle lies 2..Horizon heights below the new block. A mutant that
collects the earlier uncles of one ancestor fewer is therefore not caught: the uncle rewarded just out of the window
is still barred by the dangling check. A mutant that drops the dangling check is caught.

Spec test 4 gives the nonce field little-endian; the code writes it big-endian. This is
recorded as a hazard (consensus.go:557): `SealVerifyAgree` compares the code with itself.

## 4. What is proved

`AISealer_proofs` proves, for every `NumCPU >= 1` and every `MaxUpdates` in `Nat`:
- `TypeCorrect`: `Spec => []TypeOK`. `TypeOK` alone is not inductive, because `AIUpdate`
  and `Restart` use `gen + 1` in `Gens`. It is strengthened with `GenBound`: the generation
  never outruns the update count, and is one behind while `Seal` waits to restart.
- `NoOrphanTaskHolds`: `Spec => []NoOrphanTask`.
- `OneAttemptHolds`: `Spec => []OneAttemptAtATime`.

Both rest on the inductive invariant `IInv`, checked by TLC on the `sealer` instance before
it was proved. Per generation it relates the driver's control point, the task and the
channels:
- a driver that has not created a task sent nothing;
- a polling driver owns a live task;
- a live task has a polling driver unless its cancel failed;
- a result on `foundCh` means the task was released;
- an error without abort is a create failure;
- later generations are untouched;
- earlier ones are aborted or left nothing live.

It also ties the current generation to `sealPc`, and says `abort` is closed while `Seal`
waits on `pend`.

`BatchVerifier_proofs` proves, for every `N >= 1` headers and `GOMAXPROCS >= 1`:
- `TypeCorrect`: `Spec => []TypeOK`. In particular `done` never holds more than `workers`
  indices.
- `OrderedResultsHold`: `Spec => []OrderedResults`.
- `RefinesBatchResults`: `Spec => Abs!Init /\ [][Abs!Next]_<<verdict, errorsOut, abort>>`.
  This is the safety part of the refinement.
  - A step of `Emit` that sends on `errorsOut` is an abstract `Deliver`.
  - `Abort` is an abstract `Abort`.
  - Every other step is a stutter.

All three rest on the inductive invariant `IInv`, checked by TLC for N = 3 and N = 4 before
it was proved:
- `errs[i]` is either unset or header `i`'s verdict;
- every index that is checked, sits on `done`, or is held by a worker about to send has its
  slot written;
- `errorsOut` is exactly the first `out` verdicts, or all N once the coordinator has
  returned after the last one.

`OrderedResults` alone is not inductive, because `Emit` appends `errs[out]` and nothing
in `OrderedResults` says that slot holds the right verdict.

The lemmas are:
- `PrefixType` and `PrefixAppend`: appending verdict `n` to the first `n` verdicts gives the
  first `n + 1`;
- `IInvInit` and `IInvStep`, with one step per action;
- `RefineStep`.

`Verifier_proofs` proves, for every `MaxBlocks`, every `Horizon >= 1`, every `MaxUncles` and
every set of seeds below 2^24:
- `UnclesRewardedOnceHolds`: `Spec => []UnclesRewardedOnce`.
- `SealVerifyAgreeHolds`: `Spec => []SealVerifyAgree`.

Both rest on the inductive invariant `IInv`, checked by TLC for Horizon 1 to 4 before it was
proved. `UnclesRewardedOnce` is not inductive by itself: it says nothing about where a
block's uncles lie, so a new block could re-reward an uncle that an ancestor beyond the walk
rewarded. `IInv` argues by heights, a block's height being its number of ancestors:
- a type invariant, and `SealOK`: `sealed[b]` is the nonce field of `nonce[b]` for every b;
- `AncOK`: a block's ancestors are imported, and the i-th lies i heights below it;
- `UncOK`: every uncle has a parent, and that parent lies 2..Horizon heights below the block
  naming the uncle;
- `RewardedOnce(b)` for every imported block and genesis.

With heights falling by one along a chain, the walk of `VerifyUncles` is exactly the chain
blocks within `Horizon` of the new block. The parent of an uncle offered now lies
2..Horizon heights below the new block (`UncleFacts`). An earlier block that rewarded it lies within the
walk, since that block is at most `Horizon` heights above the uncle's parent
(`NotRewardedBefore`). The same bound keeps the uncle off the chain (`UncleOffChain`).

The lemmas:
- `LineShape` and `WindowShape`: the ancestor line of a new block and the walked part of it;
- `MarshalShape` and `ReverseNonceId`: the reversed text is 18 characters with a hex digit
  second, so `UnmarshalText` returns the nonce unchanged;
- `EncodeBytes` and `FoundBytes`: every reported nonce is 8 bytes;
- `StepType`, `StepSeal`, `StepAnc`, `StepUnc`, `StepOld` and `StepNew`: one per conjunct of
  `IInv` under `MineAndImport`.

`RemoteAgent_proofs` proves, for every set of headers and reporters and every `MaxStarts`,
`MaxCalls` and `MaxTime` in `Nat` (`AgentAssumption`):
- `TypeCorrect`: `Spec => []TypeOK`. In particular no header is received from `returnCh`
  more often than `MaxCalls`.
- `AcceptBackedByHandoutHolds`: `Spec => []AcceptBackedByHandout`.

Both rest on `IInv == TypeOK /\ AcceptBackedByHandout /\ SendingOK`. `SendingOK` says that
the header a `SubmitWork` is sending on `returnCh` still has its `a.work` entry.
`AcceptBackedByHandout` alone is not inductive. `SubmitSend` counts an acceptance, and that
stays within the handouts only because it deletes an entry that is still there. Nothing
else deletes from `a.work`, and `mu` keeps out every other `SubmitWork` and `GetWork` until
the send completes.

The lemmas are `MuFrame` (a step that leaves `mu`'s maps alone keeps both invariants), one
lemma per action (`StartIInv` to `AdvanceIInv`), `InitIInv` and `NextIInv`.

`HashrateEvicted` is not proved: it is false of the code (the `agent_hashrate` run).

`AISealer_proofs` also proves `RefinesSealCall`:
`Spec => SealContract!Init /\ [][SealContract!Next]_absVars`. This is the safety part of
`ImplementsSealCall`. It rests on `Settled`, an invariant of its own: the outcome is still
`"pending"` exactly while `Seal` is in the AI stage, spawning, in the PoW select or waiting
to restart. Under it:
- `AIStop`, `AIError`, the failing `Spawn`, `PowStop` and `PowFound` are each a `Decide`;
- `Drain` is `Return`;
- `Stop` is `CallerStop`;
- every other step leaves `stop`, `outcome` and `sealPc = "done"` alone.

The lemmas are `SettledInit`, `SettledStep` and `ContractStep`.

`Difficulty_proofs` proves two theorems:
- `DifficultyFloorHolds`: `Spec => []DifficultyFloor`, for every fork configuration,
  duration limit, bound divisor, set of parents and number of calls.
- `ConsistentWithoutAlias`: if every parent difficulty is at least `BoundDivisor`, then
  `Spec => []DifficultyConsistent`. The `difficulty_big1_alias` run shows the property
  failing. This theorem shows that the cause is the alias `y = big1` and nothing else.
  The inductive invariant `AliasFree` says that `big1` stays 1, every prepared header
  equals the calculation with `big1 = 1`, and nothing is rejected.

`DifficultyFloor` is not inductive by itself. A later call computes with `big1`, which the
Byzantium rule may have overwritten with the bomb. The invariant `IInv` adds `TypeOK`:
`big1` is a positive integer, and prepared headers are inputs with integer difficulties.

The lemmas:
- `PowTwo`: `2^k` is a positive natural for every natural `k`. The provers know no facts
  about `^`, so this comes from `FS_SUBSET` of FiniteSetTheorems: `2^k` is the number of
  subsets of `1..k`.
- `BombNat`: the ice-age term is never negative.
- `InputInt`: the fields of an input are natural numbers.
- `ByzantiumFloor`, `HomesteadFloor` and `FrontierFloor`, one per rule, and `CalcFloor`
  for `CalcDifficulty`.
- `KeepsBig1`: without the alias, no rule writes `big1`.
- `InitIInv`, `PrepareIInv`, `VerifyIInv`, `NextIInv` and `AliasFreeStep`.

Every safety invariant and action property of the passing runs is proved. Only
model-checked: the liveness properties `SealReturnsOnStop`, `NoGoroutineLeak` and
`AllReturn`, and the fairness parts of `ImplementsBatchResults` and `ImplementsSealCall`.
TLAPS does not handle liveness under fairness or `ENABLED`.

## 5. Not modelled

The state switch hooks (C8, core/blockchain_state.go) are straight-line sequences of
`matrixstate` Get and Set calls. Each call is followed by `log.Crit` and `return err`, and
that early return is their only control. Whether a half-done switch can reach the chain
depends on the block processor, which commits a block's state, and on `log.Crit` ending the
process. Neither is under `src/`. A model of the hooks alone would check the processor's
assumed atomicity, not this code.

Of the verifier (C5): the extra, time and gas-limit checks of `verifyHeader` (one comparison
each, no state); `verifyCoinbaseRole` (it reads elected-role lists from the state, not under
src/); the AI recomputation of `VerifySeal` (the `aiMineProcess` stage, modelled in
`AISealer`); and the share-against-target comparison (an x11 oracle). Of the payload (C2):
the 76 bytes that do not depend on the nonce, and `reverseHashString` and
`hashString2LittleEndian`, string shuffles of fixed hashes.

See `PROJECT.json` "components": the CLI, configuration, database and JSON-RPC code (out
of scope of the spec), legacy types (no state changes), and x11 itself (a hash function:
an oracle in the models).
