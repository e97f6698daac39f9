# TLA+ models of the ML prefetch controller

This directory holds TLA+ models of `MLPrefetchController`
(`src/src/mem/cache/prefetch/ml_prefetch_controller.{cc,hh}`). It is a gem5
prefetcher that acts as a bandit. At each epoch it chooses which of its child
prefetchers may issue prefetches, or none (OFF). It learns a Q-table from the
cache's miss rate and the CPU's IPC, and persists that table between runs.
TLC checks the models.

## 1. Inventory

### Parts of the system and how they interact

| Part | Code | State | Operations |
|---|---|---|---|
| Epoch engine | ctor (.cc 44-105), `startup` (107-132), `updateModel` (474-483), `endEpoch` (307-471), `switchTo` (485-490) | `currentAction`, `lastState`, `lastAction`, `lastReward`, `qTable`, `exploreRate`, the cache and CPU snapshots, the miss-rate history, the usage counters, the function-static `epoch` | construct, startup, epoch event |
| Policy | `encodeDeltaMiss/Ipc/Accuracy` (251-278), `selectAction` (282-305), the index-to-action mapping (418-428), the penalties (74-81) | none (pure) | operators |
| Routing and attribution | `calculatePrefetch` (216-247), `notify` (197-214), `trackIssuedForChild` (494-532), `trackUsefulForAddr` (534-553) | `childPfTable`, the `child{0..3}Pf{Issued,Useful,Redundant}` counters, `epochAccesses/Misses` | query, access notification |
| Persistence | `childrenSignature` (557-565), `saveQTable` (567-600), `loadQTable` (605-684) | the file `qtable_<name>.bin`, `qtableLoaded` | save at every epoch, load at startup |
| Statistics registration | `regStats` (134-195) | names only | none |
| CSV logging | globals `gCsvFile`, `gCsvInitialized` (23-25), lines 83-95 and 442-459 | the file, the shared static `epoch` | append a row every 20 epochs |
| Test programs | `src/tests/test-progs/**` | none | workloads; `m5_reset_stats` around the region of interest |

The parts interact as follows:

- The engine writes `currentAction`.
- `calculatePrefetch` reads `currentAction` to decide which child's candidates it emits and credits.
- `notify` counts accesses and credits useful prefetches.
- The engine does not read the attribution counters. It reads the cache's own runtime counters and the CPU's op count.
- Each epoch ends with a save. Startup begins with a load.

All code runs on gem5's single-threaded event queue, so "interleaving" here means the order of events:

- queries and notifications, which come from cache accesses;
- epoch events, which come from `update_event`;
- statistics resets, which come from the workload.

Between runs of the simulator the only shared thing is the file. Within a run, several controllers share the CSV file, the static epoch counter of `endEpoch`, and, when their sanitised cache names coincide, the Q-table file.

### What is hard (the hazards listed in PROJECT.json)

- **The first epoch credits the wrong action.** `lastAction` is 0 at construction, whatever `current_action` is. The first bandit update also creates a row for state 0, which nothing observed.
- **Penalties are indexed by bandit index.** With K ≤ 2, OFF is index 1 or 2 and so gets a penalty.
- **Counters exist only for indices 0..3.**
- **Counter wrap after a statistics reset.** `m5_reset_stats` makes the cache totals fall below the controller's snapshots, and the `uint64_t` deltas wrap. This assumes the cache's runtime totals (`getRuntimeAccesses/Misses`, not under `src/`) reset with the statistics.
- **Counters reset, table kept.** The same reset zeroes the controller's own `actionUse` and `child*Pf*` Scalars but not `childPfTable` or the static epoch counter.
- **The attribution table is cleared before the lookup.** When the table is full, it is cleared before it is searched for the address.
- **A kill during a save loses the table.** `saveQTable` truncates the file before it writes. A kill in the middle loses both tables. The loader must not resume half a table.
- **Failed writes go unnoticed.** The writes of `saveQTable` are not checked, so a full disk leaves a prefix while the run goes on and reports the table saved.
- **A restart must resume what was learned.** Only the file survives a new simulator run; the constructor starts `lastState`, `lastAction`, the static epoch counter and the usage counters again.
- **The newest issuer wins.** Two children may issue the same address across switches and clears; a later hit must credit the one that issued it last.
- **Signatures must match.** A table saved for another child set must not be loaded.
- **Encoder threshold edges.** Whether each threshold is strict or not decides the bin at the edges.
- **Ties in the greedy choice.** The greedy scan uses a strict `>`, so ties go to the lowest index.
- **The IPC snapshot.** The constructor, not `startup`, takes the CPU snapshot, and each epoch refreshes it; an epoch's IPC must cover that epoch's ops alone.
- **One file, two processes.** The Q-table file is named relative to the working directory, so concurrent simulator processes can interleave their writes to it.
- **State shared between controllers.** The static epoch counter and the CSV file are global; distinct cache names can sanitise to one Q-table file.

## 2. Modules

| Module | Models | Map to code |
|---|---|---|
| `ExactRationals` | exact rational arithmetic standing in for `double` | none (mathematics) |
| `Policy` | the encoders, the state encoding, the greedy scan, the bandit/semantic index mapping, the penalties | .cc 50-81, 251-305, 379-428 |
| `EpochEngine` | construction, `startup`, `updateModel` (`endEpoch`, the save as a write of the table, the reschedule), and the environment (cache accesses, retired ops, `m5_reset_stats`) | .cc 44-132, 197-203, 282-490 |
| `Attribution` | `calculatePrefetch`, `notify`, `trackIssuedForChild`, `trackUsefulForAddr`; a stand-in action for `switchTo` | .cc 197-247, 485-553 |
| `QTableFile` | the file name (the sanitiser) and the file image written by `saveQTable` and read by `loadQTable` | .cc 97-104, 557-684 |
| `QTablePersistence` | `saveQTable` and `loadQTable` across runs, with kills during a save and changes of child set | .cc 107-111, 474-483 |
| `SharedQFile` | several controllers in one simulation, each saving to and loading from the file its cache name gives | .cc 107-111, 474-481, .hh 139-140 |
| `CsvLog` | the shared CSV file, its first open, and the shared static epoch counter of `endEpoch` | .cc 20-25, 83-95, 442-459 |
| `AbstractBandit` | what an epoch promises (one action in effect, only its value moves, then the next action) and what a restart promises (every value kept) | spec 4.1-4.2 (a property of `EpochEngine`) |
| `MC*` | instances for TLC: model values, bounds, symmetry, and the reference definitions of `MCPolicy` | none |

### How state and actions correspond to the code

**`EpochEngine`:**

- One variable per member in `ml_prefetch_controller.hh`.
- `epoch` is the function-static counter.
- `scheduled` and `eventTick` are the pending `update_event`.
- `cacheAccesses` and `cacheMisses` are the cache's runtime totals; `cpuOps` is the CPU's total.
- `Startup` is `startup()`. `loadQTable` is `QTableFile`'s `Load` of `qfile` (no file in the first run).
- `Restart` is the end of a simulator run between two events and the construction of the controller in a new one: every member, the static `epoch`, the tick and the cache and CPU counters start again; only `qfile` survives. The engine always writes the file whole and under one child set. Kills in the middle of a save, failed writes and other child sets are `QTablePersistence`'s.
- `UpdateModel` is a whole firing of `update_event`:
  - every step of `endEpoch`, in the code's order;
  - the Q-table write (`qfile` becomes `Image(ChildrenSignature, qTable)`);
  - the reschedule.
- The record `Observation` computes steps 1-5:
  - the deltas, modulo `2^CounterWidth`;
  - IPC;
  - the moving average;
  - accuracy;
  - state;
  - reward.
- `SnapshotCpu` is the end of step 2: `lastTotalOps` and `lastIpcTick` become this epoch's end, the base of the next epoch's IPC.
- `BanditUpdate` is step 6.
- `ResetStats` is `m5_reset_stats` between two epochs: it zeroes the cache totals and `actionUse`, and leaves the members and the static epoch counter.
- `SelectAction` is `selectAction`. A positive ε allows every index (the explore branch) and the greedy index (the exploit branch). ε = 0 allows only the greedy one.

**`Attribution`:**

- `childPfTable` maps an address to the child index. `issueTick` is never read, so it is dropped.
- `CalculatePrefetch` folds `TrackIssuedForChild` over any candidate list of at most `MaxCandidates` addresses.
- Only a child in `QueuedChildren` (the `dynamic_cast`) with index equal to `currentAction` emits.
- `ResetStats` is `m5_reset_stats`: it zeroes `pfIssued`, `pfUseful` and `pfRedundant` (gem5 Scalars) and keeps `childPfTable`, a plain member.
- `issuedBy` is a history variable, not code state: for each address, the child whose query emitted it last. `TrackedByNewestIssuer` compares the table with it.

**`QTablePersistence`:**

- The file is a sequence of records, one per read the loader makes: signature, count, then rows.
- A kill during a save leaves a prefix of the image. So does a failed write (disk full): the writes are not checked, the ofstream drops the rest, and the run goes on.
- `Load` follows every early return of `loadQTable`, including the `clear()` on a short row.
- `Image`, `Load` and the file name live in `QTableFile`, which `SharedQFile` shares.

**`CsvLog`:** `Construct(c)` is the constructor's CSV block, `EndEpoch(c)` step 8 of `endEpoch`; controllers are constructed in any order and their epoch events interleave in any order (their relative rates depend on `ticks_per_epoch`).

**Refinement.** `EpochEngine` defines `Bandit == INSTANCE AbstractBandit WITH action <- currentAction, values <- LearnedValues, prev <- lastState, run <- runs` and checks `BanditRefinement == Bandit!Spec`. `LearnedValues` is `qTable` once `startup` has run, and before that the table the file would load. An abstract `Resume` step (a new run keeps every value, with any action and starting state) matches `Restart`; `Startup` is a stuttering step, since it loads what `LearnedValues` already shows. The abstract step is a predicate on the new table (the arithmetic is the engine's), so `AbstractBandit` is used only as a property. It pins down where an epoch's reward may land (only the entry of the action in effect, in the row the epoch started in) and the table's shape (rows kept, full width, new rows only for the starting and the observed state).

### Data abstractions

- Doubles are exact rationals. Rounding is not modelled.
- ε is `"zero"` or `"positive"`:
  - `random()/RAND_MAX ∈ [0,1]`, so any ε in (0,1] allows both branches;
  - after the first epoch ε is at least `EXPLORE_MIN`.

  The choice set of `selectAction` depends on ε only through `ε > 0` and `ε ≤ 1`, so this abstraction loses no selection the code can make for an `explore_rate` in [0, 1]. An `explore_rate` above 1 (the parameter is not range-checked) would forbid the exploit branch until the decay brings ε to 1; it is not modelled. The decay `max(EXPLORE_MIN, ε·EXPLORE_DECAY)` is not modelled exactly. Spec 8's "ε non-increasing and ≥ `EXPLORE_MIN`" would only restate that one assignment. Exact powers of 1999/2000 also overflow TLC's 32-bit integers when two of them are compared.
- `uint64_t` counter arithmetic uses `CounterWidth` = 4 bits. The bounds keep the totals below `2^4`, so only the reset produces a wrap, as in the code.
- In `QTablePersistence`, rows are abstract values and the child set is a signature model value.

## 3. Runs

Every run has `CHECK_DEADLOCK FALSE`. The bounds on epochs, accesses, queries and runs end every behaviour, and the real system stops when the simulation ends.

| Run | Config | Expect | Shows |
|---|---|---|---|
| `engine_core` | `MCEpochEngine.cfg` | pass | K = 2, two simulator runs of 2 epochs, the second resuming the file of the first; at most 2 accesses and 1 retired op per epoch. Checks `SmoothedMissRateInUnit`, `IpcMeasuresEpoch` (the IPC an epoch is judged by is that epoch's ops over `ticks_per_epoch`, through the constructor's snapshot, `startup` and each refresh, in both runs), the liveness property `EpochsKeepFiring` and the refinement `BanditRefinement`, restarts included. 834k states. |
| `engine_stats_reset` | `MCEngineStatsReset.cfg` | pass | K = 3, `m5_reset_stats` between epochs: Q values stay within [-1.03, 1] even though the miss rate wraps. With three children an epoch can be credited with child 2's 0.03 penalty. The floor -1.03 bounds the rewards; with α = 1/2 and two epochs the Q values themselves stay well above it. 127k states. |
| `policy_reference` | `MCPolicy.cfg` | pass | The encoders agree with the spec's interval table at each threshold and ±1e-5 around it. The greedy choice is the lowest argmax over all rows of {-1/2, 0, 1/2}. |
| `attribution_core` | `MCAttribution.cfg` | pass | K = 3 with children 0 and 1 issuing and child 2 not `Queued`; 3 addresses, a table of 2, 2 candidates per query, 4 queries, statistics resets at any point. The table stays bounded, and a tracked address is attributed to its newest issuer (spec 4.3). 395k states. |
| `persistence_crash` | `MCQTablePersistence.cfg` | pass | 3 runs, 2 epochs each, 2 child sets, a kill or a failed write at every prefix of a save, and open failures. Startup resumes exactly the last whole save of the same child set, or an empty table. |
| `shared_qfile` | `MCSharedQFile.cfg` | violation | two controllers on caches `l2.c` and `l2_c`, two runs: both sanitise to `qtable_l2_c.bin`, each overwrites the other's table, and neither resumes its own (spec 4.4 keys the file by cache name) |
| `csv_shared_counter` | `MCCsvLogShared.cfg` | violation | a second controller (even a non-logging one) advances the shared counter: the logger writes its row at its 18th epoch, labelled 20 |
| `engine_first_epoch_credit` | `MCEngineInitOff.cfg` | violation | Starting OFF, the first reward moves child 0's value: the engine does not implement `AbstractBandit` |
| `engine_off_penalty` | `MCEngineOffPenalty.cfg` | violation | OFF carries the 0.03 penalty when K = 2 |
| `engine_reset_miss_rate` | `MCEngineResetMissRate.cfg` | violation | After a statistics reset the smoothed miss rate leaves [0,1] |
| `attribution_redundant` | `MCAttributionRedundant.cfg` | violation | A tracked candidate is counted issued when the table was full |
| `attribution_stats_reset` | `MCAttributionStatsReset.cfg` | violation | `m5_reset_stats` zeroes the per-child counters but not `childPfTable`: issue, reset, hit gives useful 1 with issued 0 (`UsefulCreditsBounded`) |

**Why the bounds are enough:**

- **Epochs and runs.** Two epochs per run cover the first epoch (the moving average starts) and the second (the average updates, and the rising miss rate reaches the upper miss bins). A second run reuses the saved rows and repeats the constructor's first-epoch credit on a resumed table. Before restarts were modelled, one run of three epochs gave the same verdicts (387k states). `engine_stats_reset` keeps one run of two epochs, with K = 3. With a second run (K = 2) it took 4m40s (6.9M states). With K = 3 and three epochs it took 2m43s (7.7M states). Both are too close to the five-minute limit.
- **Accesses.** Two accesses per epoch give miss rates 0, 1/2 and 1. These rates reach every miss bin and both signs of the accuracy.
- **Retired ops.** One op per epoch against T = 10000 ticks puts ΔIPC exactly at the ±1e-4 edge of the IPC encoder.
- **Attribution table.** A table of 2 with 3 addresses fills it and clears it within one query. Two issuing children re-issue each other's addresses.
- **Persistence.** Two states give a file of up to four records, so a kill can leave every prefix.
- **CSV.** `EPOCH_PRINT_INTERVAL` stays 20: two controllers run 20 epochs each, enough for a row of the first to be due. With one controller the shared counter is that controller's own count and the interval test is all there is to check, so no run checks that case.
- **Controllers.** Two are enough to share a counter or a file.

**Fairness.** gem5 calls `startup()` on every object and fires every scheduled event. So `Startup` and `UpdateModel` are weakly fair, and nothing else is. `Fairness` in `EpochEngine` states the weak fairness of `UpdateModel` as the weak fairness of an epoch-incrementing step. These are the same, because `UpdateModel` is the only such step. This form keeps TLC's evaluation of ENABLED away from the arithmetic.

**Seen while modelling, not kept as runs** (the runs are capped and kept for the control behaviour):
- K = 0: the constructor's fallback `current_action = 0` is itself invalid, since only OFF exists.
- The first bandit update creates a row for state 0, which no epoch observed (`lastState` starts at 0).
- Spec 8's `sum(actionUse_i) = epochsElapsed` fails with K ≥ 4 (`actionUse0..3` are the only usage counters) and after any `m5_reset_stats`, which zeroes `actionUse0..3` but not the static epoch counter. At K = 2 without resets it holds by the shape of the `switch`, so it is not checked.

## 4. Not modelled

- **`regStats`** only registers names. The Scalars it names are state of `EpochEngine` and `Attribution`, and both zero them on `m5_reset_stats`.
- **CSV row contents**: the numeric fields and their formatting; `CsvLog` keeps who writes a row and its epoch column.
- **Composition of the engine with the attribution** (the engine *is* composed with the file: `EpochEngine` saves and loads through `QTableFile`). The engine never reads the attribution's state, and the attribution reads only `currentAction`, which `Attribution` lets change arbitrarily (`SwitchAction`), a superset of what `switchTo` does; a composed module would check nothing the two do not.
- **Checkpoint restore.** The constructor, not `startup`, snapshots the CPU (hazard listed). The model starts at tick 0, as a fresh simulation does, and `IpcMeasuresEpoch` holds there. A restore would start `startup` at a later tick, and the restore itself is gem5 code outside this repository.
- **Concurrent simulator processes.** `qtable_<name>.bin` lives in the working directory. Two processes of a sweep started in the same directory would write the same file at the same time (hazard listed). The models have one process, whose saves are atomic with respect to each other.
- **Exact exploration decay** (see Data abstractions).
- **The child prefetchers' algorithms.** Their candidates are arbitrary lists.
- **`Queued`'s own queue.**
- **Endianness and byte layout of the file.**
- **Floating-point rounding.**
- **The test programs.** They are workloads, and their only effect on the controller is the access stream and the statistics resets that the environment models.

## 5. Plan

Done so far:
- `Policy`, `EpochEngine`, `Attribution` and `QTablePersistence`.
- `AbstractBandit` with the refinement, `CsvLog`, `QTableFile` and `SharedQFile`.
- The engine across simulator restarts, resuming through `QTableFile`, with `Resume` in `AbstractBandit`.
- Failed writes in `saveQTable`.
- The newest-issuer rule of the attribution, with two issuing children.
- The spec's usage-count invariant, in place of the range check on `currentAction`, which is now part of `TypeOK`.

- The IPC measurement across epochs and runs (`IpcMeasuresEpoch`).
- `engine_stats_reset` at K = 3.

Left: nothing more of the code can be modelled faithfully within TLC's reach; the items under "Not modelled" say why. Exact ε decay was weighed and left out (see Data abstractions).
