----------------------------- MODULE EpochEngine -----------------------------
(***************************************************************************)
(* The epoch engine of MLPrefetchController (ml_prefetch_controller.cc):   *)
(* construction, startup, and the update_event handler updateModel, which  *)
(* runs endEpoch (observe the cache and CPU counters, smooth, discretise,  *)
(* shape the reward, update the Q-table, select and switch the next        *)
(* action), saves the Q-table and reschedules itself.  The cache and CPU   *)
(* counters it reads are modelled as the environment: accesses and retired *)
(* ops between epochs, and gem5's m5_reset_stats, which the repository's   *)
(* test programs call around their region of interest.  A run of the      *)
(* simulator may end between two events and a new one construct the        *)
(* controller afresh; only the Q-table file, in the format of QTableFile,  *)
(* survives, and startup loads it (files cut short by a crash and files of *)
(* another child set are QTablePersistence's).                             *)
(*                                                                         *)
(* Doubles are exact rationals (ExactRationals).  The exploration rate is  *)
(* abstracted to whether it is zero: random()/RAND_MAX lies in [0, 1], so  *)
(* for 0 < eps <= 1 both the explore and the exploit branch can be taken,  *)
(* and for eps = 0 only the exploit branch.                                *)
(***************************************************************************)
EXTENDS Integers, FiniteSets, TLC, Functions, Policy, QTableFile

CONSTANTS
    InitAction,        \* p.current_action, before the constructor's check
    HasCache,          \* cache_name resolves to a BaseCache
    HasCpu,            \* p.cpu is not null
    TicksPerEpoch,     \* p.ticks_per_epoch
    LearningRate,      \* p.learning_rate, a rational in (0, 1]
    ExploreInit,       \* p.explore_rate: "zero" or "positive" (in (0, 1])
    CounterWidth,      \* bits of the uint64_t counter arithmetic, scaled down
    CanResetStats,     \* whether the workload calls m5_reset_stats
    MaxEpochs,         \* bound: epoch events of one run
    MaxRuns,           \* bound: simulator runs
    MaxAccessesPerEpoch, \* bound: cache accesses between two epoch events
    MaxOpsPerEpoch     \* bound: ops retired between two epoch events

ASSUME
    /\ InitAction \in Int
    /\ HasCache \in BOOLEAN /\ HasCpu \in BOOLEAN /\ CanResetStats \in BOOLEAN
    /\ TicksPerEpoch \in Nat \ {0}
    /\ RLt(RZero, LearningRate) /\ RLe(LearningRate, Int2Rat(1))
    /\ ExploreInit \in {"zero", "positive"}
    /\ MaxEpochs \in Nat /\ MaxRuns \in Nat \ {0} /\ MaxAccessesPerEpoch \in Nat /\ MaxOpsPerEpoch \in Nat
    \* The counters themselves never wrap within the bounds.
    /\ 2^CounterWidth > MaxEpochs * MaxAccessesPerEpoch

Modulus == 2^CounterWidth

\* MISS_SMOOTH_ALPHA and ACC_MAX_SPAN.
MissSmoothAlpha == Rat(3, 10)
AccMaxSpan == Rat(2, 10)
\* Dead zone of the IPC sign in the reward.
IpcSignDeadZone == Rat(1, 1000000)

EmptyRow == [i \in BanditIndices |-> RZero]

\* childrenSignature(): the child set is fixed within a model, each child
\* named by its index.
ChildrenSignature == [i \in 0..(K - 1) |-> i]

VARIABLES
    \* controller state (ml_prefetch_controller.hh)
    currentAction, lastState, lastAction, lastReward, qTable, exploreRate,
    lastAccesses, lastMisses, lastTotalOps, lastIpc, lastIpcTick,
    lastMissRate, smoothedMissRate, lastSmoothedMiss, haveSmoothedMiss,
    epochAccesses, epochMisses, actionUse,
    epoch,             \* the function-static epoch counter of endEpoch
    qfile,             \* qtable_<name>.bin as last written by saveQTable
    \* event queue: update_event scheduled, and the tick it fires at
    scheduled, eventTick, now,
    \* environment: the cache's runtime counters and the CPU's totalOps
    cacheAccesses, cacheMisses, cpuOps,
    epochOps,          \* ops retired since the last epoch (bounds the model)
    runs               \* simulator runs started (bounds the model)

ctrlVars == <<currentAction, lastState, lastAction, lastReward, qTable,
              exploreRate, lastAccesses, lastMisses, lastTotalOps, lastIpc,
              lastIpcTick, lastMissRate, smoothedMissRate, lastSmoothedMiss,
              haveSmoothedMiss, epochAccesses, epochMisses, actionUse, epoch,
              qfile>>
envVars == <<scheduled, eventTick, now, cacheAccesses, cacheMisses, cpuOps,
             epochOps, runs>>
vars == <<ctrlVars, envVars>>

(***************************************************************************)
(* Construction (the MLPrefetchController constructor) at tick 0: an      *)
(* initial action outside -1..children.size()-1 is reset to 0; the CPU's  *)
(* ops are snapshotted if there is a CPU; the Q-table is empty.  A new     *)
(* simulation starts at tick 0 with fresh cache and CPU counters.          *)
(***************************************************************************)
ConstructedAction ==
    IF InitAction < -1 \/ InitAction >= K THEN 0 ELSE InitAction

Init ==
    /\ currentAction = ConstructedAction
    /\ lastState = 0 /\ lastAction = 0 /\ lastReward = RZero
    /\ qTable = <<>>
    /\ exploreRate = ExploreInit
    /\ lastAccesses = 0 /\ lastMisses = 0
    /\ lastTotalOps = 0 /\ lastIpc = RZero /\ lastIpcTick = 0
    /\ lastMissRate = RZero /\ smoothedMissRate = RZero
    /\ lastSmoothedMiss = RZero /\ haveSmoothedMiss = FALSE
    /\ epochAccesses = 0 /\ epochMisses = 0
    /\ actionUse = [i \in 0..3 |-> 0]
    /\ epoch = 0
    /\ qfile = <<>>
    /\ scheduled = FALSE /\ eventTick = 0 /\ now = 0
    /\ cacheAccesses = 0 /\ cacheMisses = 0 /\ cpuOps = 0 /\ epochOps = 0
    /\ runs = 1

(***************************************************************************)
(* startup(): loadQTable reads the file (none in the first run), the cache *)
(* counters are snapshotted when the cache resolves, and update_event is   *)
(* scheduled.                                                              *)
(***************************************************************************)
Startup ==
    /\ ~scheduled /\ epoch = 0
    /\ lastAccesses' = IF HasCache THEN cacheAccesses ELSE lastAccesses
    /\ lastMisses' = IF HasCache THEN cacheMisses ELSE lastMisses
    /\ qTable' = Load(qfile, ChildrenSignature).table
    /\ scheduled' = TRUE
    /\ eventTick' = now + TicksPerEpoch
    /\ UNCHANGED <<currentAction, lastState, lastAction, lastReward,
                   exploreRate, lastTotalOps, lastIpc, lastIpcTick,
                   lastMissRate, smoothedMissRate, lastSmoothedMiss,
                   haveSmoothedMiss, epochAccesses, epochMisses, actionUse,
                   epoch, qfile, now, cacheAccesses, cacheMisses, cpuOps,
                   epochOps, runs>>

(***************************************************************************)
(* Helpers of endEpoch, one per step of the handler.                       *)
(***************************************************************************)

\* Step 1: per-epoch deltas of the cache's totals, in uint64_t arithmetic.
MissRateOf(dAcc, dMis) == IF dAcc > 0 THEN Rat(dMis, dAcc) ELSE RZero

\* Seeded bug: lastMisses is not refreshed with lastAccesses.
SnapshotCacheAccessesOnly ==
    /\ lastAccesses' = IF HasCache THEN cacheAccesses ELSE lastAccesses
    /\ lastMisses' = lastMisses

SnapshotCache ==
    /\ lastAccesses' = IF HasCache THEN cacheAccesses ELSE lastAccesses
    /\ lastMisses' = IF HasCache THEN cacheMisses ELSE lastMisses

\* Step 3: exponential moving average; the first epoch starts it.
SmoothedOf(missRate) ==
    IF haveSmoothedMiss
    THEN RAdd(RMul(MissSmoothAlpha, missRate),
              RMul(RSub(Int2Rat(1), MissSmoothAlpha), smoothedMissRate))
    ELSE missRate

\* Seeded bug: the improvement is not clamped.
AccuracyUnclamped(prevSmoothed, newSmoothed) ==
    RDiv(RAdd(RSub(prevSmoothed, newSmoothed), AccMaxSpan),
         RMul(Int2Rat(2), AccMaxSpan))

\* Accuracy: the improvement clamped to [-ACC_MAX_SPAN, ACC_MAX_SPAN],
\* mapped linearly to [0, 1].
AccuracyOf(prevSmoothed, newSmoothed) ==
    LET improve == RClamp(RSub(prevSmoothed, newSmoothed),
                          RSub(RZero, AccMaxSpan), AccMaxSpan)
    IN  RDiv(RAdd(improve, AccMaxSpan), RMul(Int2Rat(2), AccMaxSpan))

IpcSign(ipcDelta) ==
    CASE RLt(IpcSignDeadZone, ipcDelta)            -> Int2Rat(1)
      [] RLt(ipcDelta, RSub(RZero, IpcSignDeadZone)) -> Int2Rat(-1)
      [] OTHER                                     -> RZero

\* Step 5: 0.5 * ipcSign + 0.5 * (2 * accuracy - 1) - actionPenalties[lastAction].
RewardOf(ipcDelta, accuracy) ==
    RSub(RAdd(RMul(Rat(1, 2), IpcSign(ipcDelta)),
              RMul(Rat(1, 2), RSub(RMul(Int2Rat(2), accuracy), Int2Rat(1)))),
         ActionPenalties[lastAction])

\* qTable[s], created and resized to numActions zeros on first touch.
RowOf(table, s) == IF s \in DOMAIN table THEN table[s] ELSE EmptyRow

\* Seeded bug: every entry of the row is moved toward the reward.
BanditUpdateAllActions(table, reward) ==
    LET row == RowOf(table, lastState)
    IN  (lastState :> [i \in BanditIndices |->
                          RAdd(row[i], RMul(LearningRate, RSub(reward, row[i])))])
        @@ table

\* Step 6: row[lastAction] += learningRate * (reward - row[lastAction]).
BanditUpdate(table, reward) ==
    LET row == RowOf(table, lastState)
        old == row[lastAction]
    IN  (lastState :> [row EXCEPT ![lastAction] =
                          RAdd(old, RMul(LearningRate, RSub(reward, old)))])
        @@ table

\* The switch (nextBanditIdx) { case 0..3: actionUseN++; default: break; }.
CountActionUse(next) ==
    IF next \in DOMAIN actionUse
    THEN [actionUse EXCEPT ![next] = @ + 1] ELSE actionUse

\* switchTo(index)
SwitchTo(index) == currentAction' = index

\* updateModel's schedule(update_event, curTick() + epoch_ticks).
\* Seeded bug: the handler does not reschedule itself.
RescheduleDropped(t) == scheduled' = FALSE /\ eventTick' = eventTick

Reschedule(t) == scheduled' = TRUE /\ eventTick' = t + TicksPerEpoch

\* selectAction(state) on the (created, full-width) row of the state: with
\* exploreRate > 0 any of random() % numActions, and the greedy index.
SelectAction(row) ==
    (IF exploreRate = "zero" THEN {} ELSE BanditIndices) \cup {SelectGreedy(row)}

(***************************************************************************)
(* Steps 1-5 of endEpoch: what the epoch fired at eventTick observes, as a *)
(* record.  The cache deltas are uint64_t differences; without a cache the *)
(* miss rate is 0; without a CPU, or with dt = 0, the IPC carries over.    *)
(***************************************************************************)
Observation ==
    LET dAcc == (cacheAccesses - lastAccesses) % Modulus
        dMis == (cacheMisses - lastMisses) % Modulus
        missRate == IF HasCache THEN MissRateOf(dAcc, dMis) ELSE RZero
        dt == eventTick - lastIpcTick
        ipcFresh == HasCpu /\ dt > 0
        newIpc == IF ipcFresh THEN Rat(cpuOps - lastTotalOps, dt) ELSE lastIpc
        ipcDelta == IF ipcFresh THEN RSub(newIpc, lastIpc) ELSE RZero
        prevSmoothed == IF haveSmoothedMiss THEN smoothedMissRate ELSE missRate
        newSmoothed == SmoothedOf(missRate)
        accuracy == AccuracyOf(prevSmoothed, newSmoothed)
    IN  [missRate |-> missRate, newIpc |-> newIpc,
         prevSmoothed |-> prevSmoothed, newSmoothed |-> newSmoothed,
         state |-> EncodeState(EncodeAccuracy(accuracy),
                               EncodeDeltaMiss(RSub(newSmoothed, prevSmoothed)),
                               EncodeDeltaIpc(ipcDelta)),
         reward |-> RewardOf(ipcDelta, accuracy)]

\* The CPU snapshot of updateModel: ops and tick of this epoch's end become
\* the base of the next epoch's IPC.
SnapshotCpuTickOnly ==
    /\ lastTotalOps' = lastTotalOps
    /\ lastIpcTick' = IF HasCpu THEN eventTick ELSE lastIpcTick

SnapshotCpu ==
    /\ lastTotalOps' = IF HasCpu THEN cpuOps ELSE lastTotalOps
    /\ lastIpcTick' = IF HasCpu THEN eventTick ELSE lastIpcTick

(***************************************************************************)
(* updateModel(): endEpoch() (steps 6-9: bandit update, selectAction,      *)
(* usage counter, decay, switch, history, counter reset), saveQTable()     *)
(* and the reschedule, as one step.  selected is the table after           *)
(* selectAction has touched the row of the new state.                      *)
(***************************************************************************)
\* update_event is pending and the bound not reached.
EpochDue == scheduled /\ epoch < MaxEpochs

UpdateModel ==
    /\ EpochDue
    /\ \E o \in {Observation} :
       \E selected \in {LET t == BanditUpdate(qTable, o.reward)
                        IN  (o.state :> RowOf(t, o.state)) @@ t} :
       \E next \in SelectAction(selected[o.state]) :
        /\ SnapshotCache
        /\ SnapshotCpu
        /\ lastIpc' = o.newIpc
        /\ lastMissRate' = o.missRate
        /\ smoothedMissRate' = o.newSmoothed
        /\ lastSmoothedMiss' = o.prevSmoothed
        /\ haveSmoothedMiss' = TRUE
        /\ lastReward' = o.reward
        /\ qTable' = selected
        /\ actionUse' = CountActionUse(next)
        \* max(EXPLORE_MIN, eps * EXPLORE_DECAY) is positive
        /\ exploreRate' = "positive"
        /\ epoch' = epoch + 1
        /\ SwitchTo(SemanticAction(next))
        /\ lastState' = o.state
        /\ lastAction' = next
        /\ epochAccesses' = 0 /\ epochMisses' = 0
        /\ qfile' = Image(ChildrenSignature, selected)
        /\ now' = eventTick
        /\ Reschedule(eventTick)
        /\ epochOps' = 0
        /\ UNCHANGED <<cacheAccesses, cacheMisses, cpuOps, runs>>

(***************************************************************************)
(* Environment.  A cache access increments the cache's runtime counters    *)
(* and, through notify(), the controller's per-epoch debug counters.       *)
(***************************************************************************)
CacheAccess(miss) ==
    /\ scheduled /\ epochAccesses < MaxAccessesPerEpoch
    /\ cacheAccesses' = cacheAccesses + 1
    /\ cacheMisses' = IF miss THEN cacheMisses + 1 ELSE cacheMisses
    /\ epochAccesses' = epochAccesses + 1
    /\ epochMisses' = IF miss THEN epochMisses + 1 ELSE epochMisses
    /\ UNCHANGED <<currentAction, lastState, lastAction, lastReward, qTable,
                   exploreRate, lastAccesses, lastMisses, lastTotalOps,
                   lastIpc, lastIpcTick, lastMissRate, smoothedMissRate,
                   lastSmoothedMiss, haveSmoothedMiss, actionUse, epoch, qfile,
                   scheduled, eventTick, now, cpuOps, epochOps, runs>>

RetireOp ==
    /\ scheduled /\ HasCpu /\ epochOps < MaxOpsPerEpoch
    /\ cpuOps' = cpuOps + 1
    /\ epochOps' = epochOps + 1
    /\ UNCHANGED <<ctrlVars, scheduled, eventTick, now, cacheAccesses,
                   cacheMisses, runs>>

\* m5_reset_stats between two epochs zeroes every statistic: the cache's
\* totals and the controller's own Scalars actionUse0..3, not the members
\* or the function-static epoch counter.
ResetStats ==
    /\ scheduled /\ CanResetStats /\ cacheAccesses > 0
    /\ cacheAccesses' = 0 /\ cacheMisses' = 0
    /\ actionUse' = [i \in 0..3 |-> 0]
    /\ UNCHANGED <<currentAction, lastState, lastAction, lastReward, qTable,
                   exploreRate, lastAccesses, lastMisses, lastTotalOps,
                   lastIpc, lastIpcTick, lastMissRate, smoothedMissRate,
                   lastSmoothedMiss, haveSmoothedMiss, epochAccesses,
                   epochMisses, epoch, qfile, scheduled, eventTick, now,
                   cpuOps, epochOps, runs>>

\* The simulation ends between two events, after startup (exit or kill), and
\* a new one constructs the controller; only the file is kept, and the
\* function-static epoch counter starts again with the process.
Restart ==
    /\ scheduled /\ runs < MaxRuns
    /\ currentAction' = ConstructedAction
    /\ lastState' = 0 /\ lastAction' = 0 /\ lastReward' = RZero
    /\ qTable' = <<>>
    /\ exploreRate' = ExploreInit
    /\ lastAccesses' = 0 /\ lastMisses' = 0
    /\ lastTotalOps' = 0 /\ lastIpc' = RZero /\ lastIpcTick' = 0
    /\ lastMissRate' = RZero /\ smoothedMissRate' = RZero
    /\ lastSmoothedMiss' = RZero /\ haveSmoothedMiss' = FALSE
    /\ epochAccesses' = 0 /\ epochMisses' = 0
    /\ actionUse' = [i \in 0..3 |-> 0]
    /\ epoch' = 0
    /\ scheduled' = FALSE /\ eventTick' = 0 /\ now' = 0
    /\ cacheAccesses' = 0 /\ cacheMisses' = 0 /\ cpuOps' = 0 /\ epochOps' = 0
    /\ runs' = runs + 1
    /\ UNCHANGED qfile

Next ==
    \/ Startup
    \/ UpdateModel
    \/ \E miss \in BOOLEAN : CacheAccess(miss)
    \/ RetireOp
    \/ ResetStats
    \/ Restart

(***************************************************************************)
(* gem5 calls startup() on every SimObject and fires every scheduled       *)
(* event, so Startup and UpdateModel are weakly fair.  UpdateModel is      *)
(* enabled exactly when EpochDue holds, and it is the only action that     *)
(* increments epoch, so WF_vars(UpdateModel) is stated as the equivalent *)
(* fairness of an epoch-incrementing step, which TLC evaluates without    *)
(* the arithmetic.                                                         *)
(***************************************************************************)
Fairness ==
    /\ WF_vars(Startup)
    /\ WF_epoch(EpochDue /\ epoch' = epoch + 1)

Spec == Init /\ [][Next]_vars /\ Fairness

(***************************************************************************)
(* Properties.                                                             *)
(***************************************************************************)
IsRat(x) == DOMAIN x = {"num", "den"} /\ x.num \in Int /\ x.den \in Nat /\ x.den > 0

TypeOK ==
    /\ currentAction \in SemanticActions
    /\ lastState \in StateSpace /\ lastAction \in BanditIndices
    /\ DOMAIN qTable \subseteq StateSpace
    /\ \A s \in DOMAIN qTable : DOMAIN qTable[s] = BanditIndices
                                /\ \A i \in BanditIndices : IsRat(qTable[s][i])
    /\ exploreRate \in {"zero", "positive"}
    /\ \A x \in {lastReward, lastIpc, lastMissRate, smoothedMissRate,
                 lastSmoothedMiss} : IsRat(x)
    /\ actionUse \in [0..3 -> Nat]
    /\ scheduled \in BOOLEAN

\* The smoothed miss rate the state and the reward are derived from is a
\* rate: it stays within [0, 1] across epochs.
SmoothedMissRateInUnit ==
    RLe(RZero, smoothedMissRate) /\ RLe(smoothedMissRate, Int2Rat(1))

\* The reward is 0.5 * ipcSign + 0.5 * accCentered - penalty, within
\* [-1 - 0.03, 1]; every Q-value, a running mix of 0 and rewards, stays in
\* that range whatever the cache counters do.
RewardFloor == Rat(-103, 100)
QValuesBounded ==
    \A s \in DOMAIN qTable : \A i \in BanditIndices :
        RLe(RewardFloor, qTable[s][i]) /\ RLe(qTable[s][i], Int2Rat(1))

\* An epoch spent OFF is credited without a penalty: the reward endEpoch
\* computes for lastAction = OFF subtracts nothing (spec section 3;
\* constructor comment "Last bandit index = OFF -> no penalty").
OffUnpenalised ==
    [][epoch' = epoch + 1 /\ lastAction = OffIndex
         => ActionPenalties[lastAction] = RZero]_vars

(***************************************************************************)
(* Refinement: the engine implements AbstractBandit, the action in effect *)
(* being currentAction, the epoch's starting state lastState, and the      *)
(* values the Q-table once startup has run, the table the file would load *)
(* before.  It fails if an epoch's reward lands on any entry but the one   *)
(* of the action that was in effect, if a row is lost, resized or created  *)
(* for a state the epoch neither started in nor observed, or if a restart *)
(* does not resume exactly the values learned so far.                     *)
(***************************************************************************)
LearnedValues ==
    IF scheduled THEN qTable ELSE Load(qfile, ChildrenSignature).table

Bandit == INSTANCE AbstractBandit
              WITH action <- currentAction, values <- LearnedValues,
                   prev <- lastState, run <- runs

\* The engine's updateModel is, per epoch, a step of the abstract bandit.
BanditRefinement == Bandit!Spec

\* The IPC an epoch is judged by (newIpc, kept as lastIpc) is the ops the
\* CPU retired during that epoch over the epoch's length: the ctor's
\* snapshot (lastTotalOps, lastIpcTick = curTick()), startup's scheduling
\* and every updateModel's refresh of the snapshot must line up, in every
\* run of the file, for the first epoch as for the later ones.
IpcMeasuresEpoch ==
    [][epoch' = epoch + 1 /\ HasCpu
         => lastIpc' = Rat(epochOps, TicksPerEpoch)]_vars

\* Once update_event is scheduled, epochs keep firing up to the bound.
EpochsKeepFiring == scheduled ~> (epoch = MaxEpochs)
=============================================================================
