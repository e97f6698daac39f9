------------------------------- MODULE Policy -------------------------------
(***************************************************************************)
(* The pure parts of the bandit controller (ml_prefetch_controller.cc):    *)
(* the discretisation of the observations into a state, the action space   *)
(* and its penalties, and the greedy choice of selectAction.  K is the     *)
(* number of child prefetchers; bandit indices are 0..K, K meaning OFF.    *)
(***************************************************************************)
EXTENDS Integers, FiniteSets, ExactRationals

CONSTANT K

ASSUME K \in Nat

\* numActions = children.size() + 1; the last bandit index is OFF.
BanditIndices == 0..K
OffIndex == K

\* Semantic actions: -1 is OFF, i >= 0 the child i.
SemanticActions == -1..(K - 1)

\* endEpoch: bandit index -> semantic action.
SemanticAction(b) == IF b = K THEN -1 ELSE b

\* Constructor: actionPenalties.assign(numActions, 0.0), then index 1 gets
\* 0.02 when numActions >= 2 and index 2 gets 0.03 when numActions >= 3,
\* whichever of them is the OFF index.
ActionPenalties ==
    [i \in BanditIndices |->
        CASE i = 1 -> Rat(2, 100)
          [] i = 2 -> Rat(3, 100)
          [] OTHER -> RZero]

(***************************************************************************)
(* Discretisation.  Each encoder returns the number of thresholds the      *)
(* value has passed: encodeDeltaMiss and encodeDeltaIpc test d < t (so a   *)
(* value equal to a threshold is in the upper bin), encodeAccuracy tests   *)
(* a <= t (so it is in the lower bin).                                     *)
(***************************************************************************)
MissThresholds == {Rat(-10, 100), Rat(-2, 100), Rat(2, 100), Rat(10, 100)}
IpcThresholds  == {Rat(-1, 10000), Rat(1, 10000)}
AccThresholds  == {Rat(20, 100), Rat(60, 100)}

\* Seeded bug: a value equal to a threshold falls into the lower bin.
EncodeDeltaMissLowerEdge(d) == Cardinality({t \in MissThresholds : RLt(t, d)})

EncodeDeltaMiss(d) == Cardinality({t \in MissThresholds : RLe(t, d)})

EncodeDeltaIpc(d) == Cardinality({t \in IpcThresholds : RLe(t, d)})

EncodeAccuracy(a) == Cardinality({t \in AccThresholds : RLt(t, a)})

\* Seeded bug: the weights of accBin and missBin are swapped.
EncodeStateSwapped(accBin, missBin, ipcBin) == missBin * 100 + accBin * 10 + ipcBin

\* state = accBin * 100 + missBin * 10 + ipcBin
EncodeState(accBin, missBin, ipcBin) == accBin * 100 + missBin * 10 + ipcBin

\* The 45 packed states of spec section 3.
StateSpace == {a * 100 + m * 10 + i : a \in 0..2, m \in 0..4, i \in 0..2}

(***************************************************************************)
(* Greedy part of selectAction: scan i = 1..numActions-1 keeping the best  *)
(* index, replacing it only on a strictly greater value, so that ties go   *)
(* to the lowest index.                                                    *)
(***************************************************************************)
RECURSIVE GreedyScanGe(_, _, _)
\* Seeded bug: the scan replaces on >=, so ties go to the highest index.
GreedyScanGe(row, i, best) ==
    IF i > K THEN best
    ELSE GreedyScanGe(row, i + 1, IF RLe(row[best], row[i]) THEN i ELSE best)

SelectGreedyTiesHigh(row) == GreedyScanGe(row, 1, 0)

RECURSIVE GreedyScan(_, _, _)
GreedyScan(row, i, best) ==
    IF i > K THEN best
    ELSE GreedyScan(row, i + 1, IF RLt(row[best], row[i]) THEN i ELSE best)

SelectGreedy(row) == GreedyScan(row, 1, 0)
=============================================================================
