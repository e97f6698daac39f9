------------------------------ MODULE MCPolicy ------------------------------
(***************************************************************************)
(* Checks the pure operators of Policy against reference definitions       *)
(* written from the thresholds and the tie rule of spec sections 3 and     *)
(* 4.2, over every row of Q-values drawn from a small set and every        *)
(* observation drawn from a set that holds each threshold and a value on   *)
(* either side of it.                                                      *)
(***************************************************************************)
EXTENDS Integers, FiniteSets, Sequences, Policy

CONSTANT QValues

\* Q-values a row may hold: ties and strict orders between entries.
MCQValues == {Rat(-1, 2), RZero, Rat(1, 2)}

VARIABLES row, obs

vars == <<row, obs>>

\* Each threshold of the three encoders, and a value just below and above.
Edges == {Rat(-10, 100), Rat(-2, 100), Rat(2, 100), Rat(10, 100),
          Rat(-1, 10000), Rat(1, 10000), Rat(20, 100), Rat(60, 100)}
Samples == Edges \cup {RAdd(e, Rat(s, 100000)) : e \in Edges, s \in {-1, 1}}

Init ==
    /\ row \in [BanditIndices -> QValues]
    /\ obs \in Samples

Next == UNCHANGED vars

Spec == Init /\ [][Next]_vars

\* Spec 3: bin b of n bins is the interval between bounds[b] and
\* bounds[b + 1], [lo, hi) for missBin and ipcBin, (lo, hi] for accBin, the
\* first bin unbounded below and the last unbounded above.
InLeftClosed(x, bounds, b) ==
    /\ (b = 0 \/ RLe(bounds[b], x))
    /\ (b = Len(bounds) \/ RLt(x, bounds[b + 1]))
InRightClosed(x, bounds, b) ==
    /\ (b = 0 \/ RLt(bounds[b], x))
    /\ (b = Len(bounds) \/ RLe(x, bounds[b + 1]))

MissBounds == <<Rat(-10, 100), Rat(-2, 100), Rat(2, 100), Rat(10, 100)>>
IpcBounds  == <<Rat(-1, 10000), Rat(1, 10000)>>
AccBounds  == <<Rat(20, 100), Rat(60, 100)>>

SpecMissBin(d) == CHOOSE b \in 0..4 : InLeftClosed(d, MissBounds, b)
SpecIpcBin(d)  == CHOOSE b \in 0..2 : InLeftClosed(d, IpcBounds, b)
SpecAccBin(a)  == CHOOSE b \in 0..2 : InRightClosed(a, AccBounds, b)

\* Spec 4.2: the index of the maximum value, ties to the lowest index.
SpecArgMax(r) ==
    CHOOSE i \in BanditIndices :
        /\ \A j \in BanditIndices : RLe(r[j], r[i])
        /\ \A j \in 0..(i - 1) : RLt(r[j], r[i])

TypeOK ==
    /\ row \in [BanditIndices -> QValues]
    /\ obs \in Samples

\* encodeDeltaMiss, encodeDeltaIpc and encodeAccuracy put every observation,
\* the thresholds themselves included, in the bin spec section 3 gives it.
EncodersMatchSpec ==
    /\ EncodeDeltaMiss(obs) = SpecMissBin(obs)
    /\ EncodeDeltaIpc(obs) = SpecIpcBin(obs)
    /\ EncodeAccuracy(obs) = SpecAccBin(obs)

\* The greedy branch of selectAction returns the lowest index holding the
\* row's maximum.
GreedyIsLowestArgMax == SelectGreedy(row) = SpecArgMax(row)
=============================================================================
