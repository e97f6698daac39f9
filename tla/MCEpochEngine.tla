---------------------------- MODULE MCEpochEngine ----------------------------
(***************************************************************************)
(* Instantiates EpochEngine for TLC.                                       *)
(*                                                                         *)
(* TicksPerEpoch = 10000 puts one op per epoch exactly on the 1e-4 IPC     *)
(* threshold, so that both sides of encodeDeltaIpc's boundary occur; two   *)
(* accesses per epoch give miss rates 0, 1/2 and 1 and the dAcc = 0 case.  *)
(***************************************************************************)
EXTENDS EpochEngine

\* learning_rate = 0.5
MCLearningRate == Rat(1, 2)

\* current_action = -1 (OFF)
MCInitOff == -1
=============================================================================
