---------------------------- MODULE AbstractBandit ----------------------------
(***************************************************************************)
(* What the epoch engine promises (spec sections 4.1 and 4.2), with the    *)
(* arithmetic left out: during an epoch one action is in effect; at the    *)
(* end of the epoch the reward of that epoch moves the value of that       *)
(* action, in the row of the state the epoch started in, and nothing else *)
(* of the table; the row of the newly observed state exists, full width,   *)
(* with its old values; then a new action is put in effect.  A new run of *)
(* the simulator resumes every value learned so far, with whatever action  *)
(* and starting state its construction gives.                              *)
(*                                                                         *)
(* The step is a predicate on the new table rather than a choice of its    *)
(* values, so that the module serves as a property of the detailed         *)
(* engine, which computes the values.                                      *)
(***************************************************************************)
EXTENDS Integers, Policy

VARIABLES
    action,   \* the semantic action in effect: -1 (OFF) or a child index
    values,   \* state -> bandit index -> value
    prev,     \* the state the current epoch started in
    run       \* the simulator run, counted from 1

avars == <<action, values, prev, run>>

ZeroRow == [i \in BanditIndices |-> RZero]

\* The bandit index whose value an epoch spent under action a feeds.
Credited(a) == IF a = -1 THEN OffIndex ELSE a

OldRow(s) == IF s \in DOMAIN values THEN values[s] ELSE ZeroRow

Init ==
    /\ action \in SemanticActions
    /\ values = <<>>
    /\ prev \in StateSpace
    /\ run = 1

Epoch ==
    /\ action' \in SemanticActions
    /\ prev' \in StateSpace
    /\ DOMAIN values' = DOMAIN values \cup {prev, prev'}
    /\ \A s \in DOMAIN values' :
         /\ DOMAIN values'[s] = BanditIndices
         /\ \A i \in BanditIndices :
              values'[s][i] = OldRow(s)[i] \/ (s = prev /\ i = Credited(action))
    /\ UNCHANGED run

Resume ==
    /\ run' = run + 1
    /\ values' = values
    /\ action' \in SemanticActions
    /\ prev' \in StateSpace

Spec == Init /\ [][Epoch \/ Resume]_avars
=============================================================================
