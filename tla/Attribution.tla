----------------------------- MODULE Attribution -----------------------------
(***************************************************************************)
(* Prefetch routing and per-child attribution of MLPrefetchController     *)
(* (ml_prefetch_controller.cc): calculatePrefetch fans a query out to the  *)
(* children, emits only the candidates of the child currentAction selects *)
(* and records each one in childPfTable (trackIssuedForChild); notify      *)
(* credits a child when a demand hit finds its address in the table        *)
(* (trackUsefulForAddr).  The statistics exist for children 0..3 only.     *)
(*                                                                         *)
(* The children's candidate generation is the environment: any sequence   *)
(* of at most MaxCandidates addresses.  Their own training is internal to  *)
(* them and not modelled.  ChildPfMeta.issueTick is written and never      *)
(* read, so the table maps an address to the child index alone.  Here      *)
(* currentAction changes by SwitchAction, which stands for the epoch       *)
(* engine, which may put any action in effect between two queries.       *)
(***************************************************************************)
EXTENDS Integers, FiniteSets, Sequences, SequencesExt, Functions, TLC

CONSTANTS
    K,                     \* children.size()
    QueuedChildren,        \* children for which dynamic_cast<Queued*> succeeds
    Addrs,                 \* block addresses
    MaxTrackedPrefetches,  \* MaxTrackedPrefetches (2048 in the code)
    MaxCandidates,         \* bound: candidates a child returns per query
    MaxQueries             \* bound: calculatePrefetch calls

ASSUME
    /\ K \in Nat /\ QueuedChildren \subseteq 0..(K - 1)
    /\ MaxTrackedPrefetches \in Nat \ {0}
    /\ MaxCandidates \in Nat /\ MaxQueries \in Nat

VARIABLES
    currentAction,   \* -1 = OFF, else the index of the issuing child
    childPfTable,    \* block address -> index of the child that issued it
    pfIssued,        \* childNPfIssued, N = 0..3
    pfUseful,        \* childNPfUseful
    pfRedundant,     \* childNPfRedundant
    addresses,       \* the candidate list the last query emitted
    queries,         \* calculatePrefetch calls so far (bounds the model)
    issuedBy         \* history: address -> child whose query last emitted it

attrVars == <<childPfTable, pfIssued, pfUseful, pfRedundant, addresses, queries,
              issuedBy>>
vars == <<currentAction, attrVars>>

StatIndices == 0..3

\* The switch (childIndex) { case 0..3: counter++; default: break; }.
Bump(ctr, i) == IF i \in StatIndices THEN [ctr EXCEPT ![i] = @ + 1] ELSE ctr

NoCounts == [i \in StatIndices |-> 0]

Init ==
    /\ currentAction \in -1..(K - 1)
    /\ childPfTable = <<>>
    /\ pfIssued = NoCounts /\ pfUseful = NoCounts /\ pfRedundant = NoCounts
    /\ addresses = <<>>
    /\ queries = 0
    /\ issuedBy = <<>>

(***************************************************************************)
(* trackIssuedForChild(childIndex, addr) on st = [table, issued,           *)
(* redundant]: a full table is cleared first, whatever the address; then a *)
(* tracked address is overwritten and counted redundant, an untracked one  *)
(* inserted and counted issued.                                            *)
(***************************************************************************)
\* Seeded bug: the table is cleared only once it exceeds the limit.
ClearIfFullPastLimit(table) ==
    IF Cardinality(DOMAIN table) > MaxTrackedPrefetches THEN <<>> ELSE table

ClearIfFull(table) ==
    IF Cardinality(DOMAIN table) >= MaxTrackedPrefetches THEN <<>> ELSE table

\* Seeded bug: a re-issued address keeps the child that first issued it.
TrackIssuedForChildKeepIssuer(st, childIndex, addr) ==
    LET table == ClearIfFull(st.table)
    IN  IF addr \in DOMAIN table
        THEN [st EXCEPT !.table = table, !.redundant = Bump(@, childIndex)]
        ELSE [st EXCEPT !.table = (addr :> childIndex) @@ table,
                        !.issued = Bump(@, childIndex)]

TrackIssuedForChild(st, childIndex, addr) ==
    LET table == ClearIfFull(st.table)
    IN  IF addr \in DOMAIN table
        THEN [st EXCEPT !.table = [table EXCEPT ![addr] = childIndex],
                        !.redundant = Bump(@, childIndex)]
        ELSE [st EXCEPT !.table = (addr :> childIndex) @@ table,
                        !.issued = Bump(@, childIndex)]

(***************************************************************************)
(* calculatePrefetch: every child is queried; only the child equal to the  *)
(* active action, if its cast to Queued succeeds, has its candidates       *)
(* appended to addresses and tracked, in order.  OFF (-1) matches no child.*)
(***************************************************************************)
\* Seeded bug: a child is taken as issuing whether or not it is Queued.
EmitsWithoutCast(active) == active \in 0..(K - 1)

\* Whether the query's candidates are emitted: some child i == active
\* survives the dynamic_cast<Queued*>.
Emits(active) == active \in QueuedChildren

CalculatePrefetch ==
    /\ queries < MaxQueries
    /\ \E cands \in BoundedSeq(Addrs, MaxCandidates) :
        LET active == currentAction
            emits == Emits(active)
            st0 == [table |-> childPfTable, issued |-> pfIssued,
                    redundant |-> pfRedundant]
            st == FoldLeft(LAMBDA s, a : TrackIssuedForChild(s, active, a),
                           st0, cands)
        IN  /\ addresses' = IF emits THEN cands ELSE <<>>
            /\ childPfTable' = IF emits THEN st.table ELSE childPfTable
            /\ pfIssued' = IF emits THEN st.issued ELSE pfIssued
            /\ pfRedundant' = IF emits THEN st.redundant ELSE pfRedundant
            /\ issuedBy' = IF emits THEN [a \in ToSet(cands) |-> active] @@ issuedBy
                                     ELSE issuedBy
    /\ queries' = queries + 1
    /\ UNCHANGED <<currentAction, pfUseful>>

(***************************************************************************)
(* notify: on a hit, trackUsefulForAddr credits the child recorded for the *)
(* address and erases the entry (an untracked address returns early); a    *)
(* miss leaves the table alone.  The epoch debug counters and              *)
(* Queued::notify are outside this component.                              *)
(***************************************************************************)
TrackUsefulForAddr(addr) ==
    IF addr \in DOMAIN childPfTable
    THEN /\ pfUseful' = Bump(pfUseful, childPfTable[addr])
         /\ childPfTable' = [a \in DOMAIN childPfTable \ {addr} |-> childPfTable[a]]
    ELSE UNCHANGED <<pfUseful, childPfTable>>

Notify(addr, miss) ==
    /\ IF miss THEN UNCHANGED <<pfUseful, childPfTable>>
                ELSE TrackUsefulForAddr(addr)
    /\ UNCHANGED <<currentAction, pfIssued, pfRedundant, addresses, queries,
                   issuedBy>>

\* The epoch engine switching the action (switchTo).
SwitchAction ==
    /\ \E a \in -1..(K - 1) : a # currentAction /\ currentAction' = a
    /\ UNCHANGED attrVars

\* m5_reset_stats (the test programs call it at ROI_BEGIN and ROI_END)
\* zeroes the Scalars childNPfIssued/Useful/Redundant; childPfTable is a
\* plain member and keeps every tracked address.
ResetStats ==
    /\ {pfIssued, pfUseful, pfRedundant} # {NoCounts}
    /\ pfIssued' = NoCounts /\ pfUseful' = NoCounts /\ pfRedundant' = NoCounts
    /\ UNCHANGED <<currentAction, childPfTable, addresses, queries, issuedBy>>

Next ==
    \/ CalculatePrefetch
    \/ \E a \in Addrs, miss \in BOOLEAN : Notify(a, miss)
    \/ SwitchAction
    \/ ResetStats

Spec == Init /\ [][Next]_vars

(***************************************************************************)
(* Properties.                                                             *)
(***************************************************************************)
TypeOK ==
    /\ currentAction \in -1..(K - 1)
    /\ DOMAIN childPfTable \subseteq Addrs
    /\ \A a \in DOMAIN childPfTable : childPfTable[a] \in QueuedChildren
    /\ \A c \in {pfIssued, pfUseful, pfRedundant} : c \in [StatIndices -> Nat]
    /\ addresses \in Seq(Addrs)

\* childPfTable never holds more than MaxTrackedPrefetches addresses.
TableBounded == Cardinality(DOMAIN childPfTable) <= MaxTrackedPrefetches

\* Spec 4.5 calls issued, useful and redundant per-child cumulative counts,
\* and a useful credit (spec 3, trackUsefulForAddr) consumes an entry that
\* was counted issued when it was inserted: all children together are never
\* credited more useful prefetches than they were counted issued, and no
\* child more than it issued or re-issued.  The counters are gem5 Scalars
\* that m5_reset_stats zeroes while childPfTable keeps its entries.
UsefulCreditsBounded ==
    /\ SumFunction(pfUseful) <= SumFunction(pfIssued)
    /\ \A i \in StatIndices : pfUseful[i] <= pfIssued[i] + pfRedundant[i]

\* Spec 4.3, "newest issuer wins for future useful-credit": whichever
\* children emitted an address, under whatever sequence of switches,
\* clears and credits, the table attributes a tracked address to the child
\* whose query emitted it last, so a later hit on it credits that child.
TrackedByNewestIssuer ==
    \A a \in DOMAIN childPfTable : childPfTable[a] = issuedBy[a]

\* Spec 4.3: a candidate whose address is already tracked is counted a
\* redundant prefetch of the issuing child (the table is cleared only on
\* the insertion path).  Stated for the first candidate of a query.
RedundantWhenTracked ==
    [][(/\ queries' = queries + 1
        /\ addresses' # <<>>
        /\ addresses'[1] \in DOMAIN childPfTable
        /\ currentAction \in StatIndices)
       => pfRedundant'[currentAction] > pfRedundant[currentAction]]_vars
=============================================================================
