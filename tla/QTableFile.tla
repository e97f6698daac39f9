----------------------------- MODULE QTableFile -----------------------------
(***************************************************************************)
(* The Q-table file of MLPrefetchController (ml_prefetch_controller.cc):   *)
(* its name, derived from the cache name, and its contents as written by   *)
(* saveQTable and read back by loadQTable.  The contents are a sequence of *)
(* records, one per read the loader makes: the signature (sigLen and its   *)
(* bytes fail together), the state count, and one record per row (state,   *)
(* rowLen and the doubles).  A name is a sequence of one-character strings.*)
(***************************************************************************)
EXTENDS Integers, Sequences, SequencesExt, FiniteSets, Functions

(***************************************************************************)
(* The constructor's file name: cache_name, or name() when it is empty,    *)
(* with every byte that is not isalnum replaced by '_', between "qtable_"  *)
(* and ".bin" (kept as one token each).                                    *)
(***************************************************************************)
AlnumChars ==
    {"a","b","c","d","e","f","g","h","i","j","k","l","m","n","o","p","q","r",
     "s","t","u","v","w","x","y","z","A","B","C","D","E","F","G","H","I","J",
     "K","L","M","N","O","P","Q","R","S","T","U","V","W","X","Y","Z","0","1",
     "2","3","4","5","6","7","8","9"}

Sanitise(name) == [i \in DOMAIN name |-> IF name[i] \in AlnumChars
                                        THEN name[i] ELSE "_"]

QFileName(cacheName, objName) ==
    <<"qtable_">> \o Sanitise(IF cacheName = <<>> THEN objName ELSE cacheName)
    \o <<".bin">>

EmptyTable == <<>>

SigRecord(s) == [kind |-> "sig", sig |-> s]
CountRecord(n) == [kind |-> "count", n |-> n]
RowRecord(st, row) == [kind |-> "row", state |-> st, row |-> row]

(***************************************************************************)
(* saveQTable: signature, qTable.size(), then the rows in std::map order.  *)
(***************************************************************************)
\* Seeded bug: the row loop stops one row short of numStates.
ImageDropsLastRow(s, table) ==
    LET keys == SetToSortSeq(DOMAIN table, <)
    IN  <<SigRecord(s), CountRecord(Len(keys))>>
        \o [i \in 1..(Len(keys) - 1) |-> RowRecord(keys[i], table[keys[i]])]

Image(s, table) ==
    LET keys == SetToSortSeq(DOMAIN table, <)
    IN  <<SigRecord(s), CountRecord(Len(keys))>>
        \o [i \in 1..Len(keys) |-> RowRecord(keys[i], table[keys[i]])]

(***************************************************************************)
(* loadQTable on a file f for signature s: [loaded, table].  No file, a    *)
(* short signature, a mismatch or a short count return with the table      *)
(* untouched (empty at startup); a short row clears the table and returns; *)
(* otherwise qTable[state] = row for every row and qtableLoaded is set.    *)
(***************************************************************************)
RowsOf(f, first, last) ==
    FoldLeft(LAMBDA t, r : (r.state :> r.row) @@ t, EmptyTable,
             SubSeq(f, first, last))

\* Seeded bug: a short row returns without qTable.clear().
LoadKeepsPartialRows(f, s) ==
    CASE Len(f) = 0 \/ f[1].sig # s \/ Len(f) < 2
            -> [loaded |-> FALSE, table |-> EmptyTable]
      [] Len(f) < 2 + f[2].n
            -> [loaded |-> FALSE, table |-> RowsOf(f, 3, Len(f))]
      [] OTHER
            -> [loaded |-> TRUE, table |-> RowsOf(f, 3, 2 + f[2].n)]

Load(f, s) ==
    CASE Len(f) = 0 \/ f[1].sig # s \/ Len(f) < 2
            -> [loaded |-> FALSE, table |-> EmptyTable]
      [] Len(f) < 2 + f[2].n
            -> [loaded |-> FALSE, table |-> EmptyTable]
      [] OTHER
            -> [loaded |-> TRUE, table |-> RowsOf(f, 3, 2 + f[2].n)]

=============================================================================
