-------------------------------- MODULE CsvLog --------------------------------
(***************************************************************************)
(* The CSV debug log of MLPrefetchController (ml_prefetch_controller.cc):  *)
(* the file gCsvFile and the flag gCsvInitialized are globals shared by    *)
(* every controller; the first controller constructed with debug_logging   *)
(* opens (and truncates) mlprefetch_stats.csv; endEpoch increments a       *)
(* function-static epoch counter, also shared by every controller, and     *)
(* appends a row when logging is on, the file is open and the counter is a *)
(* multiple of EPOCH_PRINT_INTERVAL.  A row's fields other than the epoch  *)
(* column are left out; the row records which controller wrote it.        *)
(*                                                                         *)
(* gem5 constructs every SimObject before the first event; the epoch       *)
(* events of the controllers then fire in an order fixed by their          *)
(* ticks_per_epoch, which the model leaves open.                           *)
(***************************************************************************)
EXTENDS Integers, Sequences, SequencesExt, FiniteSets

CONSTANTS
    Ctrls,             \* the controllers
    DebugLogging,      \* Ctrls -> BOOLEAN: p.debug_logging
    CanOpen,           \* whether opening mlprefetch_stats.csv may succeed
    MaxEpochsPerCtrl   \* bound: epoch events of one controller

ASSUME
    /\ DebugLogging \in [Ctrls -> BOOLEAN]
    /\ CanOpen \in BOOLEAN
    /\ MaxEpochsPerCtrl \in Nat

\* EPOCH_PRINT_INTERVAL
EpochPrintInterval == 20

VARIABLES
    csvInitialized,  \* gCsvInitialized
    csvOpen,         \* gCsvFile.is_open()
    rows,            \* the data rows of the file: [ctrl, epoch]
    epoch,           \* endEpoch's function-static counter
    constructed,     \* controllers whose constructor has run
    ownEpochs        \* Ctrls -> epochs of that controller (bounds the model)

vars == <<csvInitialized, csvOpen, rows, epoch, constructed, ownEpochs>>

Init ==
    /\ csvInitialized = FALSE
    /\ csvOpen = FALSE
    /\ rows = <<>>
    /\ epoch = 0
    /\ constructed = {}
    /\ ownEpochs = [c \in Ctrls |-> 0]

\* The constructor's CSV block: the first logging controller opens the file
\* with truncation (the header is not a data row); later ones skip it.
Construct(c) ==
    /\ c \notin constructed
    /\ constructed' = constructed \cup {c}
    /\ IF DebugLogging[c] /\ ~csvInitialized
       THEN /\ csvInitialized' = TRUE
            /\ \E ok \in IF CanOpen THEN BOOLEAN ELSE {FALSE} : csvOpen' = ok
            /\ rows' = <<>>
       ELSE UNCHANGED <<csvInitialized, csvOpen, rows>>
    /\ UNCHANGED <<epoch, ownEpochs>>

\* Whether endEpoch of controller c, with the counter now at n, writes a row.
LogsRow(c, n) ==
    DebugLogging[c] /\ csvOpen /\ n % EpochPrintInterval = 0

\* Step 8 of endEpoch, for controller c (the rest of the epoch is the
\* epoch engine's).
EndEpoch(c) ==
    /\ constructed = Ctrls
    /\ ownEpochs[c] < MaxEpochsPerCtrl
    /\ epoch' = epoch + 1
    /\ rows' = IF LogsRow(c, epoch + 1)
               THEN Append(rows, [ctrl |-> c, epoch |-> epoch + 1])
               ELSE rows
    /\ ownEpochs' = [ownEpochs EXCEPT ![c] = @ + 1]
    /\ UNCHANGED <<csvInitialized, csvOpen, constructed>>

Next == \E c \in Ctrls : Construct(c) \/ EndEpoch(c)

Spec == Init /\ [][Next]_vars

(***************************************************************************)
(* Properties.                                                             *)
(***************************************************************************)
TypeOK ==
    /\ csvInitialized \in BOOLEAN /\ csvOpen \in BOOLEAN
    /\ rows \in Seq([ctrl : Ctrls, epoch : Nat])
    /\ epoch \in Nat /\ constructed \subseteq Ctrls
    /\ ownEpochs \in [Ctrls -> 0..MaxEpochsPerCtrl]

RowsOf(c) == SelectSeq(rows, LAMBDA r : r.ctrl = c)

\* Spec section 6: with logging enabled and the file open, a controller
\* writes one row every EPOCH_PRINT_INTERVAL of its epochs, numbered by its
\* own epoch count.
OneRowPerInterval ==
    csvOpen =>
      \A c \in Ctrls :
        DebugLogging[c] =>
          /\ Len(RowsOf(c)) = ownEpochs[c] \div EpochPrintInterval
          /\ \A i \in 1..Len(RowsOf(c)) :
                RowsOf(c)[i].epoch = i * EpochPrintInterval
=============================================================================
