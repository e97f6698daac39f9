-------------------------- MODULE QTablePersistence --------------------------
(***************************************************************************)
(* Persistence of the Q-table across simulation runs                      *)
(* (ml_prefetch_controller.cc, saveQTable / loadQTable and their callers). *)
(*                                                                         *)
(* The file is a sequence of records, one per read the loader makes: the   *)
(* signature (sigLen and its bytes fail together), the state count, and one*)
(* record per row (state, rowLen and the doubles; a short read of any of   *)
(* them fails the row).  An ofstream that is killed before close leaves a  *)
(* prefix of what it was given, so a crash during saveQTable leaves a      *)
(* prefix of the image.  The table's contents are abstracted: a row is a   *)
(* member of Rows, and endEpoch is "some row of some state changes".       *)
(*                                                                         *)
(* A run is: construct (empty table), startup (loadQTable), then epochs,   *)
(* each of which ends with saveQTable; the run ends by exit or by a kill,  *)
(* possibly in the middle of a save; the next run may have another child   *)
(* set, hence another signature.                                           *)
(***************************************************************************)
EXTENDS Integers, Sequences, SequencesExt, FiniteSets, Functions, QTableFile

CONSTANTS
    Sigs,             \* childrenSignature() of the configurations that are run
    States,           \* encoded states that get rows
    Rows,             \* abstract row contents
    CanFailOpen,      \* whether the ofstream may fail to open
    MaxRuns,          \* bound: simulation runs
    MaxEpochsPerRun   \* bound: epochs of one run

ASSUME
    /\ States \subseteq Nat
    /\ CanFailOpen \in BOOLEAN
    /\ MaxRuns \in Nat \ {0} /\ MaxEpochsPerRun \in Nat

VARIABLES
    phase,         \* "constructed" | "running" | "down"
    sig,           \* signature of the current run's child set
    qTable,        \* the controller's in-memory table
    qtableLoaded,  \* the diagnostic flag set by a complete load
    file,          \* contents of qtable_<name>.bin
    runs,          \* runs started (bounds the model)
    epochs,        \* epochs of the current run (bounds the model)
    lastSave       \* history: {[sig, table, whole]} of the last save that
                   \* opened the file, {} before the first

vars == <<phase, sig, qTable, qtableLoaded, file, runs, epochs, lastSave>>

Init ==
    /\ phase = "constructed"
    /\ sig \in Sigs
    /\ qTable = EmptyTable
    /\ qtableLoaded = FALSE
    /\ file = <<>>
    /\ runs = 1
    /\ epochs = 0
    /\ lastSave = {}

\* startup(): loadQTable() first (the cache lookup and the first schedule
\* are the epoch engine's).
Startup ==
    /\ phase = "constructed"
    /\ LET r == Load(file, sig)
       IN  /\ qTable' = r.table
           /\ qtableLoaded' = r.loaded
    /\ phase' = "running"
    /\ UNCHANGED <<sig, file, runs, epochs, lastSave>>

(***************************************************************************)
(* updateModel: endEpoch changes one row (the update of lastState's row    *)
(* and the creation of the new state's row, abstracted), then saveQTable:  *)
(* the open fails and the file is kept, or the file is truncated and       *)
(* rewritten.  Only a prefix of the image may reach the file: the process  *)
(* is killed, or a write fails (the disk is full) and, since the writes    *)
(* are not checked, the ofstream drops the rest and the run goes on.       *)
(***************************************************************************)
UpdateModel ==
    /\ phase = "running"
    /\ epochs < MaxEpochsPerRun
    /\ \E st \in States, row \in Rows :
         LET table == (st :> row) @@ qTable
             image == Image(sig, table)
         IN  \/ /\ CanFailOpen
                /\ UNCHANGED <<file, lastSave, phase>>
             \/ /\ file' = image
                /\ lastSave' = {[sig |-> sig, table |-> table, whole |-> TRUE]}
                /\ UNCHANGED phase
             \/ \E c \in 0..(Len(image) - 1), killed \in BOOLEAN :
                /\ file' = SubSeq(image, 1, c)
                /\ lastSave' = {[sig |-> sig, table |-> table, whole |-> FALSE]}
                /\ phase' = IF killed THEN "down" ELSE phase
           /\ qTable' = table
    /\ epochs' = epochs + 1
    /\ UNCHANGED <<sig, qtableLoaded, runs>>

\* The run ends between events (exit or kill): the file is as last written.
Stop ==
    /\ phase = "running"
    /\ phase' = "down"
    /\ UNCHANGED <<sig, qTable, qtableLoaded, file, runs, epochs, lastSave>>

\* A new simulation is constructed, possibly with another child set.
Restart ==
    /\ phase = "down"
    /\ runs < MaxRuns
    /\ \E s \in Sigs : sig' = s
    /\ phase' = "constructed"
    /\ qTable' = EmptyTable
    /\ qtableLoaded' = FALSE
    /\ runs' = runs + 1
    /\ epochs' = 0
    /\ UNCHANGED <<file, lastSave>>

Next == Startup \/ UpdateModel \/ Stop \/ Restart

Spec == Init /\ [][Next]_vars

(***************************************************************************)
(* Properties.                                                             *)
(***************************************************************************)
TypeOK ==
    /\ phase \in {"constructed", "running", "down"}
    /\ sig \in Sigs
    /\ DOMAIN qTable \subseteq States /\ \A st \in DOMAIN qTable : qTable[st] \in Rows
    /\ qtableLoaded \in BOOLEAN
    /\ runs \in 1..MaxRuns /\ epochs \in 0..MaxEpochsPerRun

\* Whether startup may resume the last saved table: it was written whole
\* under the signature of the run now starting.
Resumable == \E ls \in lastSave : ls.whole /\ ls.sig = sig

\* Spec 4.4, "partial reads must not leave a half-populated table": a
\* startup after a kill in the middle of saveQTable, or after a save under
\* another child set, starts from an empty table; whatever loadQTable
\* returns is a table that some run saved whole.
LoadAllOrNothing ==
    [][phase = "constructed" /\ phase' = "running" /\ ~Resumable
         => qTable' = EmptyTable]_vars

\* Spec 6, round-trip law loadQTable(saveQTable(T)) == T when the
\* signatures match: a run that starts after a complete save of the same
\* child set resumes exactly that table and reports it loaded.
RoundTrip ==
    [][phase = "constructed" /\ phase' = "running" /\ Resumable
         => \A ls \in lastSave : qTable' = ls.table /\ qtableLoaded']_vars
=============================================================================
