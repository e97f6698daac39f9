----------------------------- MODULE SharedQFile -----------------------------
(***************************************************************************)
(* Several MLPrefetchControllers in one simulation, each saving its        *)
(* Q-table to the file its constructor derived from its cache name, and    *)
(* each loading that file at startup of the next run.  Every controller    *)
(* has its own child set, hence its own signature.  Kills during a save   *)
(* are QTablePersistence's; here every save completes.                    *)
(***************************************************************************)
EXTENDS Integers, Sequences, FiniteSets, Functions, QTableFile

CONSTANTS
    Ctrls,            \* the controllers
    CacheName,        \* Ctrls -> p.cache_name
    ObjName,          \* Ctrls -> name()
    SigOf,            \* Ctrls -> childrenSignature()
    States,           \* encoded states that get rows
    Rows,             \* abstract row contents
    MaxRuns,          \* bound: simulation runs
    MaxEpochsPerRun   \* bound: epochs of one controller in one run

VARIABLES
    phase,      \* "constructed" | "running" | "down"
    qTables,    \* Ctrls -> the controller's in-memory table
    files,      \* file name -> contents
    runs,       \* runs started (bounds the model)
    epochs,     \* Ctrls -> epochs in this run (bounds the model)
    lastSaves   \* history: Ctrls -> {the table it last saved}, {} before

vars == <<phase, qTables, files, runs, epochs, lastSaves>>

\* qfileName of controller c.
FileOf(c) == QFileName(CacheName[c], ObjName[c])

FileNames == {FileOf(c) : c \in Ctrls}

Init ==
    /\ phase = "constructed"
    /\ qTables = [c \in Ctrls |-> EmptyTable]
    /\ files = [f \in FileNames |-> <<>>]
    /\ runs = 1
    /\ epochs = [c \in Ctrls |-> 0]
    /\ lastSaves = [c \in Ctrls |-> {}]

\* gem5 calls startup() on every controller before the first event: each
\* runs loadQTable on its own file name.
Startup ==
    /\ phase = "constructed"
    /\ qTables' = [c \in Ctrls |-> Load(files[FileOf(c)], SigOf[c]).table]
    /\ phase' = "running"
    /\ UNCHANGED <<files, runs, epochs, lastSaves>>

\* updateModel of controller c: endEpoch changes a row, saveQTable
\* truncates and rewrites the controller's file.
UpdateModel(c) ==
    /\ phase = "running"
    /\ epochs[c] < MaxEpochsPerRun
    /\ \E st \in States, row \in Rows :
         LET table == (st :> row) @@ qTables[c]
         IN  /\ qTables' = [qTables EXCEPT ![c] = table]
             /\ files' = [files EXCEPT ![FileOf(c)] = Image(SigOf[c], table)]
             /\ lastSaves' = [lastSaves EXCEPT ![c] = {table}]
    /\ epochs' = [epochs EXCEPT ![c] = @ + 1]
    /\ UNCHANGED <<phase, runs>>

\* The simulation ends between events.
Stop ==
    /\ phase = "running"
    /\ phase' = "down"
    /\ UNCHANGED <<qTables, files, runs, epochs, lastSaves>>

\* The next simulation constructs the same controllers.
Restart ==
    /\ phase = "down"
    /\ runs < MaxRuns
    /\ phase' = "constructed"
    /\ qTables' = [c \in Ctrls |-> EmptyTable]
    /\ runs' = runs + 1
    /\ epochs' = [c \in Ctrls |-> 0]
    /\ UNCHANGED <<files, lastSaves>>

Next == Startup \/ Stop \/ Restart \/ \E c \in Ctrls : UpdateModel(c)

Spec == Init /\ [][Next]_vars

(***************************************************************************)
(* Properties.                                                             *)
(***************************************************************************)

\* Spec 4.4: the file is keyed by the cache name so that each controller
\* persists its own learning: at startup every controller resumes the
\* table it saved last, whatever the other controllers saved meanwhile.
OwnTableResumed ==
    [][phase = "constructed" /\ phase' = "running"
         => \A c \in Ctrls : \A t \in lastSaves[c] : qTables'[c] = t]_vars
=============================================================================
