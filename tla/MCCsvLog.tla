------------------------------- MODULE MCCsvLog -------------------------------
(* One or two controllers; every controller logs, or only the first.       *)
EXTENDS CsvLog

CONSTANTS c1, c2

MCOneCtrl == {c1}
MCTwoCtrls == {c1, c2}
\* debug_logging on for c1 only
MCFirstLogs == [c \in MCTwoCtrls |-> c = c1]
\* debug_logging on for every controller
MCAllLog(S) == [c \in S |-> TRUE]
MCAllLogOne == MCAllLog(MCOneCtrl)
=============================================================================
