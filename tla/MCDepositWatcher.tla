------------------------- MODULE MCDepositWatcher -------------------------
(* Two transactions, the first with one or two logs to credit, the second     *)
(* with one that is not to be credited, from the first run on and from a       *)
(* cursor that earlier scans have left.                                        *)
EXTENDS DepositWatcher

CONSTANTS t1, t2

Log(tx, n) == [tx |-> tx, index |-> n]
OneLog == {Log(t1, 1)}
MixedLogs == {Log(t1, 1), Log(t1, 2), Log(t2, 1)}
MixedCreditable == {Log(t1, 1), Log(t1, 2)}

FirstRun ==
  [logs |-> MixedLogs, first |-> None, failing |-> Places, inserts |-> TRUE, reports |-> TRUE, height |-> 2]
Resumed ==
  [logs |-> {Log(t1, 1), Log(t2, 1)}, first |-> 1, failing |-> Places, inserts |-> FALSE,
   reports |-> FALSE, height |-> 5]
Provider == [Resumed EXCEPT !.failing = {"cursor", "logs"}]
MCScenes == {FirstRun, Resumed, Provider}
StoppedScenes == {[Resumed EXCEPT !.logs = OneLog]}
===========================================================================
