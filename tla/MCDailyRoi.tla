----------------------------- MODULE MCDailyRoi -----------------------------
(* A platform nobody has invested in yet, one that has accrued before, and    *)
(* one whose runs die in the middle of a day.                                 *)
EXTENDS DailyRoi

CONSTANTS i1, i2

Fresh == [established |-> {}, mayCap |-> {i1, i2}, failing |-> {"between", "within"}, horizon |-> 3]
Resumed == [established |-> {i1}, mayCap |-> {i2}, failing |-> {"between"}, horizon |-> 4]
Stopped == [established |-> {i1, i2}, mayCap |-> {}, failing |-> {"between", "within"}, horizon |-> 3]
MCScenes == {Fresh, Resumed, Stopped}
StoppedOnly == {Stopped}
=============================================================================
