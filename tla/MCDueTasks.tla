----------------------------- MODULE MCDueTasks -----------------------------
(* Small instances of DueTasks.  One instant stands for two minutes or so:   *)
(* the graces are of one and two instants, the periods of up to six.         *)
EXTENDS DueTasks

Once(i)      == [type |-> "once", period |-> 0, at |-> {i}]
Every(p)     == [type |-> "every", period |-> p, at |-> {}]
Cron(p, S)   == [type |-> "cron", period |-> p, at |-> S]

Recurring    == {Every(1), Every(3), Cron(6, {1, 2})}
Cursors      == {Every(2), Cron(4, {1, 2}), Once(2)}
OneShots     == {Once(1), Once(2)}
Mixed        == {Once(1), Every(2)}
=============================================================================
