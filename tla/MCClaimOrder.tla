---------------------------- MODULE MCClaimOrder ----------------------------
(* Three commands that never succeed and one that does, with times scaled  *)
(* down (a call of 3 s to 2 ticks, 30 s to 5, a lease of 15 s to 4), the   *)
(* same of two processes, and openings: one whose calls may time out (30 s *)
(* to 6), or three that Resource answers at once but that are not ready.   *)
(* Commands and NotReady are at the limit: with one tick less of the       *)
(* longest delay, as with a second TimingOut, a row would starve.          *)
EXTENDS ClaimOrder

CONSTANTS w1, w2

RowIds == 1 .. 4
ById == [r \in RowIds |-> r]

Commands == [queue |-> "commands", call |-> 2, pause |-> 0, poll |-> 0,
             longest |-> 5, lease |-> 4, stuck |-> {1, 2, 3}, workers |-> {w1}]
TwoProcesses == [queue |-> "commands", call |-> 2, pause |-> 0, poll |-> 0,
                 longest |-> 3, lease |-> 3, stuck |-> {1, 2},
                 workers |-> {w1, w2}]
TimingOut == [queue |-> "openings", call |-> 6, pause |-> 1, poll |-> 3,
              longest |-> 5, lease |-> 8, stuck |-> {1}, workers |-> {w1}]
NotReady == [queue |-> "openings", call |-> 0, pause |-> 1, poll |-> 3,
             longest |-> 4, lease |-> 8, stuck |-> {1, 2, 3}, workers |-> {w1}]
Queues == {Commands, TwoProcesses, TimingOut, NotReady}
=============================================================================
