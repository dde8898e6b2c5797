----------------------------- MODULE ClaimOrder -----------------------------
(***************************************************************************)
(* The order in which due rows are claimed, with time in ticks: the        *)
(* commands of the quota ledger (service/quota_dispatch_worker.go) and the *)
(* openings of tenant spaces (service/tenant_space_worker.go).  A worker   *)
(* claims the due row of the lowest rank and calls its owner, one row at a *)
(* time; a row whose call fails is due again after a delay, and then comes *)
(* before all rows of a higher rank.  Whether a row whose owner answers is *)
(* reached therefore hangs on the length of calls, pauses and delays,      *)
(* which the models of the queues leave open by their fairness per row.    *)
(*                                                                         *)
(* Transactions and the polling of an empty command queue (300 ms) are     *)
(* shorter than a tick: a worker that may claim does so before the tick.   *)
(***************************************************************************)
EXTENDS Integers, FiniteSets

CONSTANTS
  Rows,      \* operations, or tenants with a space to be opened
  Rank,      \* [Rows -> Nat], created_at and id of an operation, id of a tenant
  Workers,   \* one per process that may run
  NoRow,     \* no row
  Profiles,  \* queues: times in ticks, rows that do not succeed, workers that run
  MaxFaults  \* bound on workers that lose the row they work on

(* Of a queue: how long a call lasts at most, the pause of its worker      *)
(* after a call and when nothing was due, the longest delay, the lease,    *)
(* the rows whose calls fail or, when a space is not ready yet, end        *)
(* without success, and the workers.                                       *)
IsProfile(p) ==
  /\ p.queue \in {"commands", "openings"}
  /\ {p.call, p.pause, p.poll} \subseteq Nat
  /\ {p.longest, p.lease} \subseteq Nat \ {0}
  /\ p.call < p.lease
  /\ p.stuck \subseteq Rows
  /\ p.workers \subseteq Workers

(* The stuck rows do not keep one worker busy all the time: when it has    *)
(* been through all of them, the first is not due yet.                     *)
Tolerable(p) == Cardinality(p.stuck) * (p.call + p.pause) < p.call + p.longest

ASSUME ClaimAssumption ==
  /\ Rank \in [Rows -> Nat]
  /\ \A r, q \in Rows : Rank[r] = Rank[q] => r = q
  /\ NoRow \notin Rows
  /\ \A p \in Profiles : IsProfile(p) /\ Tolerable(p)
  /\ MaxFaults \in Nat

VARIABLES
  profile,  \* the queue this behaviour is about
  row,      \* row -> its state, ticks until it may be claimed, its back-off
  worker,   \* worker -> the row in hand, ticks of its call, ticks of its pause
  faults    \* faults so far

cvars == <<profile, row, worker, faults>>

ClaimTypeOK ==
  /\ profile \in Profiles
  /\ row \in [Rows -> [state : {"absent", "waiting", "held", "done"},
                       wait : Nat, back : Nat]]
  /\ worker \in [Workers -> [row : Rows \cup {NoRow}, time : 0 .. profile.call, pause : Nat]]
  /\ faults \in 0 .. MaxFaults

Free(pause) == [row |-> NoRow, time |-> 0, pause |-> pause]

ClaimInit ==
  /\ profile \in Profiles
  /\ row = [r \in Rows |-> [state |-> "absent", wait |-> 0, back |-> 0]]
  /\ worker = [w \in Workers |-> Free(0)]
  /\ faults = 0

Stuck(r) == r \in profile.stuck
Busy(w)  == worker[w].row # NoRow
Ready(w) == w \in profile.workers /\ ~Busy(w) /\ worker[w].pause = 0

-----------------------------------------------------------------------------
(* A command is accepted, or a tenant created; those of lower ranks need   *)
(* not come first, since a tenant that was switched off can return.        *)
Enqueue(r) ==
  /\ row[r].state = "absent"
  /\ row' = [row EXCEPT ![r].state = "waiting"]
  /\ UNCHANGED <<profile, worker, faults>>

(* (mutant: a held row is due, whatever its lease)                         *)
DueUnleased(r) == row[r].state = "held" \/ (row[r].state = "waiting" /\ row[r].wait = 0)

(* quotaDispatchDue and tenantSpaceDue: the delay, or the lease of a       *)
(* worker that is gone, is over.                                           *)
Due(r) == row[r].state \in {"waiting", "held"} /\ row[r].wait = 0

First(r) == Due(r) /\ \A q \in Rows : Due(q) => Rank[r] <= Rank[q]

(* (mutant: the delay does not grow with the attempts)                     *)
SameDelay(back) == 1

(* 1, 2, 4, ... ticks with the attempts, at most the longest delay.        *)
backoffForAttempt(back) ==
  IF back = 0 THEN 1 ELSE IF 2 * back > profile.longest THEN profile.longest ELSE 2 * back

Claim(w, r) ==
  /\ Ready(w)
  /\ First(r)
  /\ row' = [row EXCEPT ![r] = [state |-> "held", wait |-> profile.lease,
                               back |-> backoffForAttempt(row[r].back)]]
  /\ worker' = [worker EXCEPT ![w] = [row |-> r, time |-> 0, pause |-> 0]]
  /\ UNCHANGED <<profile, faults>>

(* The loop of the space worker pauses longer when nothing was due.        *)
NothingDue(w) ==
  /\ Ready(w)
  /\ profile.poll > 0
  /\ \A r \in Rows : ~Due(r)
  /\ worker' = [worker EXCEPT ![w] = Free(profile.poll)]
  /\ UNCHANGED <<profile, row, faults>>

(* DeferTenantSpace waits for a fixed time, MarkUnknown for the back-off.  *)
Delay(r) == IF profile.queue = "commands" THEN row[r].back ELSE profile.longest

Deferred(r) == [row[r] EXCEPT !.state = "waiting", !.wait = Delay(r)]

(* The call ends at any time up to its limit, and its outcome is written   *)
(* back: the lease is longer than any call.                                *)
CallEnds(w) ==
  LET r == worker[w].row IN
  /\ Busy(w)
  /\ row' = [row EXCEPT ![r] = IF Stuck(r) THEN Deferred(r)
                               ELSE [@ EXCEPT !.state = "done", !.wait = 0]]
  /\ worker' = [worker EXCEPT ![w] = Free(profile.pause)]
  /\ UNCHANGED <<profile, faults>>

(* The process stops or the write-back fails; the lease is left behind.    *)
WorkerForgets(w) ==
  /\ Busy(w)
  /\ faults < MaxFaults
  /\ faults' = faults + 1
  /\ worker' = [worker EXCEPT ![w] = Free(profile.pause)]
  /\ UNCHANGED <<profile, row>>

Elapsed(n) == IF n > 0 THEN n - 1 ELSE 0

(* Time passes when no worker has to act first.                            *)
Tick ==
  /\ \A w \in Workers : Busy(w) => worker[w].time < profile.call
  /\ \A w \in Workers : Ready(w) => profile.poll = 0 /\ \A r \in Rows : ~Due(r)
  /\ row' = [r \in Rows |-> [row[r] EXCEPT !.wait = Elapsed(@)]]
  /\ worker' = [w \in Workers |-> IF Busy(w) THEN [worker[w] EXCEPT !.time = @ + 1]
                                  ELSE Free(Elapsed(worker[w].pause))]
  /\ UNCHANGED <<profile, faults>>

-----------------------------------------------------------------------------
WorkerStep(w) == (\E r \in Rows : Claim(w, r)) \/ NothingDue(w) \/ CallEnds(w)

ClaimNext ==
  \/ \E r \in Rows : Enqueue(r)
  \/ \E w \in Workers : WorkerStep(w) \/ WorkerForgets(w)
  \/ Tick

ClaimSpec == ClaimInit /\ [][ClaimNext]_cvars

(* Time passes, and workers keep to it; no row has a claim to be chosen.   *)
FairClaimSpec ==
  /\ ClaimSpec
  /\ WF_cvars(Tick)
  /\ \A w \in Workers : WF_cvars(WorkerStep(w))

-----------------------------------------------------------------------------
(* No two workers hold a row, and one that is held has more of its lease   *)
(* left than its call can take: a row in hand is not due, whatever delays, *)
(* pauses and lost workers there were before.                              *)
LeaseLeft(w) ==
  Busy(w) => LET r == worker[w].row IN
    /\ row[r].state = "held"
    /\ row[r].wait = profile.lease - worker[w].time
OneHolder == \A w, v \in Workers : Busy(w) /\ worker[w].row = worker[v].row => w = v

ClaimInv == ClaimTypeOK /\ OneHolder /\ \A w \in Workers : LeaseLeft(w)

(* Every row whose owner answers is served in the end, although rows of    *)
(* lower ranks come due again and again: as long as the stuck rows are     *)
(* tolerable (ten commands, one space whose call times out or four that    *)
(* are not ready yet), the rule "lowest rank first" starves nobody.        *)
OthersAreServed ==
  \A r \in Rows : row[r].state = "waiting" /\ ~Stuck(r) ~> row[r].state = "done"
=============================================================================
