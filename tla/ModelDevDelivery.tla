-------------------------- MODULE ModelDevDelivery --------------------------
(***************************************************************************)
(* Model development executions: how an accepted creation and a user's     *)
(* Stop reach the owner service                                            *)
(* (data/modeldev_{acceptance,dispatch,close}_repo.go,                     *)
(* data/modeldev_gpu_delivery.go, service/modeldev_dispatch_worker.go,     *)
(* modeldev_close_dispatch_worker.go and modeldev_create_maintenance.go).  *)
(*                                                                         *)
(* An acceptance row carries two deliveries of the same shape, create and  *)
(* close.  The worker of every process claims a due one under a lease,     *)
(* calls the owner and writes the outcome back under a fence; closes come  *)
(* first.  A GPU execution also has an operation in the quota ledger, that *)
(* only the create delivery acknowledges, in the same transaction.  Before *)
(* a process stops it closes a gate shared by requests and the worker,     *)
(* waits for those inside and for its own create leases.                   *)
(*                                                                         *)
(* Time is abstract: a lease or a back-off may end at any moment.  The     *)
(* owner is not part of this repository.                                   *)
(***************************************************************************)
EXTENDS Naturals, FiniteSets

CONSTANTS
  Execs,      \* executions, each with its own idempotency key
  Gpu,        \* executions that occupy GPU quota
  Procs,      \* process lifetimes; a restarted process has a new worker id
  MayStop,    \* processes that may be stopped or crash
  MaxCount,   \* the counters' limit (math.MaxInt64 in the code)
  MaxFaults,  \* bound on lost calls and answers, refusals, overrun leases and crashes
  NoProc, NoExec

ASSUME ModelDevAssumption ==
  /\ Gpu \subseteq Execs
  /\ MayStop \subseteq Procs
  /\ MaxCount \in Nat \ {0}
  /\ MaxFaults \in Nat
  /\ NoProc \notin Procs
  /\ NoExec \notin Execs

(* What a receipt tells of an execution, and whether it is a replay.       *)
Receipts == {"open", "open-replayed", "closed", "closed-replayed"}
NoReceipt == "none"

VARIABLES
  create,     \* execution -> the create delivery of its row; IDLE without a row
  close,      \* execution -> the close delivery of its row; IDLE before Stop
  quota,      \* execution -> its ledger operation: "none", "QUEUED" or its receipt
  unsent,     \* executions stopped before any worker claimed their creation
  proc,       \* process -> where it is in its life
  requests,   \* create requests inside the gate: <<process, execution>>
  worker,     \* process -> what its worker does
  wire,       \* calls the owner may still get: [lane, exec, to]
  owner,      \* execution -> what the owner has recorded
  faults      \* faults so far

rows == <<create, close, quota, unsent>>
mvars == <<rows, proc, requests, worker, wire, owner, faults>>

NoDelivery == [state |-> "IDLE", count |-> 0, holder |-> NoProc, live |-> FALSE,
               waiting |-> FALSE, blocked |-> FALSE, receipt |-> NoReceipt]
Queued     == [NoDelivery EXCEPT !.state = "QUEUED"]
Deliveries ==
  [state : {"IDLE", "QUEUED", "DISPATCHING", "UNKNOWN", "ACKED"}, count : 0 .. MaxCount,
   holder : Procs \cup {NoProc}, live : BOOLEAN, waiting : BOOLEAN, blocked : BOOLEAN,
   receipt : Receipts \cup {NoReceipt}]

NoWork   == [step |-> "loop", exec |-> NoExec, count |-> 0, answer |-> NoReceipt]
Outcomes == {"retry", "block"}
Works    ==
  [step : {"loop", "begun", "done"}, exec : {NoExec}, count : {0}, answer : {NoReceipt}]
    \cup [step : {"create", "close"}, exec : Execs, count : Nat,
          answer : Receipts \cup {NoReceipt} \cup Outcomes]

(***************************************************************************)
(* Rows, processes, workers and the owner.                                 *)
(***************************************************************************)
DeliveryTypeOK ==
  /\ create \in [Execs -> Deliveries]
  /\ close \in [Execs -> Deliveries]
  /\ quota \in [Execs -> Receipts \cup {"none", "QUEUED"}]
  /\ unsent \subseteq Execs
  /\ proc \in [Procs -> {"new", "running", "draining", "leases", "drained", "aborted", "crashed"}]
  /\ requests \subseteq Procs \X Execs
  /\ worker \in [Procs -> Works]
  /\ wire \subseteq [lane : {"create", "close"}, exec : Execs, to : Procs]
  /\ owner \in [Execs -> [known : BOOLEAN, closed : BOOLEAN, ran : BOOLEAN]]
  /\ faults \in 0 .. MaxFaults

DeliveryInit ==
  /\ create = [e \in Execs |-> NoDelivery]
  /\ close = [e \in Execs |-> NoDelivery]
  /\ quota = [e \in Execs |-> "none"]
  /\ unsent = {}
  /\ proc = [p \in Procs |-> "new"]
  /\ requests = {}
  /\ worker = [p \in Procs |-> NoWork]
  /\ wire = {}
  /\ owner = [e \in Execs |-> [known |-> FALSE, closed |-> FALSE, ran |-> FALSE]]
  /\ faults = 0

Fault == faults < MaxFaults /\ faults' = faults + 1

-----------------------------------------------------------------------------
(* Create requests, and the gate they share with the worker.               *)

Paused(p) == proc[p] # "running"
Active(p) == (\E e \in Execs : <<p, e>> \in requests) \/ worker[p].step \in {"begun", "create"}

BeginRequest(p, e) ==
  /\ ~Paused(p)
  /\ requests' = requests \cup {<<p, e>>}
  /\ UNCHANGED <<rows, proc, worker, wire, owner, faults>>

EndRequest(p, e) ==
  /\ <<p, e>> \in requests
  /\ requests' = requests \ {<<p, e>>}

(* One transaction: the row, and the quota of a GPU execution.             *)
AcceptFrozen(p, e) ==
  /\ EndRequest(p, e)
  /\ create[e].state = "IDLE"
  /\ create' = [create EXCEPT ![e] = Queued]
  /\ quota' = [quota EXCEPT ![e] = IF e \in Gpu THEN "QUEUED" ELSE "none"]
  /\ UNCHANGED <<close, unsent, proc, worker, wire, owner, faults>>

(* The key has a row: replay or conflict; or there is no quota, no valid   *)
(* candidate or no time left, and the transaction is rolled back.          *)
RequestWithoutRow(p, e) ==
  /\ EndRequest(p, e)
  /\ UNCHANGED <<rows, proc, worker, wire, owner, faults>>

(* A Stop is accepted once, needs no owner and does not enter the gate.    *)
AcceptStop(e) ==
  /\ create[e].state # "IDLE"
  /\ close[e].state = "IDLE"
  /\ close' = [close EXCEPT ![e] = Queued]
  /\ unsent' = IF create[e].count = 0 THEN unsent \cup {e} ELSE unsent
  /\ UNCHANGED <<create, quota, proc, requests, worker, wire, owner, faults>>

-----------------------------------------------------------------------------
(* (mutant: nobody takes over an expired lease)                            *)
DueQueuedOnly(d) == ~d.blocked /\ ~d.waiting /\ d.state \in {"QUEUED", "UNKNOWN"}

(* (mutant: a lease keeps nobody away)                                     *)
DueWhileLeased(d) == ~d.blocked /\ ~d.waiting /\ d.state \in {"QUEUED", "UNKNOWN", "DISPATCHING"}

(* Claiming: an expired lease is due again.                                *)
Due(d) ==
  /\ ~d.blocked /\ ~d.waiting
  /\ d.state \in {"QUEUED", "UNKNOWN"} \/ (d.state = "DISPATCHING" /\ ~d.live)

(* (mutant: a Stop does not hold the creation back)                        *)
CreateDueAnyway(e) == Due(create[e])

(* (mutant: a Stop holds the creation back for ever)                       *)
CreateDueUnstopped(e) == Due(create[e]) /\ close[e].state = "IDLE"

(* A creation waits until the owner has recorded a Stop.                   *)
CreateDue(e) == Due(create[e]) /\ close[e].state \in {"IDLE", "ACKED"}

Claimed(d, p) ==
  [d EXCEPT !.state = "DISPATCHING", !.count = @ + 1, !.holder = p, !.live = TRUE]

(* The counters are exhausted: the row is parked, the scan goes on.        *)
Parked(d) ==
  [d EXCEPT !.state = "UNKNOWN", !.holder = NoProc, !.live = FALSE, !.blocked = TRUE]

Call(p, lane, e, count) ==
  /\ worker' = [worker EXCEPT ![p] = [step |-> lane, exec |-> e, count |-> count, answer |-> NoReceipt]]
  /\ wire' = wire \cup {[lane |-> lane, exec |-> e, to |-> p]}

Working(p, step) == worker[p].step = step
GoTo(p, step) == worker' = [worker EXCEPT ![p] = [NoWork EXCEPT !.step = step]]

(* The scan is a snapshot whose rows are checked again under their locks:  *)
(* any row due then may be the first.                                      *)
ClaimClose(p, e) ==
  /\ proc[p] \in {"running", "draining", "leases"}
  /\ Working(p, "loop")
  /\ Due(close[e])
  /\ IF close[e].count < MaxCount
     THEN /\ close' = [close EXCEPT ![e] = Claimed(@, p)]
          /\ Call(p, "close", e, close[e].count + 1)
     ELSE /\ close' = [close EXCEPT ![e] = Parked(@)]
          /\ UNCHANGED <<worker, wire>>
  /\ UNCHANGED <<create, quota, unsent, proc, requests, owner, faults>>

NoCloseDue == \A e \in Execs : ~Due(close[e])

(* deliverNext enters the gate before it claims.                           *)
BeginCreate(p) ==
  /\ ~Paused(p)
  /\ Working(p, "loop")
  /\ NoCloseDue
  /\ GoTo(p, "begun")
  /\ UNCHANGED <<rows, proc, requests, wire, owner, faults>>

ClaimCreate(p, e) ==
  /\ Working(p, "begun")
  /\ CreateDue(e)
  /\ IF create[e].count < MaxCount
     THEN /\ create' = [create EXCEPT ![e] = Claimed(@, p)]
          /\ Call(p, "create", e, create[e].count + 1)
     ELSE /\ create' = [create EXCEPT ![e] = Parked(@)]
          /\ UNCHANGED <<worker, wire>>
  /\ UNCHANGED <<close, quota, unsent, proc, requests, owner, faults>>

NothingClaimed(p) ==
  /\ Working(p, "begun")
  /\ \A e \in Execs : ~CreateDue(e)
  /\ GoTo(p, "loop")
  /\ UNCHANGED <<rows, proc, requests, wire, owner, faults>>

-----------------------------------------------------------------------------
(* The owner handles a call, when its caller still waits or much later.    *)
Asked(m) ==
  /\ worker[m.to].step = m.lane
  /\ worker[m.to].exec = m.exec
  /\ worker[m.to].answer = NoReceipt

Answer(m, a) ==
  worker' = IF Asked(m) THEN [worker EXCEPT ![m.to].answer = a] ELSE worker

Receipt(closed, replayed) ==
  IF closed THEN IF replayed THEN "closed-replayed" ELSE "closed"
  ELSE IF replayed THEN "open-replayed" ELSE "open"

OwnerAccepts(m) ==
  LET e == m.exec IN
  /\ m.lane = "create"
  /\ owner' = [owner EXCEPT ![e].known = TRUE, ![e].ran = @ \/ ~owner[e].closed]
  /\ Answer(m, Receipt(owner[e].closed, owner[e].known))
  /\ wire' = wire \ {m}
  /\ UNCHANGED <<rows, proc, requests, faults>>

OwnerCloses(m) ==
  LET e == m.exec IN
  /\ m.lane = "close"
  /\ owner' = [owner EXCEPT ![e].closed = TRUE]
  /\ Answer(m, Receipt(TRUE, owner[e].closed))
  /\ wire' = wire \ {m}
  /\ UNCHANGED <<rows, proc, requests, faults>>

(* INVALID_COMMAND or COMMAND_CONFLICT.                                    *)
OwnerRefuses(m) ==
  /\ Fault
  /\ Answer(m, "block")
  /\ wire' = wire \ {m}
  /\ UNCHANGED <<rows, proc, requests, owner>>

CallLost(m) ==
  /\ Fault
  /\ wire' = wire \ {m}
  /\ UNCHANGED <<rows, proc, requests, worker, owner>>

(* No answer in time, or one that is not a valid receipt.                  *)
CallTimesOut(p) ==
  /\ worker[p].step \in {"create", "close"}
  /\ worker[p].answer = NoReceipt
  /\ worker' = [worker EXCEPT ![p].answer = "retry"]
  /\ IF [lane |-> worker[p].step, exec |-> worker[p].exec, to |-> p] \in wire
     THEN Fault ELSE UNCHANGED faults
  /\ UNCHANGED <<rows, proc, requests, wire, owner>>

-----------------------------------------------------------------------------
(* Writing back, under the fence.                                          *)

(* The claim is the row's latest and its lease is live.                    *)
Fence(d, p) ==
  /\ d.state = "DISPATCHING" /\ d.holder = p /\ d.live
  /\ d.count = worker[p].count

Acked(d, receipt) ==
  [d EXCEPT !.state = "ACKED", !.receipt = receipt, !.holder = NoProc, !.live = FALSE]

Deferred(d, permanent) ==
  [d EXCEPT !.state = "UNKNOWN", !.blocked = permanent, !.waiting = ~permanent,
            !.holder = NoProc, !.live = FALSE]

(* (mutant: any answer but a refusal is a receipt)                         *)
WrittenBackTrusting(d, answer) ==
  IF answer = "block" THEN Deferred(d, TRUE)
  ELSE Acked(d, IF answer \in Receipts THEN answer ELSE "closed")

WrittenBack(d, answer) ==
  IF answer \in Receipts THEN Acked(d, answer) ELSE Deferred(d, answer = "block")

(* An answer that the ledger operation disagrees with rolls back.          *)
Writes(e, p) ==
  /\ Fence(create[e], p)
  /\ worker[p].answer \in Receipts /\ e \in Gpu => quota[e] \in {"QUEUED", worker[p].answer}

(* (mutant: the ledger is acknowledged outside the fenced transaction)     *)
AckModelDevGPUUnfenced(e, p) ==
  quota' = IF e \in Gpu /\ worker[p].answer \in Receipts
           THEN [quota EXCEPT ![e] = worker[p].answer] ELSE quota

(* The ledger operation takes the same receipt, or nothing is written.     *)
AckModelDevGPU(e, p) ==
  quota' = IF e \in Gpu /\ worker[p].answer \in Receipts /\ Writes(e, p)
           THEN [quota EXCEPT ![e] = worker[p].answer] ELSE quota

WriteBackCreate(p) ==
  LET e == worker[p].exec IN
  /\ Working(p, "create") /\ worker[p].answer # NoReceipt
  /\ create' = IF Writes(e, p)
               THEN [create EXCEPT ![e] = WrittenBack(@, worker[p].answer)] ELSE create
  /\ AckModelDevGPU(e, p)
  /\ GoTo(p, "loop")
  /\ UNCHANGED <<close, unsent, proc, requests, wire, owner, faults>>

WriteBackClose(p) ==
  LET e == worker[p].exec IN
  /\ Working(p, "close") /\ worker[p].answer # NoReceipt
  /\ close' = IF Fence(close[e], p)
              THEN [close EXCEPT ![e] = WrittenBack(@, worker[p].answer)] ELSE close
  /\ GoTo(p, "loop")
  /\ UNCHANGED <<create, quota, unsent, proc, requests, wire, owner, faults>>

(* The write-back fails: the lease stays until it ends.                    *)
WriteBackFails(p) ==
  /\ worker[p].step \in {"create", "close"} /\ worker[p].answer # NoReceipt
  /\ Fault
  /\ GoTo(p, "loop")
  /\ UNCHANGED <<rows, proc, requests, wire, owner>>

LeaseEnds(e) ==
  /\ \/ create[e].live /\ create' = [create EXCEPT ![e].live = FALSE] /\ UNCHANGED close
     \/ close[e].live /\ close' = [close EXCEPT ![e].live = FALSE] /\ UNCHANGED create
  /\ UNCHANGED <<quota, unsent, proc, requests, worker, wire, owner>>

(* Lease of 15 s against three calls of 3 s: it ends under a working       *)
(* process only when that is held up.                                      *)
HeldUp(e) ==
  \E p \in Procs :
    /\ worker[p].exec = e
    /\ \/ worker[p].step = "create" /\ Fence(create[e], p)
       \/ worker[p].step = "close" /\ Fence(close[e], p)

BackoffEnds(e) ==
  /\ \/ create[e].waiting /\ create' = [create EXCEPT ![e].waiting = FALSE] /\ UNCHANGED close
     \/ close[e].waiting /\ close' = [close EXCEPT ![e].waiting = FALSE] /\ UNCHANGED create
  /\ UNCHANGED <<quota, unsent, proc, requests, worker, wire, owner, faults>>

-----------------------------------------------------------------------------
(* The life of a process.                                                  *)
Start(p) ==
  /\ proc[p] = "new"
  /\ proc' = [proc EXCEPT ![p] = "running"]
  /\ UNCHANGED <<rows, requests, worker, wire, owner, faults>>

(* Stop pauses the gate; the worker goes on with closes.                   *)
Pause(p) ==
  /\ p \in MayStop /\ proc[p] = "running"
  /\ proc' = [proc EXCEPT ![p] = "draining"]
  /\ UNCHANGED <<rows, requests, worker, wire, owner, faults>>

GateDrained(p) ==
  /\ proc[p] = "draining"
  /\ ~Active(p)
  /\ proc' = [proc EXCEPT ![p] = "leases"]
  /\ UNCHANGED <<rows, requests, worker, wire, owner, faults>>

HasDeliveryLease(p) ==
  \E e \in Execs : create[e].state = "DISPATCHING" /\ create[e].holder = p /\ create[e].live

(* (mutant: the worker is stopped when the gate is drained)                *)
CancelAtOnce(p) ==
  /\ proc[p] = "leases"
  /\ proc' = [proc EXCEPT ![p] = "drained"]
  /\ GoTo(p, "done")
  /\ UNCHANGED <<rows, requests, wire, owner, faults>>

CancelDrained(p) ==
  /\ proc[p] = "leases"
  /\ ~HasDeliveryLease(p)
  /\ proc' = [proc EXCEPT ![p] = "drained"]
  /\ GoTo(p, "done")
  /\ UNCHANGED <<rows, requests, wire, owner, faults>>

(* The drain takes too long: Stop reports it and cancels what is running.  *)
Abort(p) ==
  /\ proc[p] \in {"draining", "leases"}
  /\ proc' = [proc EXCEPT ![p] = "aborted"]
  /\ GoTo(p, "done")
  /\ UNCHANGED <<rows, requests, wire, owner, faults>>

Crash(p) ==
  /\ p \in MayStop /\ proc[p] \in {"running", "draining", "leases"}
  /\ Fault
  /\ proc' = [proc EXCEPT ![p] = "crashed"]
  /\ GoTo(p, "done")
  /\ requests' = {r \in requests : r[1] # p}
  /\ UNCHANGED <<rows, wire, owner>>

-----------------------------------------------------------------------------
Deliver(p) ==
  \/ \E e \in Execs : ClaimClose(p, e) \/ ClaimCreate(p, e)
  \/ BeginCreate(p)
  \/ NothingClaimed(p)
  \/ CallTimesOut(p)
  \/ WriteBackCreate(p)
  \/ WriteBackClose(p)

OwnerStep(m) == OwnerAccepts(m) \/ OwnerCloses(m)

LeaseOver(e) == LeaseEnds(e) /\ IF HeldUp(e) THEN Fault ELSE UNCHANGED faults

DeliveryNext ==
  \/ \E p \in Procs, e \in Execs : BeginRequest(p, e) \/ AcceptFrozen(p, e) \/ RequestWithoutRow(p, e)
  \/ \E e \in Execs : AcceptStop(e) \/ LeaseOver(e) \/ BackoffEnds(e)
  \/ \E p \in Procs : Deliver(p) \/ WriteBackFails(p)
  \/ \E p \in Procs : Start(p) \/ Pause(p) \/ GateDrained(p) \/ CancelDrained(p) \/ Abort(p) \/ Crash(p)
  \/ \E m \in wire : OwnerStep(m) \/ OwnerRefuses(m) \/ CallLost(m)

DeliverySpec == DeliveryInit /\ [][DeliveryNext]_mvars

(* The loop runs every 300 ms and each of its calls has a timeout; the     *)
(* clock advances; the owner handles what reaches it.                      *)
FairDeliverySpec ==
  /\ DeliverySpec
  /\ \A p \in Procs \ MayStop : WF_mvars(Start(p))
  /\ \A p \in Procs : WF_mvars(Deliver(p))
  /\ \A e \in Execs : WF_mvars(LeaseOver(e)) /\ WF_mvars(BackoffEnds(e))
  /\ WF_mvars(\E m \in wire : OwnerStep(m))

-----------------------------------------------------------------------------
(* An execution stopped before any worker claimed its creation never runs: *)
(* the owner learns of the Stop before it learns of the creation, whoever  *)
(* delivers them, however often and however late.                          *)
StoppedUnsentNeverRuns == \A e \in unsent : ~owner[e].ran

(* What is acknowledged is recorded by the owner: a lost, late or invalid  *)
(* answer never turns into a receipt.                                      *)
AckedIsRecorded ==
  \A e \in Execs : /\ create[e].state = "ACKED" => owner[e].known
                   /\ close[e].state = "ACKED" => owner[e].closed

(* The ledger operation of a GPU execution is queued with the row and      *)
(* acknowledged with it, by the same receipt; a worker that lost its claim *)
(* acknowledges neither.                                                   *)
QuotaFollowsDelivery ==
  \A e \in Gpu :
    CASE create[e].state = "IDLE"  -> quota[e] = "none"
      [] create[e].state = "ACKED" -> quota[e] = create[e].receipt
      [] OTHER                     -> quota[e] = "QUEUED"

(* After a Stop that reports success the process is done with creations:   *)
(* no request and no worker of it is inside the gate and no live lease     *)
(* bears its name.                                                         *)
DrainedIsQuiet == \A p \in Procs : proc[p] = "drained" => ~Active(p) /\ ~HasDeliveryLease(p)

(* While a lease is live the delivery is its holder's: it changes by the   *)
(* end of the lease or by the step of the holder, who works on that claim. *)
ChangedByHolder(d, new, e, lane) ==
  \/ new = [d EXCEPT !.live = FALSE]
  \/ /\ worker[d.holder].step = lane /\ worker[d.holder].exec = e
     /\ worker[d.holder].count = d.count
     /\ worker'[d.holder].step # lane

LeaseProtects ==
  [][\A e \in Execs :
       /\ create[e].live /\ create'[e] # create[e] => ChangedByHolder(create[e], create'[e], e, "create")
       /\ close[e].live /\ close'[e] # close[e] => ChangedByHolder(close[e], close'[e], e, "close")]_mvars

(* An acknowledgement, and a ledger receipt, is final: the deferral of an  *)
(* older claim never takes it back, and a Stop does not reopen it.         *)
AcksStand ==
  [][\A e \in Execs :
       /\ create[e].state = "ACKED" => create'[e] = create[e] /\ quota'[e] = quota[e]
       /\ close[e].state = "ACKED" => close'[e] = close[e]]_mvars

(* What makes the above inductive: the shape of a delivery, and what the   *)
(* calls under way presuppose.                                             *)
DeliveryShape(d) ==
  /\ d.state = "IDLE" => d = NoDelivery
  /\ d.state = "DISPATCHING" <=> d.holder # NoProc
  /\ d.live => d.state = "DISPATCHING"
  /\ d.waiting \/ d.blocked => d.state = "UNKNOWN"
  /\ d.state = "ACKED" <=> d.receipt # NoReceipt
  /\ d.state = "ACKED" \/ d.live => d.count > 0
RowsShaped    == \A e \in Execs : DeliveryShape(create[e]) /\ DeliveryShape(close[e])
StopHasRow    == \A e \in Execs : close[e].state # "IDLE" => create[e].state # "IDLE"
CalledAfter   == \A m \in wire : m.lane = "create" => create[m.exec].count > 0
CallsClaimed  == \A p \in Procs : worker[p].step = "create" => create[worker[p].exec].count > 0
UnsentStopped == \A e \in unsent : close[e].state # "IDLE" /\ (create[e].count > 0 => owner[e].closed)
RanWasCalled  == \A e \in Execs : owner[e].ran \/ owner[e].known => create[e].count > 0
AnswersTrue   ==
  \A p \in Procs :
    /\ worker[p].step = "create" /\ worker[p].answer \in Receipts => owner[worker[p].exec].known
    /\ worker[p].step = "close" /\ worker[p].answer \in Receipts => owner[worker[p].exec].closed
GatesClosed   == \A p \in Procs : proc[p] = "leases" => ~Active(p)

DeliveryInv ==
  /\ DeliveryTypeOK
  /\ RowsShaped
  /\ StopHasRow
  /\ CalledAfter
  /\ CallsClaimed
  /\ RanWasCalled
  /\ UnsentStopped
  /\ AnswersTrue
  /\ StoppedUnsentNeverRuns
  /\ AckedIsRecorded
  /\ QuotaFollowsDelivery
  /\ GatesClosed
  /\ DrainedIsQuiet

(* An accepted creation is acknowledged or parked for good, unless a Stop  *)
(* that holds it back is parked; no lease, back-off or Stop forgets it.    *)
CreateSettles ==
  \A e \in Execs :
    create[e].state # "IDLE" ~>
      create[e].state = "ACKED" \/ create[e].blocked \/ close[e].blocked

(* An accepted Stop is recorded by the owner, or parked.                   *)
StopSettles ==
  \A e \in Execs : close[e].state # "IDLE" ~> close[e].state = "ACKED" \/ close[e].blocked
=============================================================================
