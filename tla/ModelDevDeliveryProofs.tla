----------------------- MODULE ModelDevDeliveryProofs -----------------------
(***************************************************************************)
(* Theorems about the delivery of model development executions, for any    *)
(* executions, processes, counter limits and faults.                       *)
(***************************************************************************)
EXTENDS ModelDevDelivery, TLAPS

(* Every way a delivery changes keeps its shape.                           *)
Good(d) == d \in Deliveries /\ DeliveryShape(d)

LEMMA FreshGood == Good(NoDelivery) /\ Good(Queued) /\ Queued.state = "QUEUED" /\ Queued.count = 0
<1>1. 0 \in 0 .. MaxCount
  BY ModelDevAssumption
<1>2. NoDelivery \in Deliveries
  BY <1>1 DEF NoDelivery, Deliveries
<1>3. DeliveryShape(NoDelivery)
  BY DEF NoDelivery, DeliveryShape, NoReceipt
<1>4. Queued \in Deliveries
  BY <1>2 DEF Queued, Deliveries
<1>5. /\ Queued.state = "QUEUED" /\ Queued.holder = NoProc /\ Queued.live = FALSE
      /\ Queued.waiting = FALSE /\ Queued.blocked = FALSE /\ Queued.receipt = NoReceipt
      /\ Queued.count = 0
  BY DEF Queued, NoDelivery
<1>6. DeliveryShape(Queued)
  BY <1>5 DEF DeliveryShape, NoReceipt
<1> QED
  BY <1>2, <1>3, <1>4, <1>5, <1>6 DEF Good

LEMMA ClaimedGood ==
  ASSUME NEW d, Good(d), NEW p \in Procs, Due(d), d.count < MaxCount
  PROVE  /\ Good(Claimed(d, p)) /\ Claimed(d, p).count = d.count + 1
         /\ Claimed(d, p).state = "DISPATCHING" /\ Claimed(d, p).holder = p
<1>1. /\ d \in Deliveries /\ DeliveryShape(d) /\ d.count \in Nat /\ MaxCount \in Nat
  BY ModelDevAssumption DEF Good, Deliveries
<1>2. d.count + 1 \in 0 .. MaxCount
  BY <1>1
<1>3. Claimed(d, p) \in Deliveries
  BY <1>1, <1>2 DEF Claimed, Deliveries
<1>4. /\ Claimed(d, p).state = "DISPATCHING" /\ Claimed(d, p).holder = p /\ Claimed(d, p).live
      /\ Claimed(d, p).count = d.count + 1 /\ Claimed(d, p).waiting = d.waiting
      /\ Claimed(d, p).blocked = d.blocked /\ Claimed(d, p).receipt = d.receipt
  BY <1>1 DEF Claimed, Deliveries
<1>5. d.receipt = NoReceipt /\ ~d.waiting /\ ~d.blocked
  BY <1>1 DEF Due, DeliveryShape
<1>6. DeliveryShape(Claimed(d, p))
  BY <1>1, <1>4, <1>5, ModelDevAssumption DEF DeliveryShape
<1> QED
  BY <1>3, <1>4, <1>6 DEF Good

LEMMA ParkedGood ==
  ASSUME NEW d, Good(d), Due(d)
  PROVE  Good(Parked(d)) /\ Parked(d).count = d.count
BY ModelDevAssumption
   DEF Good, Due, Parked, Deliveries, DeliveryShape, NoReceipt, Receipts

LEMMA WrittenGood ==
  ASSUME NEW d, Good(d), d.state = "DISPATCHING", d.live, NEW a \in Receipts \cup Outcomes
  PROVE  /\ Good(WrittenBack(d, a)) /\ WrittenBack(d, a).count = d.count
         /\ WrittenBack(d, a).state = "ACKED" <=> a \in Receipts
         /\ a \in Receipts => WrittenBack(d, a).receipt = a
         /\ WrittenBack(d, a).state \in {"ACKED", "UNKNOWN"}
BY ModelDevAssumption
   DEF Good, WrittenBack, Acked, Deferred, Deliveries, DeliveryShape, NoReceipt, Receipts, Outcomes

SameClaim(new, d) == new.state = d.state /\ new.count = d.count /\ new.receipt = d.receipt

LEMMA TimeGood ==
  ASSUME NEW d, Good(d), NEW new,
         \/ d.live /\ new = [d EXCEPT !.live = FALSE]
         \/ new = [d EXCEPT !.waiting = FALSE]
  PROVE  Good(new) /\ SameClaim(new, d)
<1>1. CASE d.live /\ new = [d EXCEPT !.live = FALSE]
  BY <1>1 DEF Good, Deliveries, DeliveryShape, NoDelivery, SameClaim
<1>2. CASE new = [d EXCEPT !.waiting = FALSE]
  BY <1>2 DEF Good, Deliveries, DeliveryShape, NoDelivery, SameClaim
<1> QED
  BY <1>1, <1>2

-----------------------------------------------------------------------------
(* Type correctness.                                                       *)
LEMMA WorkerTypes ==
  ASSUME DeliveryTypeOK, NEW p \in Procs
  PROVE  /\ worker[p].step \in {"create", "close"} =>
              worker[p] \in [step : {"create", "close"}, exec : Execs, count : Nat,
                             answer : Receipts \cup {NoReceipt} \cup Outcomes]
         /\ worker[p].step \in {"loop", "begun", "done", "create", "close"}
         /\ worker[p].step \in {"loop", "begun", "done"} =>
              worker[p] = [step |-> worker[p].step, exec |-> NoExec, count |-> 0, answer |-> NoReceipt]
<1>1. worker[p] \in Works
  BY DEF DeliveryTypeOK
<1> QED
  BY <1>1 DEF Works

LEMMA GoToType ==
  ASSUME DeliveryTypeOK, NEW p \in Procs, NEW s \in {"loop", "begun", "done"}, GoTo(p, s)
  PROVE  worker' \in [Procs -> Works] /\ worker'[p].step = s
BY DEF DeliveryTypeOK, GoTo, NoWork, Works

LEMMA CallType ==
  ASSUME DeliveryTypeOK, NEW p \in Procs, NEW l \in {"create", "close"}, NEW e \in Execs,
         NEW n \in Nat, Call(p, l, e, n)
  PROVE  /\ worker' \in [Procs -> Works]
         /\ wire' \subseteq [lane : {"create", "close"}, exec : Execs, to : Procs]
BY DEF DeliveryTypeOK, Call, Works, NoReceipt

LEMMA AnswerType ==
  ASSUME DeliveryTypeOK, NEW m \in wire, NEW a \in Receipts \cup Outcomes, Answer(m, a)
  PROVE  worker' \in [Procs -> Works]
<1>1. m.to \in Procs /\ m.lane \in {"create", "close"} /\ worker \in [Procs -> Works]
  BY DEF DeliveryTypeOK
<1>2. CASE Asked(m)
  <2>1. worker[m.to] \in [step : {"create", "close"}, exec : Execs, count : Nat,
                          answer : Receipts \cup {NoReceipt} \cup Outcomes]
    BY <1>1, <1>2, WorkerTypes DEF Asked
  <2>2. [worker[m.to] EXCEPT !.answer = a] \in Works
    BY <2>1 DEF Works
  <2> QED
    BY <1>1, <1>2, <2>2 DEF Answer
<1>3. CASE ~Asked(m)
  BY <1>1, <1>3 DEF Answer
<1> QED
  BY <1>2, <1>3

LEMMA ReceiptType ==
  /\ \A c, r \in BOOLEAN : Receipt(c, r) \in Receipts
  /\ NoReceipt \notin Receipts \cup Outcomes
  /\ Receipts \cap Outcomes = {}
BY DEF Receipt, Receipts, NoReceipt, Outcomes

-----------------------------------------------------------------------------
(* What a step does to one create delivery and its ledger operation.       *)
CreateKept(e)    == create'[e] = create[e] /\ quota'[e] = quota[e]
CreateMade(e)    ==
  /\ create[e].state = "IDLE" /\ create'[e] = Queued
  /\ quota'[e] = IF e \in Gpu THEN "QUEUED" ELSE "none"
CreateClaimed(e) ==
  /\ CreateDue(e) /\ quota'[e] = quota[e]
  /\ create[e].count < MaxCount
  /\ \E p \in Procs : worker[p].step = "begun" /\ create'[e] = Claimed(create[e], p)
CreateParked(e)  == CreateDue(e) /\ quota'[e] = quota[e] /\ create'[e] = Parked(create[e])
CreateWritten(e) ==
  \E p \in Procs :
    /\ worker[p].step = "create" /\ worker[p].exec = e /\ worker[p].answer \in Receipts \cup Outcomes
    /\ Writes(e, p)
    /\ worker'[p].step = "loop"
    /\ create'[e] = WrittenBack(create[e], worker[p].answer)
    /\ quota'[e] = IF e \in Gpu /\ worker[p].answer \in Receipts THEN worker[p].answer ELSE quota[e]
CreateTimed(e)   ==
  /\ quota'[e] = quota[e]
  /\ \/ create[e].live /\ create'[e] = [create[e] EXCEPT !.live = FALSE]
     \/ create[e].waiting /\ create'[e] = [create[e] EXCEPT !.waiting = FALSE]
CreateMove(e) ==
  CreateKept(e) \/ CreateMade(e) \/ CreateClaimed(e) \/ CreateParked(e) \/ CreateWritten(e) \/ CreateTimed(e)

(* The same of a close delivery.                                           *)
CloseClaimed(e) ==
  /\ Due(close[e]) /\ close[e].count < MaxCount
  /\ \E p \in Procs : close'[e] = Claimed(close[e], p)
CloseWritten(e) ==
  \E p \in Procs :
    /\ worker[p].step = "close" /\ worker[p].exec = e /\ worker[p].answer \in Receipts \cup Outcomes
    /\ Fence(close[e], p)
    /\ worker'[p].step = "loop"
    /\ close'[e] = WrittenBack(close[e], worker[p].answer)
CloseMove(e) ==
  \/ close'[e] = close[e]
  \/ close[e].state = "IDLE" /\ create[e].state # "IDLE" /\ close'[e] = Queued
  \/ CloseClaimed(e)
  \/ Due(close[e]) /\ close'[e] = Parked(close[e])
  \/ CloseWritten(e)
  \/ close[e].live /\ close'[e] = [close[e] EXCEPT !.live = FALSE]
  \/ close[e].waiting /\ close'[e] = [close[e] EXCEPT !.waiting = FALSE]

RowTables ==
  /\ create' = [e \in Execs |-> create'[e]]
  /\ close' = [e \in Execs |-> close'[e]]
  /\ quota' = [e \in Execs |-> quota'[e]]

LEMMA RowsMove ==
  ASSUME DeliveryInv, DeliveryNext
  PROVE  RowTables /\ \A e \in Execs : CreateMove(e) /\ CloseMove(e)
<1> DEFINE Goal == RowTables /\ \A e \in Execs : CreateMove(e) /\ CloseMove(e)
<1>0. /\ create \in [Execs -> Deliveries] /\ close \in [Execs -> Deliveries]
      /\ quota \in [Execs -> Receipts \cup {"none", "QUEUED"}] /\ DeliveryTypeOK
  BY DEF DeliveryInv, DeliveryTypeOK
<1>1. ASSUME UNCHANGED rows PROVE Goal
  BY <1>0, <1>1 DEF rows, RowTables, CreateMove, CreateKept, CloseMove
<1>2. ASSUME NEW p \in Procs, NEW e \in Execs,
             BeginRequest(p, e) \/ RequestWithoutRow(p, e)
      PROVE  Goal
  BY <1>1, <1>2 DEF BeginRequest, RequestWithoutRow
<1>3. ASSUME NEW p \in Procs, NEW e \in Execs, AcceptFrozen(p, e) PROVE Goal
  BY <1>0, <1>3 DEF AcceptFrozen, RowTables, CreateMove, CreateKept, CreateMade, CloseMove
<1>4. ASSUME NEW e \in Execs, AcceptStop(e) PROVE Goal
  BY <1>0, <1>4 DEF AcceptStop, RowTables, CreateMove, CreateKept, CloseMove
<1>5. ASSUME NEW e \in Execs, LeaseOver(e) PROVE Goal
  <2>1. CASE create[e].live /\ create' = [create EXCEPT ![e].live = FALSE] /\ UNCHANGED close
    BY <1>0, <1>5, <2>1 DEF LeaseOver, LeaseEnds, RowTables, CreateMove, CreateKept, CreateTimed, CloseMove
  <2>2. CASE close[e].live /\ close' = [close EXCEPT ![e].live = FALSE] /\ UNCHANGED create
    BY <1>0, <1>5, <2>2 DEF LeaseOver, LeaseEnds, RowTables, CreateMove, CreateKept, CloseMove
  <2> QED
    BY <1>5, <2>1, <2>2 DEF LeaseOver, LeaseEnds
<1>6. ASSUME NEW e \in Execs, BackoffEnds(e) PROVE Goal
  <2>1. CASE create[e].waiting /\ create' = [create EXCEPT ![e].waiting = FALSE] /\ UNCHANGED close
    BY <1>0, <1>6, <2>1 DEF BackoffEnds, RowTables, CreateMove, CreateKept, CreateTimed, CloseMove
  <2>2. CASE close[e].waiting /\ close' = [close EXCEPT ![e].waiting = FALSE] /\ UNCHANGED create
    BY <1>0, <1>6, <2>2 DEF BackoffEnds, RowTables, CreateMove, CreateKept, CloseMove
  <2> QED
    BY <1>6, <2>1, <2>2 DEF BackoffEnds
<1>7. ASSUME NEW p \in Procs, NEW e \in Execs, ClaimClose(p, e) PROVE Goal
  BY <1>0, <1>7 DEF ClaimClose, RowTables, CreateMove, CreateKept, CloseMove, CloseClaimed
<1>8. ASSUME NEW p \in Procs, NEW e \in Execs, ClaimCreate(p, e) PROVE Goal
  BY <1>0, <1>8 DEF ClaimCreate, Working, RowTables, CreateMove, CreateKept, CreateClaimed, CreateParked, CloseMove
<1>9. ASSUME NEW p \in Procs, WriteBackCreate(p) PROVE Goal
  <2> DEFINE e == worker[p].exec
  <2>1. e \in Execs /\ worker[p].step = "create" /\ worker[p].answer \in Receipts \cup Outcomes
    BY <1>0, <1>9, WorkerTypes DEF WriteBackCreate, Working
  <2>2. UNCHANGED close /\ worker'[p].step = "loop"
    BY <1>0, <1>9, GoToType DEF WriteBackCreate
  <2>3. CASE Writes(e, p)
    <3>1. create' = [create EXCEPT ![e] = WrittenBack(create[e], worker[p].answer)]
      BY <1>9, <2>3 DEF WriteBackCreate
    <3>2. quota' = IF e \in Gpu /\ worker[p].answer \in Receipts
                   THEN [quota EXCEPT ![e] = worker[p].answer] ELSE quota
      BY <1>9, <2>3 DEF WriteBackCreate, AckModelDevGPU
    <3>3. CreateWritten(e)
      BY <1>0, <2>1, <2>2, <2>3, <3>1, <3>2 DEF CreateWritten
    <3>4. \A x \in Execs : x # e => CreateKept(x)
      BY <1>0, <2>1, <3>1, <3>2 DEF CreateKept
    <3> QED
      BY <1>0, <2>1, <2>2, <3>1, <3>2, <3>3, <3>4 DEF RowTables, CreateMove, CloseMove
  <2>4. CASE ~Writes(e, p)
    BY <1>0, <1>9, <2>2, <2>4 DEF WriteBackCreate, AckModelDevGPU, RowTables, CreateMove, CreateKept, CloseMove
  <2> QED
    BY <2>3, <2>4
<1>10. ASSUME NEW p \in Procs, WriteBackClose(p) PROVE Goal
  <2> DEFINE e == worker[p].exec
  <2>1. e \in Execs /\ worker[p].step = "close" /\ worker[p].answer \in Receipts \cup Outcomes
    BY <1>0, <1>10, WorkerTypes DEF WriteBackClose, Working
  <2>2. (\A x \in Execs : CreateKept(x)) /\ worker'[p].step = "loop"
    BY <1>0, <1>10, GoToType DEF WriteBackClose, CreateKept
  <2>3. CASE Fence(close[e], p)
    <3>1. close' = [close EXCEPT ![e] = WrittenBack(close[e], worker[p].answer)]
      BY <1>10, <2>3 DEF WriteBackClose
    <3> QED
      BY <1>0, <1>10, <2>1, <2>2, <2>3, <3>1 DEF WriteBackClose, CloseWritten, RowTables, CreateMove, CloseMove
  <2>4. CASE ~Fence(close[e], p)
    BY <1>0, <1>10, <2>2, <2>4 DEF WriteBackClose, RowTables, CreateMove, CloseMove
  <2> QED
    BY <2>3, <2>4
<1>11. ASSUME NEW p \in Procs,
              \/ BeginCreate(p) \/ NothingClaimed(p) \/ CallTimesOut(p) \/ WriteBackFails(p)
              \/ Start(p) \/ Pause(p) \/ GateDrained(p) \/ CancelDrained(p) \/ Abort(p) \/ Crash(p)
       PROVE  Goal
  BY <1>1, <1>11 DEF BeginCreate, NothingClaimed, CallTimesOut, WriteBackFails, Start, Pause,
                     GateDrained, CancelDrained, Abort, Crash
<1>12. ASSUME NEW m \in wire, OwnerStep(m) \/ OwnerRefuses(m) \/ CallLost(m) PROVE Goal
  BY <1>1, <1>12 DEF OwnerStep, OwnerAccepts, OwnerCloses, OwnerRefuses, CallLost
<1> QED
  BY <1>2, <1>3, <1>4, <1>5, <1>6, <1>7, <1>8, <1>9, <1>10, <1>11, <1>12 DEF DeliveryNext, Deliver

LEMMA RowStates ==
  ASSUME NEW d, Good(d)
  PROVE  /\ d.state \in {"IDLE", "QUEUED", "DISPATCHING", "UNKNOWN", "ACKED"}
         /\ d.count \in Nat
         /\ d.state = "IDLE" => d.count = 0
BY DEF Good, Deliveries, DeliveryShape, NoDelivery

(* A worker has a receipt for the delivery.                                *)
AnsweredBy(lane, e) ==
  \E p \in Procs : worker[p].step = lane /\ worker[p].exec = e /\ worker[p].answer \in Receipts

(* What a step keeps of one create delivery.                               *)
CreateKeeps(e) ==
  /\ Good(create'[e])
  /\ quota'[e] \in Receipts \cup {"none", "QUEUED"}
  /\ create[e].count <= create'[e].count
  /\ create[e].count < create'[e].count => CreateDue(e)
  /\ create'[e].state = "IDLE" => create[e].state = "IDLE"
  /\ create'[e].state = "ACKED" /\ create[e].state # "ACKED" => AnsweredBy("create", e)

CloseKeeps(e) ==
  /\ close'[e].state = "IDLE" => close[e].state = "IDLE"
  /\ close'[e].state = "ACKED" /\ close[e].state # "ACKED" => AnsweredBy("close", e)

QuotaOf(e, d, q) ==
  CASE d.state = "IDLE"  -> q = "none"
    [] d.state = "ACKED" -> q = d.receipt
    [] OTHER             -> q = "QUEUED"

LEMMA CreateStep ==
  ASSUME NEW e \in Execs, Good(create[e]), CreateMove(e),
         quota[e] \in Receipts \cup {"none", "QUEUED"}, e \in Gpu => QuotaOf(e, create[e], quota[e])
  PROVE  CreateKeeps(e) /\ (e \in Gpu => QuotaOf(e, create'[e], quota'[e]))
<1> DEFINE Goal == CreateKeeps(e) /\ (e \in Gpu => QuotaOf(e, create'[e], quota'[e]))
<1>0. /\ create[e].state \in {"IDLE", "QUEUED", "DISPATCHING", "UNKNOWN", "ACKED"}
      /\ create[e].count \in Nat /\ (create[e].state = "IDLE" => create[e].count = 0)
  BY RowStates
<1>1. CASE CreateKept(e)
  BY <1>0, <1>1 DEF CreateKept, CreateKeeps
<1>2. CASE CreateMade(e)
  BY <1>0, <1>2, FreshGood DEF CreateMade, CreateKeeps, QuotaOf
<1>3. CASE CreateClaimed(e)
  <2>1. PICK p \in Procs : create'[e] = Claimed(create[e], p)
    BY <1>3 DEF CreateClaimed
  <2>2. CreateDue(e) /\ Due(create[e]) /\ create[e].count < MaxCount /\ quota'[e] = quota[e]
    BY <1>3 DEF CreateClaimed, CreateDue
  <2>3. /\ Good(create'[e]) /\ create'[e].count = create[e].count + 1
        /\ create'[e].state = "DISPATCHING"
    BY <2>1, <2>2, ClaimedGood
  <2>4. create[e].state \in {"QUEUED", "UNKNOWN", "DISPATCHING"}
    BY <2>2 DEF Due
  <2> QED
    BY <1>0, <2>2, <2>3, <2>4 DEF CreateKeeps, QuotaOf
<1>4. CASE CreateParked(e)
  <2>1. CreateDue(e) /\ Due(create[e]) /\ quota'[e] = quota[e] /\ create'[e] = Parked(create[e])
    BY <1>4 DEF CreateParked, CreateDue
  <2>2. Good(create'[e]) /\ create'[e].count = create[e].count
    BY <2>1, ParkedGood
  <2>3. create'[e].state = "UNKNOWN"
    BY <2>1 DEF Parked, Good, Deliveries
  <2>4. create[e].state \in {"QUEUED", "UNKNOWN", "DISPATCHING"}
    BY <2>1 DEF Due
  <2> QED
    BY <1>0, <2>1, <2>2, <2>3, <2>4 DEF CreateKeeps, QuotaOf
<1>5. CASE CreateWritten(e)
  <2>1. PICK p \in Procs :
          /\ worker[p].step = "create" /\ worker[p].exec = e
          /\ worker[p].answer \in Receipts \cup Outcomes /\ Writes(e, p)
          /\ create'[e] = WrittenBack(create[e], worker[p].answer)
          /\ quota'[e] = IF e \in Gpu /\ worker[p].answer \in Receipts THEN worker[p].answer ELSE quota[e]
    BY <1>5 DEF CreateWritten
  <2>2. create[e].state = "DISPATCHING" /\ create[e].live
    BY <2>1 DEF Writes, Fence
  <2>3. /\ Good(create'[e]) /\ create'[e].count = create[e].count
        /\ create'[e].state = "ACKED" <=> worker[p].answer \in Receipts
        /\ worker[p].answer \in Receipts => create'[e].receipt = worker[p].answer
        /\ create'[e].state \in {"ACKED", "UNKNOWN"}
    BY <2>1, <2>2, WrittenGood
  <2> QED
    BY <1>0, <2>1, <2>2, <2>3 DEF CreateKeeps, QuotaOf, AnsweredBy
<1>6. CASE CreateTimed(e)
  <2>1. /\ Good(create'[e]) /\ create'[e].count = create[e].count /\ create'[e].state = create[e].state
        /\ create'[e].receipt = create[e].receipt /\ quota'[e] = quota[e]
    BY <1>6, TimeGood DEF CreateTimed, SameClaim
  <2> QED
    BY <1>0, <2>1 DEF CreateKeeps, QuotaOf
<1> QED
  BY <1>1, <1>2, <1>3, <1>4, <1>5, <1>6 DEF CreateMove

LEMMA CloseStep ==
  ASSUME NEW e \in Execs, Good(close[e]), CloseMove(e)
  PROVE  /\ Good(close'[e])
         /\ close'[e].state # "IDLE" /\ close[e].state = "IDLE" => create[e].state # "IDLE"
         /\ close'[e].state = "IDLE" => close[e].state = "IDLE"
         /\ close'[e].state = "ACKED" /\ close[e].state # "ACKED" => AnsweredBy("close", e)
<1> DEFINE Goal == /\ Good(close'[e])
                   /\ close'[e].state # "IDLE" /\ close[e].state = "IDLE" => create[e].state # "IDLE"
                   /\ close'[e].state = "IDLE" => close[e].state = "IDLE"
                   /\ close'[e].state = "ACKED" /\ close[e].state # "ACKED" => AnsweredBy("close", e)
<1>1. CASE close'[e] = close[e]
  BY <1>1
<1>2. CASE close[e].state = "IDLE" /\ create[e].state # "IDLE" /\ close'[e] = Queued
  BY <1>2, FreshGood
<1>3. CASE CloseClaimed(e)
  <2>1. PICK p \in Procs : close'[e] = Claimed(close[e], p)
    BY <1>3 DEF CloseClaimed
  <2>2. Due(close[e]) /\ close[e].count < MaxCount
    BY <1>3 DEF CloseClaimed
  <2> QED
    BY <2>1, <2>2, ClaimedGood DEF Due
<1>4. CASE Due(close[e]) /\ close'[e] = Parked(close[e])
  <2>1. Good(close'[e])
    BY <1>4, ParkedGood
  <2>2. close'[e].state = "UNKNOWN"
    BY <1>4 DEF Parked, Good, Deliveries
  <2> QED
    BY <1>4, <2>1, <2>2 DEF Due
<1>5. CASE CloseWritten(e)
  <2>1. PICK p \in Procs : /\ worker[p].step = "close" /\ worker[p].exec = e
                           /\ worker[p].answer \in Receipts \cup Outcomes /\ Fence(close[e], p)
                           /\ close'[e] = WrittenBack(close[e], worker[p].answer)
    BY <1>5 DEF CloseWritten
  <2>2. close[e].state = "DISPATCHING" /\ close[e].live
    BY <2>1 DEF Fence
  <2> QED
    BY <2>1, <2>2, WrittenGood DEF AnsweredBy
<1>6. CASE \/ close[e].live /\ close'[e] = [close[e] EXCEPT !.live = FALSE]
           \/ close[e].waiting /\ close'[e] = [close[e] EXCEPT !.waiting = FALSE]
  BY <1>6, TimeGood DEF SameClaim
<1> QED
  BY <1>1, <1>2, <1>3, <1>4, <1>5, <1>6 DEF CloseMove

LEMMA RowsStep ==
  ASSUME DeliveryInv, DeliveryNext
  PROVE  /\ create' \in [Execs -> Deliveries] /\ close' \in [Execs -> Deliveries]
         /\ quota' \in [Execs -> Receipts \cup {"none", "QUEUED"}]
         /\ RowsShaped' /\ StopHasRow' /\ QuotaFollowsDelivery'
         /\ \A e \in Execs : CreateKeeps(e) /\ CloseKeeps(e)
<1>1. RowTables /\ \A e \in Execs : CreateMove(e) /\ CloseMove(e)
  BY RowsMove
<1>2. ASSUME NEW e \in Execs
      PROVE  /\ Good(create[e]) /\ Good(close[e]) /\ quota[e] \in Receipts \cup {"none", "QUEUED"}
             /\ e \in Gpu => QuotaOf(e, create[e], quota[e])
             /\ close[e].state # "IDLE" => create[e].state # "IDLE"
  BY DEF DeliveryInv, DeliveryTypeOK, RowsShaped, Good, QuotaFollowsDelivery, QuotaOf, StopHasRow
<1>3. ASSUME NEW e \in Execs
      PROVE  /\ CreateKeeps(e) /\ (e \in Gpu => QuotaOf(e, create'[e], quota'[e]))
  BY <1>1, <1>2, CreateStep
<1>4. ASSUME NEW e \in Execs
      PROVE  /\ Good(close'[e])
             /\ close'[e].state # "IDLE" /\ close[e].state = "IDLE" => create[e].state # "IDLE"
             /\ CloseKeeps(e)
  BY <1>1, <1>2, CloseStep DEF CloseKeeps
<1>5. /\ create' \in [Execs -> Deliveries] /\ close' \in [Execs -> Deliveries]
      /\ quota' \in [Execs -> Receipts \cup {"none", "QUEUED"}]
  BY <1>1, <1>3, <1>4 DEF RowTables, CreateKeeps, Good
<1>6. RowsShaped'
  BY <1>3, <1>4 DEF RowsShaped, CreateKeeps, Good
<1>7. StopHasRow'
  BY <1>2, <1>3, <1>4 DEF StopHasRow, CreateKeeps
<1>8. QuotaFollowsDelivery'
  BY <1>3, ModelDevAssumption DEF QuotaFollowsDelivery, QuotaOf
<1> QED
  BY <1>3, <1>4, <1>5, <1>6, <1>7, <1>8

-----------------------------------------------------------------------------
(* What a step does to workers, calls and the owner.                       *)
OwnerKeeps(e) ==
  /\ owner[e].known => owner'[e].known
  /\ owner[e].closed => owner'[e].closed
  /\ owner'[e].known /\ ~owner[e].known => create[e].count > 0
  /\ owner'[e].ran /\ ~owner[e].ran => create[e].count > 0 /\ ~owner[e].closed

WorkerTrue(p) ==
  /\ worker'[p].step = "create" => create'[worker'[p].exec].count > 0
  /\ worker'[p].step = "create" /\ worker'[p].answer \in Receipts => owner'[worker'[p].exec].known
  /\ worker'[p].step = "close" /\ worker'[p].answer \in Receipts => owner'[worker'[p].exec].closed

WiresTrue == \A m \in wire' : m.lane = "create" => create'[m.exec].count > 0

RestTrue ==
  /\ worker' \in [Procs -> Works]
  /\ wire' \subseteq [lane : {"create", "close"}, exec : Execs, to : Procs]
  /\ owner' \in [Execs -> [known : BOOLEAN, closed : BOOLEAN, ran : BOOLEAN]]
  /\ \A e \in Execs : OwnerKeeps(e)
  /\ \A p \in Procs : WorkerTrue(p)
  /\ WiresTrue

LEMMA RestStep ==
  ASSUME DeliveryInv, DeliveryNext
  PROVE  RestTrue
<1>0. /\ DeliveryTypeOK /\ worker \in [Procs -> Works]
      /\ wire \subseteq [lane : {"create", "close"}, exec : Execs, to : Procs]
      /\ owner \in [Execs -> [known : BOOLEAN, closed : BOOLEAN, ran : BOOLEAN]]
  BY DEF DeliveryInv, DeliveryTypeOK
<1>1. \A e \in Execs : create[e].count > 0 => create'[e].count > 0
  <2>1. \A e \in Execs : create[e].count \in Nat /\ create'[e].count \in Nat
    BY <1>0, RowsStep DEF DeliveryTypeOK, Deliveries
  <2> QED
    BY <2>1, RowsStep DEF CreateKeeps
<1>2. ASSUME NEW p \in Procs, worker'[p] = worker[p], UNCHANGED owner PROVE WorkerTrue(p)
  BY <1>0, <1>1, <1>2, WorkerTypes DEF WorkerTrue, DeliveryInv, CallsClaimed, AnswersTrue
<1>3. ASSUME UNCHANGED wire PROVE WiresTrue
  BY <1>0, <1>1, <1>3 DEF WiresTrue, DeliveryInv, CalledAfter
<1>4. ASSUME UNCHANGED owner PROVE \A e \in Execs : OwnerKeeps(e)
  BY <1>4 DEF OwnerKeeps
<1>5. ASSUME UNCHANGED <<worker, wire, owner>> PROVE RestTrue
  BY <1>0, <1>2, <1>3, <1>4, <1>5 DEF RestTrue
<1>6. ASSUME NEW p \in Procs, NEW s \in {"loop", "begun", "done"}, GoTo(p, s), UNCHANGED <<wire, owner>>
      PROVE  RestTrue
  <2>1. worker' \in [Procs -> Works] /\ worker'[p].step = s
    BY <1>0, <1>6, GoToType
  <2>2. \A q \in Procs : q # p => worker'[q] = worker[q]
    BY <1>0, <1>6 DEF GoTo
  <2>3. WorkerTrue(p)
    BY <2>1 DEF WorkerTrue
  <2> QED
    BY <1>0, <1>2, <1>3, <1>4, <1>6, <2>1, <2>2, <2>3 DEF RestTrue
<1>7. ASSUME NEW p \in Procs, NEW e \in Execs, NEW l \in {"create", "close"}, NEW n \in Nat,
             Call(p, l, e, n), UNCHANGED owner, l = "create" => create'[e].count > 0
      PROVE  RestTrue
  <2>1. /\ worker' \in [Procs -> Works]
        /\ wire' \subseteq [lane : {"create", "close"}, exec : Execs, to : Procs]
    BY <1>0, <1>7, CallType
  <2>2. worker'[p].step = l /\ worker'[p].exec = e /\ worker'[p].answer = NoReceipt
    BY <1>0, <1>7 DEF Call
  <2>3. \A q \in Procs : q # p => worker'[q] = worker[q]
    BY <1>0, <1>7 DEF Call
  <2>4. WorkerTrue(p)
    BY <1>7, <2>2, ReceiptType DEF WorkerTrue
  <2>5. WiresTrue
    <3> SUFFICES ASSUME NEW m \in wire', m.lane = "create" PROVE create'[m.exec].count > 0
      BY DEF WiresTrue
    <3>1. CASE m \in wire
      BY <1>0, <1>1, <3>1 DEF DeliveryInv, CalledAfter
    <3>2. CASE m = [lane |-> l, exec |-> e, to |-> p]
      BY <1>7, <3>2
    <3> QED
      BY <1>7, <3>1, <3>2 DEF Call
  <2> QED
    BY <1>0, <1>2, <1>4, <1>7, <2>1, <2>3, <2>4, <2>5 DEF RestTrue
<1>8. ASSUME NEW m \in wire, NEW a \in Receipts \cup Outcomes, Answer(m, a), wire' = wire \ {m},
             owner' \in [Execs -> [known : BOOLEAN, closed : BOOLEAN, ran : BOOLEAN]],
             \A e \in Execs : OwnerKeeps(e),
             a \in Receipts => IF m.lane = "create" THEN owner'[m.exec].known ELSE owner'[m.exec].closed
      PROVE  RestTrue
  <2>1. worker' \in [Procs -> Works]
    BY <1>0, <1>8, AnswerType
  <2>2. WiresTrue
    BY <1>0, <1>1, <1>8 DEF WiresTrue, DeliveryInv, CalledAfter
  <2>3. ASSUME NEW p \in Procs PROVE WorkerTrue(p)
    <3>1. CASE worker'[p] = worker[p]
      BY <1>0, <1>1, <1>8, <3>1, WorkerTypes
         DEF WorkerTrue, DeliveryInv, CallsClaimed, AnswersTrue, OwnerKeeps
    <3>2. CASE worker'[p] # worker[p]
      <4>1. p = m.to /\ Asked(m) /\ worker'[p] = [worker[p] EXCEPT !.answer = a]
        BY <1>0, <1>8, <3>2 DEF Answer
      <4>2. /\ worker[p].step = m.lane /\ worker[p].exec = m.exec /\ m.lane \in {"create", "close"}
            /\ m.exec \in Execs
        BY <1>0, <4>1 DEF Asked
      <4>3. worker[p] \in [step : {"create", "close"}, exec : Execs, count : Nat,
                           answer : Receipts \cup {NoReceipt} \cup Outcomes]
        BY <1>0, <4>2, WorkerTypes
      <4>4. worker'[p].step = m.lane /\ worker'[p].exec = m.exec /\ worker'[p].answer = a
        BY <4>1, <4>2, <4>3
      <4>5. m.lane = "create" => create'[m.exec].count > 0
        BY <1>1, <4>2 DEF DeliveryInv, CallsClaimed
      <4> QED
        BY <1>8, <4>2, <4>4, <4>5 DEF WorkerTrue
    <3> QED
      BY <3>1, <3>2
  <2> QED
    BY <1>0, <1>8, <2>1, <2>2, <2>3 DEF RestTrue
<1>9. ASSUME NEW m \in wire, OwnerAccepts(m) PROVE RestTrue
  <2> DEFINE e == m.exec
  <2>1. /\ e \in Execs /\ m.lane = "create" /\ create[e].count > 0
    BY <1>0, <1>9 DEF OwnerAccepts, DeliveryInv, CalledAfter
  <2>2. owner' = [owner EXCEPT ![e].known = TRUE, ![e].ran = owner[e].ran \/ ~owner[e].closed]
    BY <1>9 DEF OwnerAccepts
  <2>3. owner' \in [Execs -> [known : BOOLEAN, closed : BOOLEAN, ran : BOOLEAN]]
    <3>1. owner[e] \in [known : BOOLEAN, closed : BOOLEAN, ran : BOOLEAN]
      BY <1>0, <2>1
    <3>2. [owner[e] EXCEPT !.known = TRUE, !.ran = owner[e].ran \/ ~owner[e].closed]
          \in [known : BOOLEAN, closed : BOOLEAN, ran : BOOLEAN]
      BY <3>1
    <3>3. owner' = [owner EXCEPT ![e] = [owner[e] EXCEPT !.known = TRUE,
                                                        !.ran = owner[e].ran \/ ~owner[e].closed]]
      BY <1>0, <2>1, <2>2
    <3> QED
      BY <1>0, <2>1, <3>2, <3>3
  <2>4. \A x \in Execs : OwnerKeeps(x)
    BY <1>0, <2>1, <2>2 DEF OwnerKeeps
  <2>5. owner'[e].known
    BY <1>0, <2>1, <2>2
  <2>6. Receipt(owner[e].closed, owner[e].known) \in Receipts
    BY <1>0, <2>1, ReceiptType
  <2>7. /\ Answer(m, Receipt(owner[e].closed, owner[e].known)) /\ wire' = wire \ {m}
    BY <1>9 DEF OwnerAccepts
  <2> QED
    BY <1>8, <2>1, <2>3, <2>4, <2>5, <2>6, <2>7
<1>10. ASSUME NEW m \in wire, OwnerCloses(m) PROVE RestTrue
  <2> DEFINE e == m.exec
  <2>1. e \in Execs /\ m.lane = "close"
    BY <1>0, <1>10 DEF OwnerCloses
  <2>2. owner' = [owner EXCEPT ![e].closed = TRUE]
    BY <1>10 DEF OwnerCloses
  <2>3. owner' \in [Execs -> [known : BOOLEAN, closed : BOOLEAN, ran : BOOLEAN]]
    BY <1>0, <2>1, <2>2
  <2>4. \A x \in Execs : OwnerKeeps(x)
    BY <1>0, <2>1, <2>2 DEF OwnerKeeps
  <2>5. owner'[e].closed
    BY <1>0, <2>1, <2>2
  <2>6. Receipt(TRUE, owner[e].closed) \in Receipts
    BY <1>0, <2>1, ReceiptType
  <2>7. /\ Answer(m, Receipt(TRUE, owner[e].closed)) /\ wire' = wire \ {m}
    BY <1>10 DEF OwnerCloses
  <2> QED
    BY <1>8, <2>1, <2>3, <2>4, <2>5, <2>6, <2>7
<1>11. ASSUME NEW m \in wire, OwnerRefuses(m) PROVE RestTrue
  <2>1. "block" \in Outcomes /\ "block" \notin Receipts
    BY DEF Outcomes, Receipts
  <2> QED
    BY <1>0, <1>4, <1>8, <1>11, <2>1 DEF OwnerRefuses
<1>12. ASSUME NEW m \in wire, CallLost(m) PROVE RestTrue
  <2>1. WiresTrue
    BY <1>0, <1>1, <1>12 DEF CallLost, WiresTrue, DeliveryInv, CalledAfter
  <2> QED
    BY <1>0, <1>2, <1>4, <1>12, <2>1 DEF CallLost, RestTrue
<1>13. ASSUME NEW p \in Procs, CallTimesOut(p) PROVE RestTrue
  <2>1. /\ worker[p] \in [step : {"create", "close"}, exec : Execs, count : Nat,
                          answer : Receipts \cup {NoReceipt} \cup Outcomes]
        /\ worker' = [worker EXCEPT ![p] = [worker[p] EXCEPT !.answer = "retry"]]
        /\ UNCHANGED <<wire, owner>>
    BY <1>0, <1>13, WorkerTypes DEF CallTimesOut
  <2>2. [worker[p] EXCEPT !.answer = "retry"] \in Works
    BY <2>1 DEF Works, Outcomes
  <2>3. worker' \in [Procs -> Works]
    BY <1>0, <2>1, <2>2
  <2>4. worker'[p].step = worker[p].step /\ worker'[p].exec = worker[p].exec /\ worker'[p].answer = "retry"
    BY <1>0, <2>1
  <2>5. WorkerTrue(p)
    BY <1>1, <2>1, <2>4 DEF WorkerTrue, DeliveryInv, CallsClaimed, Receipts
  <2>6. \A q \in Procs : q # p => worker'[q] = worker[q]
    BY <1>0, <2>1
  <2> QED
    BY <1>0, <1>2, <1>3, <1>4, <2>1, <2>3, <2>5, <2>6 DEF RestTrue
<1>14. ASSUME NEW p \in Procs, NEW e \in Execs, ClaimClose(p, e) PROVE RestTrue
  <2>1. close[e].count + 1 \in Nat
    BY <1>0 DEF DeliveryTypeOK, Deliveries
  <2> QED
    BY <1>5, <1>7, <1>14, <2>1 DEF ClaimClose
<1>15. ASSUME NEW p \in Procs, NEW e \in Execs, ClaimCreate(p, e) PROVE RestTrue
  <2>1. create[e].count \in Nat /\ create[e].count + 1 \in Nat /\ create[e].count + 1 > 0
    BY <1>0 DEF DeliveryTypeOK, Deliveries
  <2>2. CASE create[e].count < MaxCount
    <3>1. create' = [create EXCEPT ![e] = Claimed(create[e], p)] /\ Call(p, "create", e, create[e].count + 1)
      BY <1>15, <2>2 DEF ClaimCreate
    <3>2. create'[e].count = create[e].count + 1
      BY <1>0, <3>1 DEF DeliveryTypeOK, Deliveries, Claimed
    <3> QED
      BY <1>7, <1>15, <2>1, <3>1, <3>2 DEF ClaimCreate
  <2>3. CASE ~(create[e].count < MaxCount)
    BY <1>5, <1>15, <2>3 DEF ClaimCreate
  <2> QED
    BY <2>2, <2>3
<1>16. ASSUME NEW p \in Procs,
              \/ BeginCreate(p) \/ NothingClaimed(p) \/ WriteBackCreate(p) \/ WriteBackClose(p)
              \/ WriteBackFails(p) \/ CancelDrained(p) \/ Abort(p) \/ Crash(p)
       PROVE  RestTrue
  BY <1>6, <1>16 DEF BeginCreate, NothingClaimed, WriteBackCreate, WriteBackClose, WriteBackFails,
                     CancelDrained, Abort, Crash
<1>17. ASSUME NEW p \in Procs, Start(p) \/ Pause(p) \/ GateDrained(p) PROVE RestTrue
  BY <1>5, <1>17 DEF Start, Pause, GateDrained
<1>18. ASSUME NEW e \in Execs, AcceptStop(e) \/ LeaseOver(e) \/ BackoffEnds(e) PROVE RestTrue
  BY <1>5, <1>18 DEF AcceptStop, LeaseOver, LeaseEnds, BackoffEnds
<1>19. ASSUME NEW p \in Procs, NEW e \in Execs,
              BeginRequest(p, e) \/ AcceptFrozen(p, e) \/ RequestWithoutRow(p, e)
       PROVE  RestTrue
  BY <1>5, <1>19 DEF BeginRequest, AcceptFrozen, RequestWithoutRow
<1> QED
  BY <1>9, <1>10, <1>11, <1>12, <1>13, <1>14, <1>15, <1>16, <1>17, <1>18, <1>19
     DEF DeliveryNext, Deliver, OwnerStep

-----------------------------------------------------------------------------
(* What a step does to the life of a process.                              *)
LifeKeeps(p) ==
  /\ Active(p)' => Active(p) \/ proc[p] = "running"
  /\ proc'[p] = "leases" => proc[p] = "leases" \/ (proc[p] = "draining" /\ ~Active(p)')
  /\ proc'[p] = "drained" => proc[p] = "drained" \/ (proc[p] = "leases" /\ ~HasDeliveryLease(p)')

LifeTypes ==
  /\ proc' \in [Procs -> {"new", "running", "draining", "leases", "drained", "aborted", "crashed"}]
  /\ requests' \subseteq Procs \X Execs
  /\ faults' \in 0 .. MaxFaults

LEMMA LifeStep ==
  ASSUME DeliveryInv, DeliveryNext
  PROVE  LifeTypes /\ \A p \in Procs : LifeKeeps(p)
<1> DEFINE Goal == LifeTypes /\ \A p \in Procs : LifeKeeps(p)
<1>0. /\ DeliveryTypeOK /\ worker \in [Procs -> Works] /\ requests \subseteq Procs \X Execs
      /\ proc \in [Procs -> {"new", "running", "draining", "leases", "drained", "aborted", "crashed"}]
      /\ faults \in 0 .. MaxFaults /\ MaxFaults \in Nat
  BY ModelDevAssumption DEF DeliveryInv, DeliveryTypeOK
<1>1. Fault => faults' \in 0 .. MaxFaults
  BY <1>0 DEF Fault
<1>2. ASSUME NEW p \in Procs, proc'[p] = proc[p],
             \A e \in Execs : <<p, e>> \in requests' => <<p, e>> \in requests \/ proc[p] = "running",
             worker'[p].step \in {"begun", "create"} =>
               worker[p].step \in {"begun", "create"} \/ proc[p] = "running"
      PROVE  LifeKeeps(p)
  BY <1>2 DEF LifeKeeps, Active
<1>3. ASSUME UNCHANGED <<proc, requests>>, UNCHANGED faults \/ Fault,
             \A p \in Procs : worker'[p].step \in {"begun", "create"} =>
               worker[p].step \in {"begun", "create"} \/ proc[p] = "running"
      PROVE  Goal
  BY <1>0, <1>1, <1>2, <1>3 DEF LifeTypes
<1>4. ASSUME NEW p \in Procs, NEW s \in {"loop", "begun", "done"}, GoTo(p, s),
             s = "begun" => proc[p] = "running"
      PROVE  \A q \in Procs : worker'[q].step \in {"begun", "create"} =>
               worker[q].step \in {"begun", "create"} \/ proc[q] = "running"
  BY <1>0, <1>4 DEF GoTo, NoWork
<1>5. ASSUME NEW m \in wire, NEW a \in Receipts \cup Outcomes, Answer(m, a)
      PROVE  \A q \in Procs : worker'[q].step = worker[q].step
  <2>1. m.to \in Procs
    BY <1>0 DEF DeliveryTypeOK
  <2>2. Asked(m) => worker[m.to] \in [step : {"create", "close"}, exec : Execs, count : Nat,
                                      answer : Receipts \cup {NoReceipt} \cup Outcomes]
    BY <1>0, <2>1, WorkerTypes DEF Asked, DeliveryTypeOK
  <2> QED
    BY <1>0, <1>5, <2>1, <2>2 DEF Answer
<1>6. ASSUME NEW p \in Procs, NEW e \in Execs,
             BeginRequest(p, e) \/ AcceptFrozen(p, e) \/ RequestWithoutRow(p, e)
      PROVE  Goal
  BY <1>0, <1>2, <1>6 DEF BeginRequest, AcceptFrozen, RequestWithoutRow, EndRequest, Paused, LifeTypes
<1>7. ASSUME NEW e \in Execs, AcceptStop(e) \/ LeaseOver(e) \/ BackoffEnds(e) PROVE Goal
  BY <1>3, <1>7 DEF AcceptStop, LeaseOver, LeaseEnds, BackoffEnds
<1>8. ASSUME NEW p \in Procs, NEW e \in Execs, ClaimClose(p, e) PROVE Goal
  BY <1>0, <1>3, <1>8 DEF ClaimClose, Call
<1>9. ASSUME NEW p \in Procs, NEW e \in Execs, ClaimCreate(p, e) PROVE Goal
  BY <1>0, <1>3, <1>9 DEF ClaimCreate, Call, Working
<1>10. ASSUME NEW p \in Procs,
              \/ BeginCreate(p) \/ NothingClaimed(p) \/ WriteBackCreate(p) \/ WriteBackClose(p)
              \/ WriteBackFails(p)
       PROVE  Goal
  BY <1>3, <1>4, <1>10 DEF BeginCreate, NothingClaimed, WriteBackCreate, WriteBackClose, WriteBackFails,
                           Paused
<1>11. ASSUME NEW p \in Procs, CallTimesOut(p) PROVE Goal
  <2>1. worker[p] \in [step : {"create", "close"}, exec : Execs, count : Nat,
                       answer : Receipts \cup {NoReceipt} \cup Outcomes]
    BY <1>0, <1>11, WorkerTypes DEF CallTimesOut
  <2>2. \A q \in Procs : worker'[q].step = worker[q].step
    BY <1>0, <1>11, <2>1 DEF CallTimesOut
  <2> QED
    BY <1>3, <1>11, <2>2 DEF CallTimesOut
<1>12. ASSUME NEW m \in wire, OwnerStep(m) \/ OwnerRefuses(m) PROVE Goal
  <2>1. \E a \in Receipts \cup Outcomes : Answer(m, a)
    <3>1. m.exec \in Execs
      BY <1>0 DEF DeliveryTypeOK
    <3>2. \A c, r \in BOOLEAN : Receipt(c, r) \in Receipts
      BY ReceiptType
    <3>3. owner[m.exec].closed \in BOOLEAN /\ owner[m.exec].known \in BOOLEAN
      BY <1>0, <3>1 DEF DeliveryTypeOK
    <3> QED
      BY <1>12, <3>2, <3>3 DEF OwnerStep, OwnerAccepts, OwnerCloses, OwnerRefuses, Outcomes
  <2>2. \A q \in Procs : worker'[q].step = worker[q].step
    BY <1>5, <2>1
  <2> QED
    BY <1>3, <1>12, <2>2 DEF OwnerStep, OwnerAccepts, OwnerCloses, OwnerRefuses
<1>13. ASSUME NEW m \in wire, CallLost(m) PROVE Goal
  BY <1>3, <1>13 DEF CallLost
<1>14. ASSUME NEW p \in Procs, Start(p) \/ Pause(p) \/ GateDrained(p) PROVE Goal
  <2>1. /\ UNCHANGED <<worker, requests, faults>>
        /\ \A q \in Procs : Active(q)' = Active(q)
    BY <1>14 DEF Start, Pause, GateDrained, Active
  <2>2. \A q \in Procs : proc'[q] \in {"leases", "drained"} =>
            proc'[q] = proc[q] \/ (q = p /\ proc'[q] = "leases" /\ proc[q] = "draining" /\ ~Active(q))
    BY <1>0, <1>14 DEF Start, Pause, GateDrained
  <2>3. LifeTypes
    BY <1>0, <1>14, <2>1 DEF Start, Pause, GateDrained, LifeTypes
  <2> QED
    BY <2>1, <2>2, <2>3 DEF LifeKeeps
<1>15. ASSUME NEW p \in Procs, CancelDrained(p) \/ Abort(p) \/ Crash(p) PROVE Goal
  <2>1. \A q \in Procs : worker'[q].step \in {"begun", "create"} => worker[q].step \in {"begun", "create"}
    BY <1>0, <1>15 DEF CancelDrained, Abort, Crash, GoTo, NoWork
  <2>2. requests' \subseteq requests
    BY <1>15 DEF CancelDrained, Abort, Crash
  <2>3. \A q \in Procs : Active(q)' => Active(q)
    BY <2>1, <2>2 DEF Active
  <2>4. \A q \in Procs : proc'[q] \in {"leases", "drained"} =>
            proc'[q] = proc[q] \/ (proc'[q] = "drained" /\ proc[q] = "leases" /\ ~HasDeliveryLease(q)')
    BY <1>0, <1>15 DEF CancelDrained, Abort, Crash, HasDeliveryLease, rows
  <2>5. LifeTypes
    BY <1>0, <1>1, <1>15, <2>2 DEF CancelDrained, Abort, Crash, LifeTypes
  <2> QED
    BY <2>3, <2>4, <2>5 DEF LifeKeeps
<1> QED
  BY <1>6, <1>7, <1>8, <1>9, <1>10, <1>11, <1>12, <1>13, <1>14, <1>15 DEF DeliveryNext, Deliver

LEMMA LeaseStep ==
  ASSUME DeliveryInv, DeliveryNext, NEW p \in Procs, HasDeliveryLease(p)'
  PROVE  HasDeliveryLease(p) \/ worker[p].step = "begun"
<1>1. PICK e \in Execs : create'[e].state = "DISPATCHING" /\ create'[e].holder = p /\ create'[e].live
  BY DEF HasDeliveryLease
<1>2. CreateMove(e) /\ Good(create[e])
  BY RowsMove DEF DeliveryInv, DeliveryTypeOK, RowsShaped, Good
<1>3. CASE CreateKept(e)
  BY <1>1, <1>3 DEF CreateKept, HasDeliveryLease
<1>4. CASE CreateMade(e)
  BY <1>1, <1>4, FreshGood DEF CreateMade
<1>5. CASE CreateClaimed(e)
  <2>1. PICK q \in Procs : worker[q].step = "begun" /\ create'[e] = Claimed(create[e], q)
    BY <1>5 DEF CreateClaimed
  <2>2. q = p
    BY <1>1, <1>2, <1>5, <2>1, ClaimedGood DEF CreateClaimed, CreateDue
  <2> QED
    BY <2>1, <2>2
<1>6. CASE CreateParked(e)
  BY <1>1, <1>2, <1>6 DEF CreateParked, Parked, Good, Deliveries
<1>7. CASE CreateWritten(e)
  <2>1. PICK q \in Procs : /\ worker[q].answer \in Receipts \cup Outcomes /\ Writes(e, q)
                           /\ create'[e] = WrittenBack(create[e], worker[q].answer)
    BY <1>7 DEF CreateWritten
  <2>2. create'[e].state \in {"ACKED", "UNKNOWN"}
    BY <1>2, <2>1, WrittenGood DEF Writes, Fence
  <2> QED
    BY <1>1, <2>2
<1>8. CASE CreateTimed(e)
  <2>1. create'[e] = [create[e] EXCEPT !.waiting = FALSE] \/ create'[e] = [create[e] EXCEPT !.live = FALSE]
    BY <1>8 DEF CreateTimed
  <2>2. create[e].state = "DISPATCHING" /\ create[e].holder = p /\ create[e].live
    BY <1>1, <1>2, <2>1 DEF Good, Deliveries
  <2> QED
    BY <2>2 DEF HasDeliveryLease
<1> QED
  BY <1>2, <1>3, <1>4, <1>5, <1>6, <1>7, <1>8 DEF CreateMove

(* Only a Stop marks an execution as stopped before its first claim.       *)
LEMMA UnsentStep ==
  ASSUME DeliveryInv, DeliveryNext
  PROVE  /\ unsent' \subseteq Execs
         /\ \A e \in unsent' : e \in unsent \/ (/\ create[e].count = 0 /\ UNCHANGED <<create, owner>>
                                                /\ close'[e].state # "IDLE")
<1> DEFINE Goal == /\ unsent' \subseteq Execs
                   /\ \A e \in unsent' : e \in unsent \/ (/\ create[e].count = 0 /\ UNCHANGED <<create, owner>>
                                                          /\ close'[e].state # "IDLE")
<1>0. unsent \subseteq Execs /\ close \in [Execs -> Deliveries]
  BY DEF DeliveryInv, DeliveryTypeOK
<1>1. ASSUME UNCHANGED unsent PROVE Goal
  BY <1>0, <1>1
<1>2. ASSUME NEW e \in Execs, AcceptStop(e) PROVE Goal
  BY <1>0, <1>2, FreshGood DEF AcceptStop
<1>3. ASSUME NEW e \in Execs, LeaseOver(e) \/ BackoffEnds(e) PROVE Goal
  BY <1>1, <1>3 DEF LeaseOver, LeaseEnds, BackoffEnds
<1>4. ASSUME NEW p \in Procs, NEW e \in Execs,
             BeginRequest(p, e) \/ AcceptFrozen(p, e) \/ RequestWithoutRow(p, e)
             \/ ClaimClose(p, e) \/ ClaimCreate(p, e)
      PROVE  Goal
  BY <1>1, <1>4 DEF BeginRequest, AcceptFrozen, RequestWithoutRow, ClaimClose, ClaimCreate, rows
<1>5. ASSUME NEW p \in Procs,
             \/ BeginCreate(p) \/ NothingClaimed(p) \/ CallTimesOut(p) \/ WriteBackCreate(p)
             \/ WriteBackClose(p) \/ WriteBackFails(p)
             \/ Start(p) \/ Pause(p) \/ GateDrained(p) \/ CancelDrained(p) \/ Abort(p) \/ Crash(p)
      PROVE  Goal
  BY <1>1, <1>5 DEF BeginCreate, NothingClaimed, CallTimesOut, WriteBackCreate, WriteBackClose,
                    WriteBackFails, Start, Pause, GateDrained, CancelDrained, Abort, Crash, rows
<1>6. ASSUME NEW m \in wire, OwnerStep(m) \/ OwnerRefuses(m) \/ CallLost(m) PROVE Goal
  BY <1>1, <1>6 DEF OwnerStep, OwnerAccepts, OwnerCloses, OwnerRefuses, CallLost, rows
<1> QED
  BY <1>2, <1>3, <1>4, <1>5, <1>6 DEF DeliveryNext, Deliver

-----------------------------------------------------------------------------
LEMMA DeliveryInitInv == DeliveryInit => DeliveryInv
<1> SUFFICES ASSUME DeliveryInit PROVE DeliveryInv
  OBVIOUS
<1>1. /\ \A e \in Execs : create[e] = NoDelivery /\ close[e] = NoDelivery /\ quota[e] = "none"
      /\ \A e \in Execs : ~owner[e].known /\ ~owner[e].closed /\ ~owner[e].ran
      /\ \A p \in Procs : worker[p] = NoWork /\ proc[p] = "new"
      /\ unsent = {} /\ requests = {} /\ wire = {}
  BY DEF DeliveryInit
<1>2. NoDelivery.state = "IDLE" /\ NoDelivery.count = 0 /\ NoWork.step = "loop"
  BY DEF NoDelivery, NoWork
<1>3. NoWork \in Works
  BY DEF NoWork, Works
<1>4. DeliveryTypeOK
  BY <1>3, FreshGood, ModelDevAssumption DEF DeliveryInit, DeliveryTypeOK, Good
<1>5. RowsShaped /\ StopHasRow /\ CalledAfter /\ CallsClaimed
  BY <1>1, <1>2, FreshGood DEF RowsShaped, StopHasRow, CalledAfter, CallsClaimed, Good
<1>6. RanWasCalled /\ UnsentStopped /\ AnswersTrue /\ StoppedUnsentNeverRuns /\ AckedIsRecorded
  BY <1>1, <1>2 DEF RanWasCalled, UnsentStopped, AnswersTrue, StoppedUnsentNeverRuns, AckedIsRecorded
<1>7. QuotaFollowsDelivery /\ GatesClosed /\ DrainedIsQuiet
  BY <1>1, <1>2, ModelDevAssumption DEF QuotaFollowsDelivery, GatesClosed, DrainedIsQuiet
<1> QED
  BY <1>4, <1>5, <1>6, <1>7 DEF DeliveryInv

LEMMA DeliveryNextInv ==
  ASSUME DeliveryInv, DeliveryNext
  PROVE  DeliveryInv'
<1>0. /\ RestTrue /\ LifeTypes /\ \A p \in Procs : LifeKeeps(p)
      /\ create' \in [Execs -> Deliveries] /\ close' \in [Execs -> Deliveries]
      /\ quota' \in [Execs -> Receipts \cup {"none", "QUEUED"}]
      /\ RowsShaped' /\ StopHasRow' /\ QuotaFollowsDelivery'
      /\ \A e \in Execs : CreateKeeps(e) /\ CloseKeeps(e)
      /\ \A e \in Execs : OwnerKeeps(e)
      /\ unsent' \subseteq Execs
  BY RestStep, LifeStep, RowsStep, UnsentStep DEF RestTrue
<1>1. DeliveryTypeOK'
  BY <1>0 DEF DeliveryTypeOK, RestTrue, LifeTypes
<1>2. CalledAfter' /\ CallsClaimed' /\ AnswersTrue'
  BY <1>0 DEF RestTrue, WiresTrue, WorkerTrue, CalledAfter, CallsClaimed, AnswersTrue
<1>3. \A e \in Execs : create[e].count \in Nat /\ create'[e].count \in Nat
  BY <1>0 DEF DeliveryInv, DeliveryTypeOK, Deliveries
<1>4. AckedIsRecorded'
  <2>1. ASSUME NEW e \in Execs, create'[e].state = "ACKED" PROVE owner'[e].known
    BY <1>0, <2>1 DEF CreateKeeps, OwnerKeeps, AnsweredBy, DeliveryInv, AckedIsRecorded, AnswersTrue
  <2>2. ASSUME NEW e \in Execs, close'[e].state = "ACKED" PROVE owner'[e].closed
    BY <1>0, <2>2 DEF CloseKeeps, OwnerKeeps, AnsweredBy, DeliveryInv, AckedIsRecorded, AnswersTrue
  <2> QED
    BY <2>1, <2>2 DEF AckedIsRecorded
<1>5. RanWasCalled'
  <2> SUFFICES ASSUME NEW e \in Execs, owner'[e].ran \/ owner'[e].known PROVE create'[e].count > 0
    BY DEF RanWasCalled
  <2>1. create[e].count > 0
    BY <1>0 DEF OwnerKeeps, DeliveryInv, RanWasCalled
  <2> QED
    BY <1>0, <1>3, <2>1 DEF CreateKeeps
<1>6. UnsentStopped'
  <2> SUFFICES ASSUME NEW e \in unsent'
               PROVE  close'[e].state # "IDLE" /\ (create'[e].count > 0 => owner'[e].closed)
    BY DEF UnsentStopped
  <2>1. e \in Execs
    BY <1>0
  <2>2. CASE e \in unsent
    <3>1. close'[e].state # "IDLE" /\ close[e].state # "IDLE"
      BY <1>0, <2>1, <2>2 DEF CloseKeeps, DeliveryInv, UnsentStopped
    <3>2. CASE create[e].count > 0
      BY <1>0, <2>1, <2>2, <3>1, <3>2 DEF OwnerKeeps, DeliveryInv, UnsentStopped
    <3>3. CASE create[e].count < create'[e].count
      <4>1. close[e].state = "ACKED"
        BY <1>0, <2>1, <3>1, <3>3 DEF CreateKeeps, CreateDue
      <4> QED
        BY <1>0, <2>1, <3>1, <4>1 DEF OwnerKeeps, DeliveryInv, AckedIsRecorded
    <3> QED
      BY <1>0, <1>3, <2>1, <3>1, <3>2, <3>3
  <2>3. CASE e \notin unsent
    BY <1>3, <2>1, <2>3, UnsentStep
  <2> QED
    BY <2>2, <2>3
<1>7. StoppedUnsentNeverRuns'
  <2> SUFFICES ASSUME NEW e \in unsent' PROVE ~owner'[e].ran
    BY DEF StoppedUnsentNeverRuns
  <2>1. e \in Execs
    BY <1>0
  <2>2. CASE e \in unsent
    BY <1>0, <2>1, <2>2 DEF OwnerKeeps, DeliveryInv, UnsentStopped, StoppedUnsentNeverRuns
  <2>3. CASE e \notin unsent
    BY <1>3, <2>1, <2>3, UnsentStep DEF DeliveryInv, RanWasCalled
  <2> QED
    BY <2>2, <2>3
<1>8. GatesClosed'
  BY <1>0 DEF LifeKeeps, DeliveryInv, GatesClosed
<1>9. DrainedIsQuiet'
  <2> SUFFICES ASSUME NEW p \in Procs, proc'[p] = "drained"
               PROVE  ~Active(p)' /\ ~HasDeliveryLease(p)'
    BY DEF DrainedIsQuiet
  <2>1. CASE proc[p] = "drained"
    <3>1. ~Active(p) /\ ~HasDeliveryLease(p)
      BY <2>1 DEF DeliveryInv, DrainedIsQuiet
    <3>2. ~Active(p)'
      BY <1>0, <2>1, <3>1 DEF LifeKeeps
    <3>3. worker[p].step # "begun"
      BY <3>1 DEF Active
    <3> QED
      BY <3>1, <3>2, <3>3, LeaseStep
  <2>2. CASE proc[p] = "leases" /\ ~HasDeliveryLease(p)'
    BY <1>0, <2>2 DEF LifeKeeps, DeliveryInv, GatesClosed
  <2> QED
    BY <1>0, <2>1, <2>2 DEF LifeKeeps
<1> QED
  BY <1>0, <1>1, <1>2, <1>4, <1>5, <1>6, <1>7, <1>8, <1>9 DEF DeliveryInv

(* Nothing in the invariant depends on a step being taken.                 *)
LEMMA DeliveryStutterInv ==
  ASSUME DeliveryInv, UNCHANGED mvars
  PROVE  DeliveryInv'
<1>1. /\ UNCHANGED <<create, close, quota, unsent>>
      /\ UNCHANGED <<proc, requests, worker, wire, owner, faults>>
  BY DEF mvars, rows
<1> QED
  BY <1>1 DEF DeliveryInv, DeliveryTypeOK, RowsShaped, StopHasRow, CalledAfter, CallsClaimed,
              RanWasCalled, UnsentStopped, AnswersTrue, StoppedUnsentNeverRuns, AckedIsRecorded,
              QuotaFollowsDelivery, GatesClosed, DrainedIsQuiet, Active, HasDeliveryLease

(* The inductive invariant of the delivery: shapes, the counts behind      *)
(* every call, and the safety properties below.                            *)
THEOREM DeliveryInvariance == DeliverySpec => []DeliveryInv
<1>1. DeliveryInv /\ [DeliveryNext]_mvars => DeliveryInv'
  BY DeliveryNextInv, DeliveryStutterInv
<1> QED
  BY <1>1, DeliveryInitInv, PTL DEF DeliverySpec

(* An execution stopped before its creation was claimed never runs.        *)
THEOREM NeverRuns == DeliverySpec => []StoppedUnsentNeverRuns
<1>1. DeliveryInv => StoppedUnsentNeverRuns
  BY DEF DeliveryInv
<1> QED
  BY <1>1, DeliveryInvariance, PTL

(* What is acknowledged is recorded by the owner.                          *)
THEOREM AcksAreRecorded == DeliverySpec => []AckedIsRecorded
<1>1. DeliveryInv => AckedIsRecorded
  BY DEF DeliveryInv
<1> QED
  BY <1>1, DeliveryInvariance, PTL

(* The ledger operation and the create delivery carry the same receipt.    *)
THEOREM QuotaAgrees == DeliverySpec => []QuotaFollowsDelivery
<1>1. DeliveryInv => QuotaFollowsDelivery
  BY DEF DeliveryInv
<1> QED
  BY <1>1, DeliveryInvariance, PTL

(* A process that stopped with success left no creation behind.            *)
THEOREM DrainsQuietly == DeliverySpec => []DrainedIsQuiet
<1>1. DeliveryInv => DrainedIsQuiet
  BY DEF DeliveryInv
<1> QED
  BY <1>1, DeliveryInvariance, PTL

-----------------------------------------------------------------------------
AcksKept ==
  \A e \in Execs :
    /\ create[e].state = "ACKED" => create'[e] = create[e] /\ quota'[e] = quota[e]
    /\ close[e].state = "ACKED" => close'[e] = close[e]

LEMMA AcksKeptStep ==
  ASSUME DeliveryInv, DeliveryNext
  PROVE  AcksKept
<1> SUFFICES ASSUME NEW e \in Execs
             PROVE  /\ create[e].state = "ACKED" => create'[e] = create[e] /\ quota'[e] = quota[e]
                    /\ close[e].state = "ACKED" => close'[e] = close[e]
  BY DEF AcksKept
<1>1. CreateMove(e) /\ CloseMove(e) /\ DeliveryShape(create[e]) /\ DeliveryShape(close[e])
  BY RowsMove DEF DeliveryInv, RowsShaped
<1>2. create[e].state = "ACKED" => CreateKept(e)
  BY <1>1 DEF CreateMove, CreateMade, CreateClaimed, CreateParked, CreateWritten, CreateTimed,
              CreateDue, Due, Writes, Fence, DeliveryShape
<1>3. close[e].state = "ACKED" => close'[e] = close[e]
  BY <1>1 DEF CloseMove, CloseClaimed, CloseWritten, Due, Fence, DeliveryShape
<1> QED
  BY <1>2, <1>3 DEF CreateKept

(* Acknowledgements are final.                                             *)
THEOREM AcksAreFinal == DeliverySpec => AcksStand
<1>1. DeliveryInv /\ [DeliveryNext]_mvars => [AcksKept]_mvars
  BY AcksKeptStep
<1>2. [AcksKept]_mvars =>
        [\A e \in Execs :
           /\ create[e].state = "ACKED" => create'[e] = create[e] /\ quota'[e] = quota[e]
           /\ close[e].state = "ACKED" => close'[e] = close[e]]_mvars
  BY DEF AcksKept
<1> QED
  BY <1>1, <1>2, DeliveryInvariance, PTL DEF DeliverySpec, AcksStand

LeasesKept ==
  \A e \in Execs :
    /\ create[e].live /\ create'[e] # create[e] => ChangedByHolder(create[e], create'[e], e, "create")
    /\ close[e].live /\ close'[e] # close[e] => ChangedByHolder(close[e], close'[e], e, "close")

LEMMA LeasesKeptStep ==
  ASSUME DeliveryInv, DeliveryNext
  PROVE  LeasesKept
<1> SUFFICES ASSUME NEW e \in Execs
             PROVE  /\ create[e].live /\ create'[e] # create[e] =>
                         ChangedByHolder(create[e], create'[e], e, "create")
                    /\ close[e].live /\ close'[e] # close[e] =>
                         ChangedByHolder(close[e], close'[e], e, "close")
  BY DEF LeasesKept
<1>1. CreateMove(e) /\ CloseMove(e) /\ DeliveryShape(create[e]) /\ DeliveryShape(close[e])
  BY RowsMove DEF DeliveryInv, RowsShaped
<1>2. ASSUME create[e].live, create'[e] # create[e]
      PROVE  ChangedByHolder(create[e], create'[e], e, "create")
  <2>1. CreateWritten(e) \/ CreateTimed(e)
    BY <1>1, <1>2 DEF CreateMove, CreateKept, CreateMade, CreateClaimed, CreateParked, CreateDue, Due,
                      DeliveryShape
  <2> QED
    BY <1>1, <1>2, <2>1 DEF CreateWritten, CreateTimed, Writes, Fence, ChangedByHolder, DeliveryShape
<1>3. ASSUME close[e].live, close'[e] # close[e]
      PROVE  ChangedByHolder(close[e], close'[e], e, "close")
  <2>1. CloseWritten(e) \/ close'[e] = [close[e] EXCEPT !.live = FALSE]
    BY <1>1, <1>3 DEF CloseMove, CloseClaimed, Due, DeliveryShape
  <2> QED
    BY <1>1, <1>3, <2>1 DEF CloseWritten, Fence, ChangedByHolder, DeliveryShape
<1> QED
  BY <1>2, <1>3

(* A live lease protects its delivery.                                     *)
THEOREM LeasesProtect == DeliverySpec => LeaseProtects
<1>1. DeliveryInv /\ [DeliveryNext]_mvars => [LeasesKept]_mvars
  BY LeasesKeptStep
<1>2. [LeasesKept]_mvars =>
        [\A e \in Execs :
           /\ create[e].live /\ create'[e] # create[e] => ChangedByHolder(create[e], create'[e], e, "create")
           /\ close[e].live /\ close'[e] # close[e] => ChangedByHolder(close[e], close'[e], e, "close")]_mvars
  BY DEF LeasesKept
<1> QED
  BY <1>1, <1>2, DeliveryInvariance, PTL DEF DeliverySpec, LeaseProtects
=============================================================================
