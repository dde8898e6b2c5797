------------------------ MODULE GpuUsageSyncProofs ------------------------
(***************************************************************************)
(* Theorems about the GPU usage projection, for any CREATEs, workers, page *)
(* sizes and faults.                                                       *)
(***************************************************************************)
EXTENDS GpuUsageSync, TLAPS

LEMMA RevFacts ==
  /\ \A f \in Facts : Rev(f) \in 0 .. 2
  /\ \A f \in Facts : f # "absent" => Rev(f) \in 1 .. 2
  /\ \A f \in Ended : Rev(f) = 2
  /\ Rev("accepted") = 1 /\ Rev("absent") = 0
BY DEF Rev, Facts, Ended

(* A justified projection is never ahead of the fact.                      *)
LEMMA JustifiedBehind ==
  ASSUME NEW c \in Creates, fact \in [Creates -> Facts], NEW f, Justified(f, c)
  PROVE  Rev(f) <= Rev(fact[c]) /\ f \in Facts
BY RevFacts DEF Justified, Facts, Rev, Ended

(* Facts only move on, and keep every justification.                       *)
LEMMA FactsMoveOn ==
  ASSUME fact \in [Creates -> Facts], deleted \subseteq Creates, Next \/ UNCHANGED svars
  PROVE  /\ fact' \in [Creates -> Facts] /\ deleted' \subseteq Creates
         /\ \A c \in Creates : Rev(fact[c]) <= Rev(fact'[c])
         /\ \A c \in Creates : \A f : f # "absent" /\ Justified(f, c) => Justified(f, c)'
<1>1. CASE UNCHANGED svars
  BY <1>1, RevFacts DEF svars, Justified
<1>2. ASSUME NEW c \in Creates, fact[c] \in {"absent", "accepted"},
             NEW f \in Facts, fact' = [fact EXCEPT ![c] = f],
             fact[c] = "absent" => f = "accepted", fact[c] = "accepted" => f \in Ended,
             deleted' \subseteq Creates
      PROVE  /\ fact' \in [Creates -> Facts] /\ deleted' \subseteq Creates
             /\ \A x \in Creates : Rev(fact[x]) <= Rev(fact'[x])
             /\ \A x \in Creates : \A g : g # "absent" /\ Justified(g, x) => Justified(g, x)'
  BY <1>2, RevFacts DEF Justified, Ended, Facts
<1>3. ASSUME NEW c \in Creates, Accept(c) \/ CancelUnsent(c) \/ ReleaseGpu(c)
      PROVE  \E f \in Facts :
               /\ fact[c] \in {"absent", "accepted"} /\ fact' = [fact EXCEPT ![c] = f]
               /\ fact[c] = "absent" => f = "accepted"
               /\ fact[c] = "accepted" => f \in Ended
               /\ deleted' \subseteq Creates
  BY <1>3 DEF Accept, CancelUnsent, ReleaseGpu, Facts, Ended
<1>4. ASSUME NEW c \in Creates, PersistDelete(c)
      PROVE  UNCHANGED fact /\ deleted' \subseteq Creates
  BY <1>4 DEF PersistDelete
<1>5. UNCHANGED fact => /\ \A c \in Creates : Rev(fact[c]) <= Rev(fact'[c])
                        /\ \A c \in Creates : \A f : Justified(f, c) => Justified(f, c)'
  BY RevFacts DEF Justified
<1> QED
  BY <1>1, <1>2, <1>3, <1>4, <1>5 DEF Next

-----------------------------------------------------------------------------
(* A worker that works on a record holds a typed one.                      *)
LEMMA BusyTask ==
  ASSUME SyncTypeOK, NEW w \in SyncWorkers, task[w].step \in Busy \/ task[w].create \in Creates
  PROVE  task[w] \in [step : Busy, create : Creates, fact : Facts \ {"absent"}, gen : Nat]
BY SyncAssumption DEF SyncTypeOK, Tasks, Busy

(* What a step does to tasks: a task stays, is dropped, moves on without   *)
(* changing its record, or is a justified projection.                      *)
TaskKept(w)    == task'[w] = task[w]
TaskDropped(w) == task'[w] \in {[NoTask EXCEPT !.step = s] : s \in {"idle", "paging", "claiming"}}
TaskMoved(w)   ==
  /\ task[w].step \in Busy
  /\ \E s \in {"waiting", "ack", "retry", "block"} : task'[w] = [task[w] EXCEPT !.step = s]
  /\ task'[w].step = "ack" => applied[task[w].create] >= Rev(task[w].fact)
TaskMade(w) ==
  \E c \in Creates : \E f \in Facts \ {"absent"} : \E g \in Nat : \E s \in {"derived", "claimed"} :
    /\ task'[w] = [step |-> s, create |-> c, fact |-> f, gen |-> g]
    /\ Justified(f, c)
TaskStep(w) == TaskKept(w) \/ TaskDropped(w) \/ TaskMoved(w) \/ TaskMade(w)

LEMMA TaskStepType ==
  ASSUME SyncTypeOK, NEW w \in SyncWorkers, TaskStep(w)
  PROVE  task'[w] \in Tasks
<1>1. task[w] \in Tasks
  BY DEF SyncTypeOK
<1>2. CASE TaskDropped(w)
  BY <1>2 DEF TaskDropped, NoTask, Tasks
<1>3. CASE TaskMoved(w)
  <2>1. task[w] \in [step : Busy, create : Creates, fact : Facts \ {"absent"}, gen : Nat]
    BY <1>3, BusyTask DEF TaskMoved
  <2> QED
    BY <1>3, <2>1 DEF TaskMoved, Tasks, Busy
<1>4. CASE TaskMade(w)
  BY <1>4 DEF TaskMade, Tasks, Busy
<1> QED
  BY <1>1, <1>2, <1>3, <1>4 DEF TaskStep, TaskKept

LEMMA TaskCases ==
  ASSUME SyncInv, SyncNext
  PROVE  (\A w \in SyncWorkers : TaskStep(w)) /\ task' \in [SyncWorkers -> Tasks]
<1> DEFINE Goal == (\A w \in SyncWorkers : TaskStep(w)) /\ task' \in [SyncWorkers -> Tasks]
<1>0. /\ SyncTypeOK /\ task \in [SyncWorkers -> Tasks] /\ row \in [Creates -> Rows] /\ fact \in [Creates -> Facts]
      /\ ProjectionsJustified /\ PagesPresent
  BY DEF SyncInv, SyncTypeOK
<1>1. ASSUME UNCHANGED task PROVE Goal
  BY <1>0, <1>1 DEF TaskStep, TaskKept
<1>2. ASSUME NEW w \in SyncWorkers, NEW t, task' = [task EXCEPT ![w] = t],
             TaskDropped(w) \/ TaskMoved(w) \/ TaskMade(w)
      PROVE  Goal
  <2>1. \A v \in SyncWorkers : TaskStep(v)
    BY <1>0, <1>2 DEF TaskStep, TaskKept
  <2>2. t \in Tasks
    BY <1>0, <1>2, <2>1, TaskStepType
  <2> QED
    BY <1>0, <1>2, <2>1, <2>2
<1>3. ASSUME NEW w \in SyncWorkers, NEW s \in {"idle", "paging", "claiming"}, GoTo(w, s) PROVE Goal
  <2>1. task' = [task EXCEPT ![w] = [NoTask EXCEPT !.step = s]]
    BY <1>3 DEF GoTo
  <2>2. TaskDropped(w)
    BY <1>0, <2>1 DEF TaskDropped
  <2> QED
    BY <1>2, <2>1, <2>2
<1>4. ASSUME NEW w \in SyncWorkers, NEW s \in {"waiting", "ack", "retry", "block"}, MoveTo(w, s),
             task[w].step \in {"claimed", "waiting"},
             s = "ack" => applied[task[w].create] >= Rev(task[w].fact)
      PROVE  Goal
  <2>1. task' = [task EXCEPT ![w] = [task[w] EXCEPT !.step = s]]
    BY <1>4 DEF MoveTo
  <2>2. task[w] \in [step : Busy, create : Creates, fact : Facts \ {"absent"}, gen : Nat]
    BY <1>0, <1>4, BusyTask DEF Busy
  <2>3. TaskMoved(w)
    BY <1>0, <1>4, <2>1, <2>2 DEF TaskMoved, Busy
  <2> QED
    BY <1>2, <2>1, <2>3
<1>5. ASSUME NEW w \in SyncWorkers, NEW c \in Creates, Load(w, c) PROVE Goal
  <2>1. task' = [task EXCEPT ![w] = [step |-> "derived", create |-> c, fact |-> fact[c], gen |-> 0]]
    BY <1>5 DEF Load
  <2>2. fact[c] \in Facts \ {"absent"} /\ Justified(fact[c], c)
    BY <1>0, <1>5 DEF Load, IsFirst, PagesPresent, Justified
  <2>3. TaskMade(w)
    BY <1>0, <2>1, <2>2 DEF TaskMade
  <2> QED
    BY <1>2, <2>1, <2>3
<1>6. ASSUME NEW w \in SyncWorkers, NEW c \in Creates, Claim(w, c) PROVE Goal
  <2>1. task' = [task EXCEPT ![w] = [step |-> "claimed", create |-> c, fact |-> row[c].fact,
                                     gen |-> row[c].gen + 1]]
    BY <1>6 DEF Claim
  <2>2. row[c] \in Rows /\ row[c].fact # "absent"
    BY <1>0, <1>6 DEF Claim, SyncDue
  <2>3. Justified(row[c].fact, c) /\ row[c].fact \in Facts \ {"absent"} /\ row[c].gen + 1 \in Nat
    BY <1>0, <2>2 DEF Rows, ProjectionsJustified
  <2>4. TaskMade(w)
    BY <1>0, <2>1, <2>3 DEF TaskMade
  <2> QED
    BY <1>2, <2>1, <2>4
<1>7. ASSUME NEW w \in SyncWorkers, WorkerStep(w) PROVE Goal
  <2>1. CASE ScanPage(w) \/ EndPage(w) \/ NothingDue(w) \/ WriteBack(w)
    BY <1>3, <2>1 DEF ScanPage, EndPage, NothingDue, WriteBack
  <2>2. CASE Upsert(w)
    BY <1>3, <2>2 DEF Upsert, PassOn
  <2>3. CASE Send(w) \/ AnswerApplied(w)
    BY <1>4, <2>3 DEF Send, AnswerApplied, At
  <2> QED
    BY <1>5, <1>6, <1>7, <2>1, <2>2, <2>3 DEF WorkerStep
<1>8. ASSUME NEW w \in SyncWorkers, WorkerFault(w) PROVE Goal
  <2>1. ASSUME NEW c \in Creates, SkipCandidate(w, c) PROVE Goal
    BY <1>3, <2>1 DEF SkipCandidate, PassOn
  <2>2. CASE AnswerTransportError(w) \/ PermanentError(w)
    BY <1>4, <2>2 DEF AnswerTransportError, PermanentError, At
  <2>3. CASE Crash(w)
    <3>1. task' = [task EXCEPT ![w] = NoTask]
      BY <2>3 DEF Crash
    <3>2. NoTask = [NoTask EXCEPT !.step = "idle"]
      BY DEF NoTask
    <3>3. TaskDropped(w)
      BY <1>0, <3>1, <3>2 DEF TaskDropped
    <3> QED
      BY <1>2, <3>1, <3>3
  <2> QED
    BY <1>8, <2>1, <2>2, <2>3 DEF WorkerFault
<1>9. ASSUME NEW c \in Creates, LeaseEnds(c) \/ BackoffEnds(c) \/ RowLost(c) PROVE UNCHANGED task
  BY <1>9 DEF LeaseEnds, BackoffEnds, RowLost
<1>10. ASSUME NEW m \in wire, Apply(m) PROVE UNCHANGED task
  BY <1>10 DEF Apply
<1> HIDE DEF Goal
<1>11. Goal
  BY <1>1, <1>7, <1>8, <1>9, <1>10 DEF SyncNext
<1> QED
  BY <1>11 DEF Goal

-----------------------------------------------------------------------------
(* What a step does to a row: it is lost, touched without changing what it *)
(* says, raised to a justified projection, or acknowledged.                *)
RowTouched(c) == row'[c].fact = row[c].fact /\ row'[c].acked = row[c].acked
RowRaised(c)  == /\ Justified(row'[c].fact, c)
                 /\ Rev(row'[c].fact) > Rev(row[c].fact)
                 /\ row'[c].acked = row[c].acked
RowAcked(c)   == /\ row'[c].fact = row[c].fact
                 /\ row'[c].acked = Rev(row[c].fact)
                 /\ applied[c] >= row'[c].acked
RowStep(c)    == row'[c] = NoRow \/ RowTouched(c) \/ RowRaised(c) \/ RowAcked(c)

(* The statements that replace a row keep its type.                        *)
LEMMA RowFields ==
  ASSUME NEW r \in Rows
  PROVE  r.fact \in Facts /\ r.acked \in 0 .. 2 /\ r.gen \in Nat /\ r.gen + 1 \in Nat
BY DEF Rows

LEMMA ClaimedRow ==
  ASSUME NEW r \in Rows, NEW g \in Nat, NEW e, e = [r EXCEPT !.gen = g, !.lease = "live"]
  PROVE  e \in Rows /\ e.fact = r.fact /\ e.acked = r.acked
BY DEF Rows

LEMMA StoredRow ==
  ASSUME SyncInv, NEW c \in Creates, NEW f \in Facts \ {"absent"}, Justified(f, c),
         row'[c] = Stored(row[c], f)
  PROVE  row'[c] \in Rows /\ (RowTouched(c) \/ RowRaised(c))
<1>0. row[c] \in Rows /\ AckedWithinRow
  BY DEF SyncInv, SyncTypeOK
<1>1. CASE row[c].fact = "absent"
  <2>1. row[c].acked = 0
    BY <1>0, <1>1, RevFacts DEF AckedWithinRow, Rows
  <2>2. row'[c] = [NoRow EXCEPT !.fact = f]
    BY <1>1 DEF Stored
  <2>3. row'[c].fact = f /\ row'[c].acked = 0 /\ row'[c] \in Rows
    <3>1. NoRow \in Rows /\ NoRow.acked = 0
      BY DEF NoRow, Rows, Facts
    <3> QED
      BY <2>2, <3>1 DEF Rows
  <2>4. Rev(f) > Rev(row[c].fact)
    BY <1>1, RevFacts
  <2> QED
    BY <2>1, <2>3, <2>4 DEF RowRaised
<1>2. CASE row[c].fact # "absent" /\ Rev(row[c].fact) < Rev(f)
  <2>1. row'[c] = [row[c] EXCEPT !.fact = f, !.gen = @ + 1, !.lease = "none", !.due = TRUE, !.blocked = FALSE]
    BY <1>2 DEF Stored
  <2>2. row'[c].fact = f /\ row'[c].acked = row[c].acked /\ row'[c] \in Rows
    <3>1. row[c].gen + 1 \in Nat
      BY <1>0, RowFields
    <3>2. row'[c] = [row[c] EXCEPT !.fact = f, !.gen = row[c].gen + 1, !.lease = "none", !.due = TRUE,
                                   !.blocked = FALSE]
      BY <1>0, <2>1
    <3>3. row'[c] \in Rows
      BY <1>0, <3>1, <3>2 DEF Rows
    <3>4. row'[c].fact = f /\ row'[c].acked = row[c].acked
      BY <1>0, <3>2 DEF Rows
    <3> QED
      BY <3>3, <3>4
  <2>3. Rev(f) > Rev(row[c].fact)
    BY <1>0, <1>2, RevFacts DEF Rows
  <2> QED
    BY <2>2, <2>3 DEF RowRaised
<1>3. CASE row[c].fact # "absent" /\ ~(Rev(row[c].fact) < Rev(f))
  BY <1>0, <1>3 DEF Stored, RowTouched
<1> QED
  BY <1>1, <1>2, <1>3

LEMMA WrittenRow ==
  ASSUME SyncInv, NEW w \in SyncWorkers, WriteBack(w), NEW c \in Creates, c = task[w].create,
         SyncFence(row[c], task[w])
  PROVE  WrittenBack(row[c], task[w]) \in Rows
         /\ (row'[c] = WrittenBack(row[c], task[w]) => RowTouched(c) \/ RowAcked(c))
<1>0. row[c] \in Rows /\ SyncTypeOK /\ AckIsApplied
  BY DEF SyncInv, SyncTypeOK
<1>1. task[w] \in [step : Busy, create : Creates, fact : Facts \ {"absent"}, gen : Nat]
  BY <1>0, BusyTask
<1>2. Rev(row[c].fact) = Rev(task[w].fact) /\ Rev(task[w].fact) \in 0 .. 2
  BY <1>1, RevFacts DEF SyncFence
<1>3. CASE task[w].step = "ack"
  <2>1. WrittenBack(row[c], task[w]) = [row[c] EXCEPT !.acked = Rev(task[w].fact), !.lease = "none"]
    BY <1>3 DEF WrittenBack
  <2>2. applied[c] >= Rev(task[w].fact)
    BY <1>0, <1>3 DEF AckIsApplied, At
  <2>4. ASSUME NEW e, e = [row[c] EXCEPT !.acked = Rev(task[w].fact), !.lease = "none"]
        PROVE  e \in Rows /\ e.fact = row[c].fact /\ e.acked = Rev(task[w].fact)
    <3>1. e \in Rows
      BY <1>0, <1>2, <2>4 DEF Rows
    <3>2. e.fact = row[c].fact
      BY <1>0, <2>4 DEF Rows
    <3>3. e.acked = Rev(task[w].fact)
      BY <1>0, <2>4 DEF Rows
    <3> QED
      BY <3>1, <3>2, <3>3
  <2>3. WrittenBack(row[c], task[w]).fact = row[c].fact
        /\ WrittenBack(row[c], task[w]).acked = Rev(task[w].fact)
        /\ WrittenBack(row[c], task[w]) \in Rows
    BY <2>1, <2>4
  <2> QED
    BY <1>2, <2>2, <2>3 DEF RowAcked
<1>4. CASE task[w].step = "retry"
  <2>1. WrittenBack(row[c], task[w]) = [row[c] EXCEPT !.due = FALSE, !.lease = "none"]
    BY <1>4 DEF WrittenBack
  <2>2. ASSUME NEW e, e = [row[c] EXCEPT !.due = FALSE, !.lease = "none"]
        PROVE  e \in Rows /\ e.fact = row[c].fact /\ e.acked = row[c].acked
    <3>1. e \in Rows
      BY <1>0, <2>2 DEF Rows
    <3>2. e.fact = row[c].fact /\ e.acked = row[c].acked
      BY <1>0, <2>2 DEF Rows
    <3> QED
      BY <3>1, <3>2
  <2> QED
    BY <2>1, <2>2 DEF RowTouched
<1>5. CASE task[w].step = "block"
  <2>1. WrittenBack(row[c], task[w]) = [row[c] EXCEPT !.blocked = TRUE, !.lease = "none"]
    BY <1>5 DEF WrittenBack
  <2>2. ASSUME NEW e, e = [row[c] EXCEPT !.blocked = TRUE, !.lease = "none"]
        PROVE  e \in Rows /\ e.fact = row[c].fact /\ e.acked = row[c].acked
    <3>1. e \in Rows
      BY <1>0, <2>2 DEF Rows
    <3>2. e.fact = row[c].fact /\ e.acked = row[c].acked
      BY <1>0, <2>2 DEF Rows
    <3> QED
      BY <3>1, <3>2
  <2> QED
    BY <2>1, <2>2 DEF RowTouched
<1> QED
  BY <1>3, <1>4, <1>5 DEF WriteBack

LEMMA RowCases ==
  ASSUME SyncInv, SyncNext
  PROVE  row' \in [Creates -> Rows] /\ \A c \in Creates : RowStep(c)
<1> DEFINE Goal == row' \in [Creates -> Rows] /\ \A c \in Creates : RowStep(c)
<1>0. SyncTypeOK /\ row \in [Creates -> Rows] /\ ProjectionsJustified
  BY DEF SyncInv, SyncTypeOK
<1>1. UNCHANGED row => Goal
  BY <1>0 DEF RowStep, RowTouched
<1>2. ASSUME NEW c \in Creates, NEW r \in Rows, row' = [row EXCEPT ![c] = r], RowStep(c) PROVE Goal
  BY <1>0, <1>2 DEF RowStep, RowTouched
<1>3. ASSUME NEW w \in SyncWorkers, Upsert(w) PROVE Goal
  <2> DEFINE c == task[w].create
             f == task[w].fact
  <2>1. c \in Creates /\ f \in Facts \ {"absent"} /\ Justified(f, c)
    BY <1>0, <1>3, BusyTask DEF Upsert, At, Busy, ProjectionsJustified
  <2>2. row' = [row EXCEPT ![c] = Stored(row[c], f)]
    BY <1>3 DEF Upsert
  <2>3. row'[c] = Stored(row[c], f)
    BY <1>0, <2>1, <2>2
  <2>4. row'[c] \in Rows /\ RowStep(c)
    BY <2>1, <2>3, StoredRow DEF RowStep
  <2> HIDE DEF c, f
  <2> QED
    BY <1>2, <2>1, <2>2, <2>3, <2>4
<1>4. ASSUME NEW w \in SyncWorkers, NEW c \in Creates, Claim(w, c) PROVE Goal
  <2>1. row' = [row EXCEPT ![c].gen = @ + 1, ![c].lease = "live"]
    BY <1>4 DEF Claim
  <2>2. row' = [row EXCEPT ![c] = [row[c] EXCEPT !.gen = @ + 1, !.lease = "live"]]
    BY <1>0, <2>1
  <2>3. [row[c] EXCEPT !.gen = @ + 1, !.lease = "live"] \in Rows
    <3>1. row[c] \in Rows
      BY <1>0
    <3>2. row[c].gen + 1 \in Nat
      BY <3>1, RowFields
    <3>3. [row[c] EXCEPT !.gen = @ + 1, !.lease = "live"] = [row[c] EXCEPT !.gen = row[c].gen + 1, !.lease = "live"]
      OBVIOUS
    <3> QED
      BY <3>1, <3>2, <3>3, ClaimedRow
  <2>4. RowStep(c)
    BY <1>0, <2>2 DEF RowStep, RowTouched, Rows
  <2> QED
    BY <1>2, <2>2, <2>3, <2>4
<1>5. ASSUME NEW w \in SyncWorkers, WriteBack(w) PROVE Goal
  <2> DEFINE c == task[w].create
  <2>1. c \in Creates
    BY <1>0, <1>5, BusyTask DEF WriteBack, Busy
  <2>2. CASE ~SyncFence(row[c], task[w])
    BY <1>1, <1>5, <2>2 DEF WriteBack
  <2>3. CASE SyncFence(row[c], task[w])
    <3>1. row' = [row EXCEPT ![c] = WrittenBack(row[c], task[w])]
      BY <1>5, <2>3 DEF WriteBack
    <3>2. row'[c] = WrittenBack(row[c], task[w])
      BY <1>0, <2>1, <3>1
    <3>3. WrittenBack(row[c], task[w]) \in Rows /\ RowStep(c)
      BY <1>5, <2>1, <2>3, <3>2, WrittenRow DEF RowStep
    <3> HIDE DEF c
    <3> QED
      BY <1>2, <2>1, <3>1, <3>3
  <2> QED
    BY <2>2, <2>3
<1>6. ASSUME NEW c \in Creates, LeaseEnds(c) PROVE Goal
  <2>1. row' = [row EXCEPT ![c] = [row[c] EXCEPT !.lease = "over"]]
    BY <1>6 DEF LeaseEnds
  <2>2. [row[c] EXCEPT !.lease = "over"] \in Rows /\ RowStep(c)
    BY <1>0, <2>1 DEF Rows, RowStep, RowTouched
  <2> QED
    BY <1>2, <2>1, <2>2
<1>7. ASSUME NEW c \in Creates, BackoffEnds(c) PROVE Goal
  <2>1. row' = [row EXCEPT ![c] = [row[c] EXCEPT !.due = TRUE]]
    BY <1>7 DEF BackoffEnds
  <2>2. [row[c] EXCEPT !.due = TRUE] \in Rows /\ RowStep(c)
    BY <1>0, <2>1 DEF Rows, RowStep, RowTouched
  <2> QED
    BY <1>2, <2>1, <2>2
<1>8. ASSUME NEW c \in Creates, RowLost(c) PROVE Goal
  <2>1. row' = [row EXCEPT ![c] = NoRow]
    BY <1>8 DEF RowLost
  <2>2. NoRow \in Rows /\ RowStep(c)
    BY <1>0, <2>1 DEF NoRow, Rows, Facts, RowStep
  <2> QED
    BY <1>2, <2>1, <2>2
<1>9. ASSUME NEW w \in SyncWorkers, WorkerStep(w) PROVE Goal
  <2>1. ScanPage(w) \/ (\E c \in Creates : Load(w, c)) \/ EndPage(w) \/ NothingDue(w) \/ Send(w) \/ AnswerApplied(w)
          => UNCHANGED row
    BY DEF ScanPage, Load, EndPage, NothingDue, Send, AnswerApplied
  <2> HIDE DEF Goal
  <2> QED
    BY <1>1, <1>3, <1>4, <1>5, <1>9, <2>1 DEF WorkerStep
<1>10. ASSUME NEW w \in SyncWorkers, WorkerFault(w) PROVE UNCHANGED row
  BY <1>10 DEF WorkerFault, SkipCandidate, AnswerTransportError, PermanentError, Crash
<1>11. ASSUME NEW m \in wire, Apply(m) PROVE UNCHANGED row
  BY <1>11 DEF Apply
<1> HIDE DEF Goal
<1>12. Goal
  BY <1>1, <1>6, <1>7, <1>8, <1>9, <1>10, <1>11 DEF SyncNext
<1> QED
  BY <1>12 DEF Goal

-----------------------------------------------------------------------------
(* Facts, the wire and the receiver.                                       *)
LEMMA FactsStep ==
  ASSUME SyncInv, SyncNext
  PROVE  /\ fact' \in [Creates -> Facts] /\ deleted' \subseteq Creates
         /\ \A c \in Creates : Rev(fact[c]) <= Rev(fact'[c])
         /\ \A c \in Creates : \A f : f # "absent" /\ Justified(f, c) => Justified(f, c)'
<1>1. Next \/ UNCHANGED svars
  BY DEF SyncNext, WorkerStep, WorkerFault, ScanPage, Load, Upsert, PassOn, EndPage, NothingDue, Claim,
     Send, AnswerApplied, WriteBack, SkipCandidate, AnswerTransportError, PermanentError, Crash,
     LeaseEnds, BackoffEnds, RowLost, Apply
<1> QED
  BY <1>1, FactsMoveOn DEF SyncInv, SyncTypeOK

WireSent == \E w \in SyncWorkers : Send(w)

LEMMA WireCases ==
  ASSUME SyncNext
  PROVE  /\ WireSent \/ UNCHANGED wire
         /\ (\E m \in wire : Apply(m)) \/ UNCHANGED applied
<1>1. ASSUME NEW w \in SyncWorkers, WorkerStep(w) PROVE (Send(w) \/ UNCHANGED wire) /\ UNCHANGED applied
  BY <1>1 DEF WorkerStep, ScanPage, Load, Upsert, PassOn, EndPage, NothingDue, Claim, Send, AnswerApplied,
     WriteBack
<1>2. ASSUME NEW w \in SyncWorkers, WorkerFault(w) PROVE UNCHANGED <<wire, applied>>
  BY <1>2 DEF WorkerFault, SkipCandidate, PassOn, AnswerTransportError, PermanentError, Crash
<1>3. ASSUME NEW c \in Creates, LeaseEnds(c) \/ BackoffEnds(c) \/ RowLost(c) PROVE UNCHANGED <<wire, applied>>
  BY <1>3 DEF LeaseEnds, BackoffEnds, RowLost
<1>4. ASSUME NEW m \in wire, Apply(m) PROVE UNCHANGED wire
  BY <1>4 DEF Apply
<1> QED
  BY <1>1, <1>2, <1>3, <1>4 DEF SyncNext, WireSent

LEMMA ReceiverStep ==
  ASSUME SyncInv, SyncNext
  PROVE  /\ wire' \subseteq [create : Creates, rev : 1 .. 2]
         /\ applied' \in [Creates -> 0 .. 2]
         /\ \A c \in Creates : applied'[c] >= applied[c]
         /\ WireIsFact' /\ AppliedIsFact'
<1>0. /\ SyncTypeOK /\ WireIsFact /\ AppliedIsFact /\ ProjectionsJustified
      /\ wire \subseteq [create : Creates, rev : 1 .. 2] /\ applied \in [Creates -> 0 .. 2]
      /\ fact \in [Creates -> Facts]
  BY DEF SyncInv, SyncTypeOK
<1>1. \A c \in Creates : /\ Rev(fact[c]) <= Rev(fact'[c])
                        /\ Rev(fact[c]) \in 0 .. 2 /\ Rev(fact'[c]) \in 0 .. 2
  BY <1>0, FactsStep, RevFacts
<1>2. ASSUME NEW w \in SyncWorkers, Send(w)
      PROVE  /\ wire' \subseteq [create : Creates, rev : 1 .. 2]
             /\ \A m \in wire' : m.rev <= Rev(fact[m.create])
  <2> DEFINE c == task[w].create
             f == task[w].fact
  <2>1. c \in Creates /\ f \in Facts \ {"absent"} /\ Justified(f, c)
    BY <1>0, <1>2, BusyTask DEF Send, At, Busy, ProjectionsJustified
  <2>2. Rev(f) \in 1 .. 2 /\ Rev(f) <= Rev(fact[c])
    BY <1>0, <2>1, RevFacts, JustifiedBehind
  <2>3. wire' = wire \cup {[create |-> c, rev |-> Rev(f)]}
    BY <1>2 DEF Send
  <2> HIDE DEF c, f
  <2> QED
    BY <1>0, <2>1, <2>2, <2>3 DEF WireIsFact
<1>3. wire' \subseteq [create : Creates, rev : 1 .. 2] /\ \A m \in wire' : m.rev <= Rev(fact[m.create])
  BY <1>0, <1>2, WireCases DEF WireSent, WireIsFact
<1>4. WireIsFact'
  <2> SUFFICES ASSUME NEW m \in wire' PROVE m.rev <= Rev(fact'[m.create])
    BY DEF WireIsFact
  <2>1. m.create \in Creates /\ m.rev \in 1 .. 2 /\ m.rev <= Rev(fact[m.create])
    BY <1>3
  <2> QED
    BY <1>1, <2>1
<1>5. ASSUME NEW m \in wire, Apply(m)
      PROVE  /\ applied' \in [Creates -> 0 .. 2]
             /\ \A c \in Creates : applied'[c] >= applied[c]
             /\ \A c \in Creates : applied'[c] <= Rev(fact[c])
  <2>1. m.create \in Creates /\ m.rev \in 1 .. 2 /\ m.rev <= Rev(fact[m.create])
    BY <1>0 DEF WireIsFact
  <2>2. applied' = [applied EXCEPT ![m.create] = m.rev] /\ applied[m.create] < m.rev
    BY <1>5 DEF Apply
  <2> QED
    BY <1>0, <2>1, <2>2 DEF AppliedIsFact
<1>6. UNCHANGED applied =>
        /\ applied' \in [Creates -> 0 .. 2]
        /\ \A c \in Creates : applied'[c] >= applied[c]
        /\ \A c \in Creates : applied'[c] <= Rev(fact[c])
  BY <1>0 DEF AppliedIsFact
<1>7. /\ applied' \in [Creates -> 0 .. 2]
      /\ \A c \in Creates : applied'[c] >= applied[c]
      /\ \A c \in Creates : applied'[c] <= Rev(fact[c])
  BY <1>5, <1>6, WireCases
<1>8. AppliedIsFact'
  BY <1>1, <1>7 DEF AppliedIsFact
<1> QED
  BY <1>3, <1>4, <1>7, <1>8

(* The scan: pages list existing CREATEs, cursors are row ids.             *)
LEMMA ScanStep ==
  ASSUME SyncInv, SyncNext
  PROVE  /\ page' \in [SyncWorkers -> SUBSET Creates]
         /\ full' \in [SyncWorkers -> BOOLEAN]
         /\ cursor' \in [SyncWorkers -> Nat]
         /\ PagesPresent'
<1> DEFINE Goal == /\ page' \in [SyncWorkers -> SUBSET Creates]
                   /\ full' \in [SyncWorkers -> BOOLEAN]
                   /\ cursor' \in [SyncWorkers -> Nat]
                   /\ \A w \in SyncWorkers : \A c \in page'[w] : fact[c] # "absent"
<1>0. /\ page \in [SyncWorkers -> SUBSET Creates] /\ full \in [SyncWorkers -> BOOLEAN]
      /\ cursor \in [SyncWorkers -> Nat] /\ PagesPresent /\ fact \in [Creates -> Facts] /\ SyncTypeOK
  BY DEF SyncInv, SyncTypeOK
<1>1. UNCHANGED scan => Goal
  BY <1>0 DEF scan, PagesPresent
<1>2. ASSUME NEW w \in SyncWorkers, ScanPage(w) PROVE Goal
  <2>1. /\ page' = [page EXCEPT ![w] = NextPage(w)] /\ UNCHANGED cursor
        /\ full' = [full EXCEPT ![w] = (Cardinality(NextPage(w)) = PageSize)]
    BY <1>2 DEF ScanPage
  <2>2. NextPage(w) \subseteq Creates /\ \A c \in NextPage(w) : fact[c] # "absent"
    BY DEF NextPage, Beyond
  <2>3. full' \in [SyncWorkers -> BOOLEAN]
    BY <1>0, <2>1
  <2> QED
    BY <1>0, <2>1, <2>2, <2>3 DEF PagesPresent
<1>3. ASSUME NEW w \in SyncWorkers, NEW c \in Creates, PassOn(w, c) PROVE Goal
  BY <1>0, <1>3, SyncAssumption DEF PassOn, PagesPresent
<1>4. ASSUME NEW w \in SyncWorkers, EndPage(w) PROVE Goal
  BY <1>0, <1>4 DEF EndPage, CursorAfterPage, PagesPresent
<1>5. ASSUME NEW w \in SyncWorkers, Crash(w) PROVE Goal
  BY <1>0, <1>5 DEF Crash, PagesPresent
<1>6. ASSUME NEW w \in SyncWorkers, Upsert(w) PROVE Goal
  BY <1>0, <1>3, <1>6, BusyTask DEF Upsert, At, Busy
<1>7. ASSUME NEW w \in SyncWorkers, WorkerStep(w) PROVE Goal
  <2>1. (\E c \in Creates : Load(w, c) \/ Claim(w, c)) \/ NothingDue(w) \/ Send(w) \/ AnswerApplied(w) \/ WriteBack(w)
          => UNCHANGED scan
    BY DEF Load, Claim, NothingDue, Send, AnswerApplied, WriteBack, scan
  <2> HIDE DEF Goal
  <2> QED
    BY <1>1, <1>2, <1>4, <1>6, <1>7, <2>1 DEF WorkerStep
<1>8. ASSUME NEW w \in SyncWorkers, WorkerFault(w) PROVE Goal
  <2>1. AnswerTransportError(w) \/ PermanentError(w) => UNCHANGED scan
    BY DEF AnswerTransportError, PermanentError
  <2> HIDE DEF Goal
  <2> QED
    BY <1>1, <1>3, <1>5, <1>8, <2>1 DEF WorkerFault, SkipCandidate
<1>9. ASSUME NEW c \in Creates, LeaseEnds(c) \/ BackoffEnds(c) \/ RowLost(c) PROVE UNCHANGED scan
  BY <1>9 DEF LeaseEnds, BackoffEnds, RowLost
<1>10. ASSUME NEW m \in wire, Apply(m) PROVE UNCHANGED scan
  BY <1>10 DEF Apply
<1> HIDE DEF Goal
<1>11. Goal
  BY <1>1, <1>7, <1>8, <1>9, <1>10 DEF SyncNext
<1>12. \A c \in Creates : fact[c] # "absent" => fact'[c] # "absent"
  BY <1>0, FactsStep, RevFacts
<1> QED
  BY <1>0, <1>11, <1>12 DEF Goal, PagesPresent

LEMMA FaultsStep ==
  ASSUME SyncInv, SyncNext
  PROVE  faults' \in 0 .. MaxFaults
<1>0. faults \in 0 .. MaxFaults
  BY DEF SyncInv, SyncTypeOK
<1>1. Fault => faults' \in 0 .. MaxFaults
  BY <1>0, SyncAssumption DEF Fault
<1>2. Fault \/ UNCHANGED faults
  BY DEF SyncNext, WorkerStep, WorkerFault, ScanPage, Load, Upsert, PassOn, EndPage, NothingDue, Claim,
     Send, AnswerApplied, WriteBack, SkipCandidate, AnswerTransportError, PermanentError, Crash,
     LeaseEnds, BackoffEnds, RowLost, Apply
<1> QED
  BY <1>0, <1>1, <1>2

-----------------------------------------------------------------------------
LEMMA SyncInitInv == SyncInit => SyncInv
<1> SUFFICES ASSUME SyncInit PROVE SyncInv
  OBVIOUS
<1>1. SyncTypeOK
  BY SyncAssumption DEF SyncInit, Init, SyncTypeOK, NoRow, Rows, NoTask, Tasks, Facts
<1>2. AckedIsApplied /\ AppliedIsFact /\ AckedWithinRow
  BY RevFacts DEF SyncInit, Init, AckedIsApplied, AppliedIsFact, AckedWithinRow, NoRow
<1>3. ProjectionsJustified
  BY SyncAssumption DEF SyncInit, Init, ProjectionsJustified, NoRow, NoTask
<1>4. WireIsFact /\ AckIsApplied /\ PagesPresent
  BY DEF SyncInit, WireIsFact, AckIsApplied, PagesPresent, At, NoTask
<1> QED
  BY <1>1, <1>2, <1>3, <1>4 DEF SyncInv

LEMMA SyncStepInv == SyncInv /\ SyncNext => SyncInv'
<1> SUFFICES ASSUME SyncInv, SyncNext PROVE SyncInv'
  OBVIOUS
<1>0. /\ SyncTypeOK /\ AckedIsApplied /\ ProjectionsJustified /\ AckedWithinRow /\ AckIsApplied
      /\ row \in [Creates -> Rows] /\ applied \in [Creates -> 0 .. 2]
  BY DEF SyncInv, SyncTypeOK
<1>1. SyncTypeOK'
  BY TaskCases, RowCases, FactsStep, ReceiverStep, ScanStep, FaultsStep DEF SyncTypeOK
<1>2. row' \in [Creates -> Rows] /\ applied' \in [Creates -> 0 .. 2]
  BY <1>1 DEF SyncTypeOK
<1>3. ASSUME NEW c \in Creates
      PROVE  row'[c].acked <= applied'[c] /\ row'[c].acked <= Rev(row'[c].fact)
  <2>1. /\ row[c].acked <= applied[c] /\ row[c].acked <= Rev(row[c].fact) /\ applied[c] <= applied'[c]
        /\ row[c].acked \in 0 .. 2 /\ applied[c] \in 0 .. 2 /\ applied'[c] \in 0 .. 2
        /\ Rev(row[c].fact) \in 0 .. 2 /\ Rev(row'[c].fact) \in 0 .. 2
    BY <1>0, <1>2, ReceiverStep, RevFacts DEF AckedIsApplied, AckedWithinRow, Rows
  <2>2. CASE row'[c] = NoRow
    BY <2>1, <2>2, RevFacts DEF NoRow
  <2>3. CASE RowTouched(c) \/ RowRaised(c)
    BY <2>1, <2>3 DEF RowTouched, RowRaised
  <2>4. CASE RowAcked(c)
    BY <2>1, <2>4 DEF RowAcked
  <2> QED
    BY <2>2, <2>3, <2>4, RowCases DEF RowStep
<1>4. ASSUME NEW c \in Creates, row'[c].fact # "absent" PROVE Justified(row[c].fact, c)'
  <2>1. Justified(row'[c].fact, c)
    BY <1>0, <1>4, RowCases DEF RowStep, RowTouched, RowRaised, RowAcked, NoRow, ProjectionsJustified
  <2> QED
    BY <1>4, <2>1, FactsStep DEF Justified
<1>5. ASSUME NEW w \in SyncWorkers, task'[w].create \in Creates
      PROVE  Justified(task[w].fact, task[w].create)'
  <2>1. /\ Justified(task'[w].fact, task'[w].create) /\ task'[w].fact # "absent"
    <3>1. CASE TaskKept(w)
      BY <1>0, <1>5, <3>1, BusyTask DEF TaskKept, ProjectionsJustified
    <3>2. CASE TaskDropped(w)
      <4>1. PICK s \in {"idle", "paging", "claiming"} : task'[w] = [NoTask EXCEPT !.step = s]
        BY <3>2 DEF TaskDropped
      <4>2. task'[w].create = NoCreate
        BY <4>1 DEF NoTask
      <4> QED
        BY <1>5, <4>2, SyncAssumption
    <3>3. CASE TaskMoved(w)
      <4>1. task[w] \in [step : Busy, create : Creates, fact : Facts \ {"absent"}, gen : Nat]
        BY <1>0, <3>3, BusyTask DEF TaskMoved
      <4>2. task'[w].create = task[w].create /\ task'[w].fact = task[w].fact
        BY <3>3, <4>1 DEF TaskMoved
      <4> QED
        BY <1>0, <4>1, <4>2 DEF ProjectionsJustified
    <3>4. CASE TaskMade(w)
      BY <3>4 DEF TaskMade
    <3> QED
      BY <3>1, <3>2, <3>3, <3>4, TaskCases DEF TaskStep
  <2> QED
    BY <1>5, <2>1, FactsStep DEF Justified
<1>6. ASSUME NEW w \in SyncWorkers, task'[w].step = "ack"
      PROVE  applied'[task'[w].create] >= Rev(task'[w].fact)
  <2>1. /\ task[w] \in [step : Busy, create : Creates, fact : Facts \ {"absent"}, gen : Nat]
        /\ task'[w].create = task[w].create /\ task'[w].fact = task[w].fact
        /\ applied[task[w].create] >= Rev(task[w].fact)
    <3>1. CASE TaskKept(w)
      BY <1>0, <1>6, <3>1, BusyTask DEF TaskKept, AckIsApplied, At, Busy
    <3>2. CASE TaskMoved(w)
      <4>1. task[w] \in [step : Busy, create : Creates, fact : Facts \ {"absent"}, gen : Nat]
        BY <1>0, <3>2, BusyTask DEF TaskMoved
      <4> QED
        BY <1>6, <3>2, <4>1 DEF TaskMoved
    <3>3. CASE TaskDropped(w) \/ TaskMade(w)
      <4>1. CASE TaskDropped(w)
        <5>1. PICK s \in {"idle", "paging", "claiming"} : task'[w] = [NoTask EXCEPT !.step = s]
          BY <4>1 DEF TaskDropped
        <5> QED
          BY <1>6, <5>1 DEF NoTask
      <4>2. CASE TaskMade(w)
        BY <1>6, <4>2 DEF TaskMade
      <4> QED
        BY <3>3, <4>1, <4>2
    <3> QED
      BY <3>1, <3>2, <3>3, TaskCases DEF TaskStep
  <2>2. applied'[task[w].create] >= applied[task[w].create] /\ Rev(task[w].fact) \in 0 .. 2
    BY <2>1, ReceiverStep, RevFacts
  <2> QED
    BY <1>0, <1>2, <2>1, <2>2
<1>7. AckedIsApplied' /\ AckedWithinRow'
  BY <1>3 DEF AckedIsApplied, AckedWithinRow
<1>8. ProjectionsJustified'
  BY <1>4, <1>5 DEF ProjectionsJustified
<1>9. AckIsApplied'
  BY <1>6 DEF AckIsApplied, At
<1> QED
  BY <1>1, <1>7, <1>8, <1>9, ReceiverStep, ScanStep DEF SyncInv

LEMMA SyncStutter == SyncInv /\ UNCHANGED yvars => SyncInv'
BY DEF yvars, svars, scan, SyncInv, SyncTypeOK, AckedIsApplied, AppliedIsFact, ProjectionsJustified,
   Justified, AckedWithinRow, WireIsFact, AckIsApplied, PagesPresent, At

(* The invariant of rows, workers and receiver, for any page size and any  *)
(* number of workers, failures, overrun leases and late deliveries.        *)
THEOREM SyncInvariant == SyncSpec => []SyncInv
<1>1. SyncInv /\ [SyncNext]_yvars => SyncInv'
  BY SyncStepInv, SyncStutter
<1> QED
  BY <1>1, SyncInitInv, PTL DEF SyncSpec

(* No row acknowledges what the receiver has not applied.                  *)
THEOREM AcknowledgementsTrue == SyncSpec => []AckedIsApplied
<1>1. SyncInv => AckedIsApplied
  BY DEF SyncInv
<1> QED
  BY <1>1, SyncInvariant, PTL

(* What is derived, stored or claimed is the fact or its predecessor.      *)
THEOREM StoredJustified == SyncSpec => []ProjectionsJustified
<1>1. SyncInv => ProjectionsJustified
  BY DEF SyncInv
<1> QED
  BY <1>1, SyncInvariant, PTL

(* No late snapshot, retry or answer lowers a row that is not lost.        *)
THEOREM RowsOnlyAdvance == SyncSpec => RevisionsGrow
<1> DEFINE Grow == \A c \in Creates : row'[c] # NoRow =>
                     Rev(row'[c].fact) >= Rev(row[c].fact) /\ row'[c].acked >= row[c].acked
<1>1. ASSUME SyncInv, SyncNext, NEW c \in Creates, row'[c] # NoRow
      PROVE  Rev(row'[c].fact) >= Rev(row[c].fact) /\ row'[c].acked >= row[c].acked
  <2>1. /\ row[c].acked <= Rev(row[c].fact) /\ row[c].acked \in 0 .. 2
        /\ Rev(row[c].fact) \in 0 .. 2 /\ Rev(row'[c].fact) \in 0 .. 2
    BY <1>1, RowCases, RevFacts DEF SyncInv, SyncTypeOK, AckedWithinRow, Rows
  <2> QED
    BY <1>1, <2>1, RowCases DEF RowStep, RowTouched, RowRaised, RowAcked
<1>2. ASSUME SyncInv, UNCHANGED yvars, NEW c \in Creates
      PROVE  Rev(row'[c].fact) >= Rev(row[c].fact) /\ row'[c].acked >= row[c].acked
  <2>1. row[c].acked \in 0 .. 2 /\ Rev(row[c].fact) \in 0 .. 2
    BY <1>2, RevFacts DEF SyncInv, SyncTypeOK, Rows
  <2> QED
    BY <1>2, <2>1 DEF yvars
<1>3. SyncInv /\ [SyncNext]_yvars => [Grow]_yvars
  BY <1>1
<1> QED
  BY <1>3, SyncInvariant, PTL DEF SyncSpec, RevisionsGrow
=============================================================================
