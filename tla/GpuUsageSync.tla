---------------------------- MODULE GpuUsageSync ----------------------------
(***************************************************************************)
(* The GPU usage projection (service/gpu_usage_sync_worker.go with the     *)
(* rows of data/quota_gpu_sync_repo.go): every process scans the CREATE    *)
(* operations page by page, derives a projection of each (revision 1       *)
(* DECLARED, revision 2 ENDED), stores it in the CREATE's sync row, and    *)
(* after each page claims one due row, sends it to the accelerator service *)
(* and writes the outcome back.                                            *)
(*                                                                         *)
(* Reading the facts, storing the projection, claiming, calling and        *)
(* writing back are separate transactions, between which the facts, the    *)
(* row and its lease change under the worker.  The receiver is not part of *)
(* this repository: it applies the highest revision it has seen and        *)
(* answers with it.                                                        *)
(***************************************************************************)
EXTENDS UsageSource, Integers, FiniteSets

CONSTANTS
  SyncWorkers,  \* one per process
  Id,           \* [Creates -> Nat \ {0}], the row ids the pages are ordered by
  PageSize,     \* CREATEs scanned before one row is claimed
  NoCreate,     \* no CREATE
  MaxFaults     \* bound on failed calls and statements, crashes, lost rows and overrun leases

ASSUME SyncAssumption ==
  /\ Id \in [Creates -> Nat \ {0}]
  /\ \A c1, c2 \in Creates : Id[c1] = Id[c2] => c1 = c2
  /\ PageSize \in Nat \ {0}
  /\ NoCreate \notin Creates
  /\ MaxFaults \in Nat

VARIABLES
  row,       \* CREATE -> its sync row; fact "absent" when there is none
  task,      \* worker -> where Step is and the record it works on
  page,      \* worker -> CREATEs of the scanned page not yet handled
  full,      \* worker -> the page had PageSize CREATEs
  cursor,    \* worker -> afterID
  wire,      \* projections some call put on the wire
  applied,   \* CREATE -> the revision the receiver has applied
  faults     \* faults so far

scan == <<page, full, cursor>>
yvars == <<svars, row, task, scan, wire, applied, faults>>

(* The revision of a projection: 2 when it ends the usage.                 *)
Rev(f) == IF f = "absent" THEN 0 ELSE IF f = "accepted" THEN 1 ELSE 2

NoRow == [fact |-> "absent", acked |-> 0, gen |-> 0, lease |-> "none", due |-> TRUE, blocked |-> FALSE]
Rows  == [fact : Facts, acked : 0 .. 2, gen : Nat, lease : {"none", "live", "over"},
          due : BOOLEAN, blocked : BOOLEAN]

NoTask == [step |-> "idle", create |-> NoCreate, fact |-> "absent", gen |-> 0]
Busy   == {"derived", "claimed", "waiting", "ack", "retry", "block"}
Tasks  == [step : {"idle", "paging", "claiming"}, create : {NoCreate}, fact : {"absent"}, gen : {0}]
            \cup [step : Busy, create : Creates, fact : Facts \ {"absent"}, gen : Nat]

(***************************************************************************)
(* Rows, workers and the receiver.                                         *)
(***************************************************************************)
SyncTypeOK ==
  /\ fact \in [Creates -> Facts]
  /\ deleted \subseteq Creates
  /\ row \in [Creates -> Rows]
  /\ task \in [SyncWorkers -> Tasks]
  /\ page \in [SyncWorkers -> SUBSET Creates]
  /\ full \in [SyncWorkers -> BOOLEAN]
  /\ cursor \in [SyncWorkers -> Nat]
  /\ wire \subseteq [create : Creates, rev : 1 .. 2]
  /\ applied \in [Creates -> 0 .. 2]
  /\ faults \in 0 .. MaxFaults

SyncInit ==
  /\ Init
  /\ row = [c \in Creates |-> NoRow]
  /\ task = [w \in SyncWorkers |-> NoTask]
  /\ page = [w \in SyncWorkers |-> {}]
  /\ full = [w \in SyncWorkers |-> FALSE]
  /\ cursor = [w \in SyncWorkers |-> 0]
  /\ wire = {}
  /\ applied = [c \in Creates |-> 0]
  /\ faults = 0

Fault == faults < MaxFaults /\ faults' = faults + 1
At(w, step) == task[w].step = step
GoTo(w, step) == task' = [task EXCEPT ![w] = [NoTask EXCEPT !.step = step]]
MoveTo(w, step) == task' = [task EXCEPT ![w].step = step]

-----------------------------------------------------------------------------
(* scanGpuCreatePage: the next PageSize CREATEs after the cursor.          *)
Beyond(w)   == {c \in Creates : fact[c] # "absent" /\ Id[c] > cursor[w]}
NextPage(w) == {c \in Beyond(w) : Cardinality({b \in Beyond(w) : Id[b] < Id[c]}) < PageSize}

ScanPage(w) ==
  /\ At(w, "idle")
  /\ page' = [page EXCEPT ![w] = NextPage(w)]
  /\ full' = [full EXCEPT ![w] = Cardinality(NextPage(w)) = PageSize]
  /\ GoTo(w, "paging")
  /\ UNCHANGED <<svars, row, cursor, wire, applied, faults>>

IsFirst(w, c) == c \in page[w] /\ \A b \in page[w] : Id[c] <= Id[b]

(* LoadGpuProjectionSource and deriveGpuProjection: one snapshot.          *)
Load(w, c) ==
  /\ At(w, "paging")
  /\ IsFirst(w, c)
  /\ task' = [task EXCEPT ![w] = [step |-> "derived", create |-> c, fact |-> fact[c], gen |-> 0]]
  /\ UNCHANGED <<svars, row, scan, wire, applied, faults>>

(* The candidate is done with, stored or failed; the cursor passes it.     *)
PassOn(w, c) ==
  /\ page' = [page EXCEPT ![w] = @ \ {c}]
  /\ cursor' = [cursor EXCEPT ![w] = Id[c]]
  /\ GoTo(w, "paging")
  /\ UNCHANGED <<svars, full, wire, applied>>

(* (mutant: the latest writer wins)                                        *)
StoredAlways(r, f) ==
  [r EXCEPT !.fact = f, !.gen = @ + 1, !.lease = "none", !.due = TRUE, !.blocked = FALSE]

(* upsertGpuUsageSync: only a higher revision replaces the row, and it     *)
(* takes the lease, the back-off and the block of the old one away.        *)
Stored(r, f) ==
  IF r.fact = "absent" THEN [NoRow EXCEPT !.fact = f]
  ELSE IF Rev(r.fact) < Rev(f)
       THEN [r EXCEPT !.fact = f, !.gen = @ + 1, !.lease = "none", !.due = TRUE, !.blocked = FALSE]
       ELSE r

Upsert(w) ==
  /\ At(w, "derived")
  /\ LET c == task[w].create IN
       /\ row' = [row EXCEPT ![c] = Stored(@, task[w].fact)]
       /\ PassOn(w, c)
  /\ UNCHANGED faults

(* The snapshot cannot be read, or not be stored.                          *)
SkipCandidate(w, c) ==
  /\ \/ At(w, "paging") /\ IsFirst(w, c)
     \/ At(w, "derived") /\ task[w].create = c
  /\ Fault
  /\ PassOn(w, c)
  /\ UNCHANGED row

(* (mutant: a short page does not wrap around)                             *)
CursorStays(w) == cursor[w]

(* A page that is not full was the last one; the next scan starts over.    *)
CursorAfterPage(w) == IF full[w] THEN cursor[w] ELSE 0

EndPage(w) ==
  /\ At(w, "paging")
  /\ page[w] = {}
  /\ cursor' = [cursor EXCEPT ![w] = CursorAfterPage(w)]
  /\ GoTo(w, "claiming")
  /\ UNCHANGED <<svars, row, page, full, wire, applied, faults>>

-----------------------------------------------------------------------------
Unacked(r) == r.acked < Rev(r.fact)
SyncDue(r) == r.fact # "absent" /\ Unacked(r) /\ ~r.blocked /\ r.due /\ r.lease # "live"

Claim(w, c) ==
  /\ At(w, "claiming")
  /\ SyncDue(row[c])
  /\ row' = [row EXCEPT ![c].gen = @ + 1, ![c].lease = "live"]
  /\ task' = [task EXCEPT ![w] = [step |-> "claimed", create |-> c, fact |-> row[c].fact,
                                  gen |-> row[c].gen + 1]]
  /\ UNCHANGED <<svars, scan, wire, applied, faults>>

NothingDue(w) ==
  /\ At(w, "claiming")
  /\ \A c \in Creates : ~SyncDue(row[c])
  /\ GoTo(w, "idle")
  /\ UNCHANGED <<svars, row, scan, wire, applied, faults>>

Send(w) ==
  /\ At(w, "claimed")
  /\ wire' = wire \cup {[create |-> task[w].create, rev |-> Rev(task[w].fact)]}
  /\ MoveTo(w, "waiting")
  /\ UNCHANGED <<svars, row, scan, applied, faults>>

(* The answer names the applied revision, which must not be behind.        *)
AnswerApplied(w) ==
  /\ At(w, "waiting")
  /\ applied[task[w].create] >= Rev(task[w].fact)
  /\ MoveTo(w, "ack")
  /\ UNCHANGED <<svars, row, scan, wire, applied, faults>>

AnswerTransportError(w) ==
  /\ At(w, "waiting")
  /\ Fault
  /\ MoveTo(w, "retry")
  /\ UNCHANGED <<svars, row, scan, wire, applied>>

(* A damaged payload, a contract error, a conflict or an invalid answer.   *)
PermanentError(w) ==
  /\ At(w, "claimed") \/ At(w, "waiting")
  /\ Fault
  /\ MoveTo(w, "block")
  /\ UNCHANGED <<svars, row, scan, wire, applied>>

(* (mutant: the write-back does not look at the revision and generation)   *)
HeldRow(r, t) == r.lease # "none" /\ Unacked(r)

(* The fence of AckGpuUsageSync, RetryGpuUsageSync and BlockGpuUsageSync:  *)
(* the lease may be over, but the row must not have been claimed again,    *)
(* revised or acknowledged since.                                          *)
SyncFence(r, t) ==
  Rev(r.fact) = Rev(t.fact) /\ r.gen = t.gen /\ r.lease # "none" /\ Unacked(r)

WrittenBack(r, t) ==
  CASE t.step = "ack"   -> [r EXCEPT !.acked = Rev(t.fact), !.lease = "none"]
    [] t.step = "retry" -> [r EXCEPT !.due = FALSE, !.lease = "none"]
    [] t.step = "block" -> [r EXCEPT !.blocked = TRUE, !.lease = "none"]

WriteBack(w) ==
  LET c == task[w].create IN
  /\ task[w].step \in {"ack", "retry", "block"}
  /\ row' = IF SyncFence(row[c], task[w]) THEN [row EXCEPT ![c] = WrittenBack(@, task[w])] ELSE row
  /\ GoTo(w, "idle")
  /\ UNCHANGED <<svars, scan, wire, applied, faults>>

(* The process stops, or a claim or write-back fails: a new worker object  *)
(* starts over, and the lease of a claimed row has to run out.             *)
Crash(w) ==
  /\ Fault
  /\ task' = [task EXCEPT ![w] = NoTask]
  /\ page' = [page EXCEPT ![w] = {}]
  /\ full' = [full EXCEPT ![w] = FALSE]
  /\ cursor' = [cursor EXCEPT ![w] = 0]
  /\ UNCHANGED <<svars, row, wire, applied>>

-----------------------------------------------------------------------------
Held(c) == \E w \in SyncWorkers : task[w].create = c /\ task[w].gen = row[c].gen

LeaseEnds(c) ==
  /\ row[c].lease = "live"
  /\ row' = [row EXCEPT ![c].lease = "over"]
  /\ IF Held(c) THEN Fault ELSE UNCHANGED faults
  /\ UNCHANGED <<svars, task, scan, wire, applied>>

BackoffEnds(c) ==
  /\ ~row[c].due
  /\ row' = [row EXCEPT ![c].due = TRUE]
  /\ UNCHANGED <<svars, task, scan, wire, applied, faults>>

(* The derived row is lost, in a restored database.                        *)
RowLost(c) ==
  /\ row[c].fact # "absent"
  /\ Fault
  /\ row' = [row EXCEPT ![c] = NoRow]
  /\ UNCHANGED <<svars, task, scan, wire, applied>>

(* The receiver gets a projection, at once or much later.                  *)
Apply(m) ==
  /\ m \in wire
  /\ applied[m.create] < m.rev
  /\ applied' = [applied EXCEPT ![m.create] = m.rev]
  /\ UNCHANGED <<svars, row, task, scan, wire, faults>>

-----------------------------------------------------------------------------
WorkerStep(w) ==
  \/ ScanPage(w)
  \/ \E c \in Creates : Load(w, c)
  \/ Upsert(w)
  \/ EndPage(w)
  \/ NothingDue(w)
  \/ \E c \in Creates : Claim(w, c)
  \/ Send(w)
  \/ AnswerApplied(w)
  \/ WriteBack(w)

WorkerFault(w) ==
  \/ \E c \in Creates : SkipCandidate(w, c)
  \/ AnswerTransportError(w)
  \/ PermanentError(w)
  \/ Crash(w)

SyncNext ==
  \/ Next /\ UNCHANGED <<row, task, scan, wire, applied, faults>>
  \/ \E w \in SyncWorkers : WorkerStep(w) \/ WorkerFault(w)
  \/ \E c \in Creates : LeaseEnds(c) \/ BackoffEnds(c) \/ RowLost(c)
  \/ \E m \in wire : Apply(m)

SyncSpec == SyncInit /\ [][SyncNext]_yvars

(* Every worker steps once a second and no call outlives its timeout; the  *)
(* clock advances; the receiver answers.                                   *)
FairSyncSpec ==
  /\ SyncSpec
  /\ \A w \in SyncWorkers : WF_yvars(WorkerStep(w))
  /\ \A c \in Creates : WF_yvars(LeaseEnds(c)) /\ WF_yvars(BackoffEnds(c))
  /\ WF_yvars(\E m \in wire : Apply(m))

-----------------------------------------------------------------------------
(* An acknowledged revision is one the receiver has applied: the late      *)
(* answer to an old revision never confirms the new one.                   *)
AckedIsApplied == \A c \in Creates : row[c].acked <= applied[c]

(* The receiver is never ahead of the ledger: what it applied as ended has *)
(* ended, whatever was sent, retried, lost and delivered late.             *)
AppliedIsFact == \A c \in Creates : applied[c] <= Rev(fact[c])

(* What a worker derived, stored or claimed was true at some time: it is   *)
(* the fact of today, or the acceptance that preceded it.  A stored        *)
(* revision therefore never conflicts with the derived one.                *)
Justified(f, c) == f = fact[c] \/ (f = "accepted" /\ fact[c] # "absent")

ProjectionsJustified ==
  /\ \A c \in Creates : row[c].fact # "absent" => Justified(row[c].fact, c)
  /\ \A w \in SyncWorkers : task[w].create \in Creates => Justified(task[w].fact, task[w].create)

(* A stored projection is not taken back by a worker that derived it from  *)
(* an older snapshot; only a lost row starts over.                         *)
RevisionsGrow ==
  [][\A c \in Creates :
       row'[c] # NoRow =>
         Rev(row'[c].fact) >= Rev(row[c].fact) /\ row'[c].acked >= row[c].acked]_yvars

(* What makes the above inductive: a row acknowledges no more than it      *)
(* holds, only facts are sent, a positive answer follows the application,  *)
(* and a page lists existing CREATEs.                                      *)
AckedWithinRow == \A c \in Creates : row[c].acked <= Rev(row[c].fact)
WireIsFact     == \A m \in wire : m.rev <= Rev(fact[m.create])
AckIsApplied   == \A w \in SyncWorkers : At(w, "ack") => applied[task[w].create] >= Rev(task[w].fact)
PagesPresent   == \A w \in SyncWorkers : \A c \in page[w] : fact[c] # "absent"

SyncInv ==
  /\ SyncTypeOK
  /\ AckedIsApplied
  /\ AppliedIsFact
  /\ ProjectionsJustified
  /\ AckedWithinRow
  /\ WireIsFact
  /\ AckIsApplied
  /\ PagesPresent

(* The manual: revision 2 for a released GPU presupposes an explicit       *)
(* DELETE.                                                                 *)
EndedHasDelete == \A c \in Creates : row[c].fact = "gpu-fully-released" => c \in deleted

(* An ended usage is reported, or parked with a permanent error, although  *)
(* it may end long after its CREATE was scanned and its row may get lost.  *)
EndIsReported ==
  \A c \in Creates : fact[c] \in Ended ~> row[c].acked = 2 \/ row[c].blocked
=============================================================================
