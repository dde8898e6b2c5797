---------------------------- MODULE QuotaLedger ----------------------------
(***************************************************************************)
(* The quota ledger (data/quota_ledger_repo.go): tenant accounts, the      *)
(* immutable charges of every CREATE, and the durable command rows         *)
(* (QuotaOperation) from which the dispatch workers deliver CREATE and     *)
(* DELETE commands to the owner services.                                  *)
(*                                                                         *)
(* Every exported method of QuotaLedgerRepo that writes is one database    *)
(* transaction.  The ones that touch accounts, charges or cancellation     *)
(* take the tenant row lock first and AckDispatched, MarkUnknown,          *)
(* ResumeDispatch and the two delete rejections are single guarded         *)
(* updates, so that each of them is one atomic action here.                *)
(*                                                                         *)
(* Abstractions:                                                           *)
(*  - a CREATE stands for its resource: resource_id and the idempotency    *)
(*    tuple (tenant, actor, action, key) identify it, and its frozen       *)
(*    request is the constant vector Units[c] (0 = code not charged);      *)
(*  - a DELETE stands for its own idempotency tuple;                       *)
(*  - attempt_count and lease_generation are incremented by one by the     *)
(*    same update (claimQuotaOperation) and by no other, so that the one   *)
(*    counter attempts stands for both;                                    *)
(*  - time is two flags per operation: leased (lease_until is in the       *)
(*    future) and due (next_attempt_at is null or has passed).             *)
(***************************************************************************)
EXTENDS Integers, FiniteSets, FiniteSetsExt

CONSTANTS
  Tenants,     \* tenants holding accounts
  Codes,       \* quota codes
  GpuCodes,    \* the codes isGPUCode accepts
  Creates,     \* CREATE operations, each standing for the resource it creates
  Deletes,     \* DELETE operations
  Events,      \* release event ids the owners may use
  TenantOf,    \* [Creates -> Tenants]
  Kind,        \* [Creates -> Kinds], the owner service and resource kind
  Units,       \* [Creates -> [Codes -> Nat]], the frozen charge vector
  AutoClose,   \* [Creates -> Deletes], the close RejectInferenceImageAndClose derives from the CREATE
  Plans,       \* the quota vectors a plan can be given, a subset of [Codes -> Nat]
  MaxAttempts, \* bound on the claims of one operation in Next
  None         \* no operation

Kinds  == {"vm", "instance", "inference", "modeldev"}
Ops    == Creates \cup Deletes
States == {"QUEUED", "DISPATCHING", "ACKED", "UNKNOWN", "REJECTED", "CANCELED_UNSENT"}
Final  == {"ACKED", "REJECTED", "CANCELED_UNSENT"}

(* Owner services: VM and container instances belong to the one resource   *)
(* owner, so that the owner of a receipt does not tell them apart.         *)
Owner(c) == IF Kind[c] \in {"vm", "instance"} THEN "resource" ELSE Kind[c]

ASSUME ConstantsAssumption ==
  /\ IsFiniteSet(Creates) /\ IsFiniteSet(Codes)
  /\ Creates \cap Deletes = {}
  /\ None \notin Ops
  /\ GpuCodes \subseteq Codes
  /\ TenantOf \in [Creates -> Tenants]
  /\ Kind \in [Creates -> Kinds]
  /\ Units \in [Creates -> [Codes -> Nat]]
  /\ AutoClose \in [Creates -> Deletes]
  /\ \A c1, c2 \in Creates : AutoClose[c1] = AutoClose[c2] => c1 = c2
  /\ Plans \subseteq [Codes -> Nat] /\ Plans # {}
  /\ MaxAttempts \in Nat

VARIABLES
  active,      \* tenant -> status ON and subscription not expired
  plan,        \* tenant -> its plan's quota vector
  occupied,    \* account: tenant -> code -> occupied_units
  released,    \* charge: CREATE -> code -> released_units
  receipts,    \* release receipts
  state,       \* operation -> dispatch_state, "absent" when there is no row
  origin,      \* DELETE -> create_operation_id
  attempts,    \* operation -> attempt_count (and lease_generation)
  leased,      \* operation -> lease_until > now
  due,         \* operation -> next_attempt_at is null or <= now
  blocked,     \* operation -> retry_blocked
  ackJson      \* operation -> None, the operation itself (an owner ACK) or the close of a rejected CREATE

admission == <<active, plan>>
accounts  == <<occupied, released, receipts>>
delivery  == <<state, origin, attempts, leased, due, blocked, ackJson>>
vars      == <<admission, accounts, delivery>>

Charged(c)   == {q \in Codes : Units[c][q] > 0}
Remaining(c) == [q \in Codes |-> Units[c][q] - released[c][q]]

Payloads == [kind : {"complete"}, create : Creates]
              \cup [kind : {"items"}, create : Creates, code : Codes, total : Nat]
Receipts == [tenant : Tenants, owner : {"resource", "inference", "modeldev"},
             event : Events, payload : Payloads]

(***************************************************************************)
(* The type of every column.                                               *)
(***************************************************************************)
TypeOK ==
  /\ active \in [Tenants -> BOOLEAN]
  /\ plan \in [Tenants -> Plans]
  /\ occupied \in [Tenants -> [Codes -> Nat]]
  /\ released \in [Creates -> [Codes -> Nat]]
  /\ receipts \subseteq Receipts
  /\ state \in [Ops -> States \cup {"absent"}]
  /\ origin \in [Deletes -> Creates \cup {None}]
  /\ attempts \in [Ops -> Nat]
  /\ leased \in [Ops -> BOOLEAN]
  /\ due \in [Ops -> BOOLEAN]
  /\ blocked \in [Ops -> BOOLEAN]
  /\ ackJson \in [Ops -> Ops \cup {None}]

(* An empty ledger. *)
LedgerInit ==
  /\ active = [t \in Tenants |-> TRUE]
  /\ plan \in [Tenants -> Plans]
  /\ occupied = [t \in Tenants |-> [q \in Codes |-> 0]]
  /\ released = [c \in Creates |-> [q \in Codes |-> 0]]
  /\ receipts = {}
  /\ state = [o \in Ops |-> "absent"]
  /\ origin = [d \in Deletes |-> None]
  /\ attempts = [o \in Ops |-> 0]
  /\ leased = [o \in Ops |-> FALSE]
  /\ due = [o \in Ops |-> TRUE]
  /\ blocked = [o \in Ops |-> FALSE]
  /\ ackJson = [o \in Ops |-> None]

-----------------------------------------------------------------------------
(* Platform administration: a tenant is switched on or off, or expires.    *)
SetTenantActive(t, on) ==
  /\ active' = [active EXCEPT ![t] = on]
  /\ UNCHANGED <<plan, accounts, delivery>>

(* A plan quota is edited or the tenant moves to another plan.  Neither    *)
(* looks at what is occupied.                                              *)
ChangePlan(t, p) ==
  /\ plan' = [plan EXCEPT ![t] = p]
  /\ UNCHANGED <<active, accounts, delivery>>

(* Admission of one CREATE: every item fits the plan, or nothing is taken. *)
(* A replay of an existing row changes nothing and is not a step.          *)
(* (mutant: the occupied units are forgotten)                              *)
FitsAlone(c) == \A q \in Charged(c) : Units[c][q] <= plan[TenantOf[c]][q]

Fits(c) ==
  \A q \in Charged(c) :
    /\ Units[c][q] <= plan[TenantOf[c]][q]
    /\ occupied[TenantOf[c]][q] <= plan[TenantOf[c]][q] - Units[c][q]

Occupy(c) ==
  /\ state[c] = "absent"
  /\ active[TenantOf[c]]
  /\ Fits(c)
  /\ occupied' = [occupied EXCEPT ![TenantOf[c]] = [q \in Codes |-> @[q] + Units[c][q]]]
  /\ state' = [state EXCEPT ![c] = "QUEUED"]
  /\ UNCHANGED <<admission, released, receipts, origin, attempts, leased, due, blocked, ackJson>>

-----------------------------------------------------------------------------
(* (mutant: a cumulative total is taken for a delta)                       *)
RefundTotals(c, totals) ==
  /\ \A q \in Codes : occupied[TenantOf[c]][q] >= totals[q]
  /\ occupied' = [occupied EXCEPT ![TenantOf[c]] = [q \in Codes |-> @[q] - totals[q]]]
  /\ released' = [released EXCEPT ![c] = totals]

(* changeAccount: an account never goes negative; a refund that would take *)
(* it below zero fails the whole transaction.                              *)
Refund(c, totals) ==
  LET delta == [q \in Codes |-> totals[q] - released[c][q]] IN
  /\ \A q \in Codes : occupied[TenantOf[c]][q] >= delta[q]
  /\ occupied' = [occupied EXCEPT ![TenantOf[c]] = [q \in Codes |-> @[q] - delta[q]]]
  /\ released' = [released EXCEPT ![c] = totals]

Receipt(c, e, payload) ==
  [tenant |-> TenantOf[c], owner |-> Owner(c), event |-> e, payload |-> payload]

(* The lookup by (tenant, owner, event): the event was already applied or  *)
(* names another payload, and changes nothing either way.                  *)
EventUsed(c, e) ==
  \E r \in receipts : r.tenant = TenantOf[c] /\ r.owner = Owner(c) /\ r.event = e

(* (mutant: the last total to arrive wins)                                 *)
ReleaseItemLast(c, e, q, total) ==
  /\ state[c] # "absent"
  /\ ~EventUsed(c, e)
  /\ q \in Charged(c) \ GpuCodes
  /\ Refund(c, [released[c] EXCEPT ![q] = total])
  /\ receipts' = receipts \cup
       {Receipt(c, e, [kind |-> "items", create |-> c, code |-> q, total |-> total])}
  /\ UNCHANGED <<admission, delivery>>

(* (mutant: a total is added to what was given back before)                *)
ReleaseItemAdds(c, e, q, total) ==
  /\ state[c] # "absent"
  /\ ~EventUsed(c, e)
  /\ q \in Charged(c) \ GpuCodes
  /\ released[c][q] + total <= Units[c][q]
  /\ Refund(c, [released[c] EXCEPT ![q] = @ + total])
  /\ receipts' = receipts \cup
       {Receipt(c, e, [kind |-> "items", create |-> c, code |-> q, total |-> total])}
  /\ UNCHANGED <<admission, delivery>>

(* Release of one charge to a cumulative total (ReportQuotaRelease, which  *)
(* refuses GPU codes).  Totals arrive in any order: a smaller one adds 0.  *)
ReleaseItem(c, e, q, total) ==
  /\ state[c] # "absent"
  /\ ~EventUsed(c, e)
  /\ q \in Charged(c) \ GpuCodes
  /\ total \in 0 .. Units[c][q]
  /\ Refund(c, [released[c] EXCEPT ![q] = IF total > @ THEN total ELSE @])
  /\ receipts' = receipts \cup
       {Receipt(c, e, [kind |-> "items", create |-> c, code |-> q, total |-> total])}
  /\ UNCHANGED <<admission, delivery>>

(* Complete release (ReportResourceReleased): every charge to its original *)
(* units.  The receipt id is derived from the event alone, so that a       *)
(* complete event is used once across all tenants and owners.              *)
ReleaseComplete(c, e) ==
  /\ state[c] # "absent"
  /\ Charged(c) # {}
  /\ ~EventUsed(c, e)
  /\ \A r \in receipts : ~(r.event = e /\ r.payload.kind = "complete")
  /\ Refund(c, Units[c])
  /\ receipts' = receipts \cup {Receipt(c, e, [kind |-> "complete", create |-> c])}
  /\ UNCHANGED <<admission, delivery>>

-----------------------------------------------------------------------------
(* (mutants: a retry that is not under way, or a claim, counts as unsent)  *)
UnsentOrUnknown(c) == state[c] \in {"QUEUED", "UNKNOWN"}
UnsentOrClaimed(c) == state[c] \in {"QUEUED", "DISPATCHING"}

(* cancelLocked: a CREATE no worker has ever claimed is withdrawn and      *)
(* refunded in one transaction.                                            *)
Unsent(c)  == state[c] = "QUEUED" /\ attempts[c] = 0
Settled(c) == state[c] = "CANCELED_UNSENT" /\ attempts[c] = 0 /\ released[c] = Units[c]

CancelLocked(c) ==
  \/ /\ Settled(c)
     /\ UNCHANGED <<occupied, released>>
  \/ /\ Unsent(c)
     /\ Refund(c, Units[c])

CancelUnsent(c) ==
  /\ Unsent(c)
  /\ CancelLocked(c)
  /\ state' = [state EXCEPT ![c] = "CANCELED_UNSENT"]
  /\ UNCHANGED <<admission, receipts, origin, attempts, leased, due, blocked, ackJson>>

(* A DELETE of the same VM or container instance that is not REJECTED.     *)
ActiveDelete(c, d) == origin[d] = c /\ state[d] # "REJECTED"
Guarded(c)         == Kind[c] \in {"vm", "instance"}

(* An inference CREATE whose automatic close is durable: any later close   *)
(* is answered with that one.                                              *)
ClosedByRejection(c) ==
  Kind[c] = "inference" /\ state[c] = "REJECTED" /\ ackJson[c] # None

(* (mutant: a DELETE whose outcome is unknown does not block the next one) *)
CreateDeleteIgnoringUnknown(c, d) ==
  /\ origin[d] = None
  /\ state[c] # "absent"
  /\ Guarded(c) => \A x \in Deletes : ~(ActiveDelete(c, x) /\ state[x] # "UNKNOWN")
  /\ origin' = [origin EXCEPT ![d] = c]
  /\ state' = [state EXCEPT ![d] = "QUEUED"]
  /\ UNCHANGED <<admission, accounts, attempts, leased, due, blocked, ackJson>>

(* createDeleteOperationTx for a new idempotency key.  Replays, conflicts  *)
(* and the answer of ClosedByRejection write nothing.                      *)
CreateDeleteOperation(c, d) ==
  LET local == state[c] = "CANCELED_UNSENT" \/ Unsent(c) IN
  /\ origin[d] = None
  /\ state[c] # "absent"
  /\ Kind[c] # "modeldev"
  /\ ~ClosedByRejection(c)
  /\ Guarded(c) => \A x \in Deletes : ~ActiveDelete(c, x)
  /\ origin' = [origin EXCEPT ![d] = c]
  /\ \/ /\ local
        /\ CancelLocked(c)
        /\ state' = [state EXCEPT ![c] = "CANCELED_UNSENT", ![d] = "CANCELED_UNSENT"]
     \/ /\ ~local
        /\ state' = [state EXCEPT ![d] = "QUEUED"]
        /\ UNCHANGED <<occupied, released>>
  /\ UNCHANGED <<admission, receipts, attempts, leased, due, blocked, ackJson>>

-----------------------------------------------------------------------------
CreateOf(o) == IF o \in Creates THEN o ELSE origin[o]

(* (mutant: an expired lease is not taken over)                            *)
DispatchDueOnce(o) ==
  /\ state[o] # "absent"
  /\ Kind[CreateOf(o)] # "modeldev"
  /\ ~blocked[o]
  /\ due[o]
  /\ state[o] \in {"QUEUED", "UNKNOWN"}

(* quotaDispatchDue.  A ModelDev operation carries accounting only and is  *)
(* never dispatched from this queue.                                       *)
DispatchDue(o) ==
  /\ state[o] # "absent"
  /\ Kind[CreateOf(o)] # "modeldev"
  /\ ~blocked[o]
  /\ due[o]
  /\ \/ state[o] \in {"QUEUED", "UNKNOWN"}
     \/ state[o] = "DISPATCHING" /\ ~leased[o]

(* (mutant: the generation of a taken over operation stays the same)       *)
ClaimSameGeneration(o) ==
  /\ DispatchDue(o)
  /\ state' = [state EXCEPT ![o] = "DISPATCHING"]
  /\ attempts' = [attempts EXCEPT ![o] = IF state[o] = "DISPATCHING" THEN @ ELSE @ + 1]
  /\ leased' = [leased EXCEPT ![o] = TRUE]
  /\ UNCHANGED <<admission, accounts, origin, due, blocked, ackJson>>

(* ClaimDispatchable: the candidate list is read in another transaction,   *)
(* so the claim re-checks the whole due predicate.                         *)
ClaimDispatchable(o) ==
  /\ DispatchDue(o)
  /\ state' = [state EXCEPT ![o] = "DISPATCHING"]
  /\ attempts' = [attempts EXCEPT ![o] = @ + 1]
  /\ leased' = [leased EXCEPT ![o] = TRUE]
  /\ UNCHANGED <<admission, accounts, origin, due, blocked, ackJson>>

(* The fence of every write-back: the row is still DISPATCHING under the   *)
(* generation the worker claimed.                                          *)
Fence(o, g) == state[o] = "DISPATCHING" /\ attempts[o] = g

AckDispatched(o, g) ==
  /\ Fence(o, g)
  /\ state' = [state EXCEPT ![o] = "ACKED"]
  /\ ackJson' = [ackJson EXCEPT ![o] = o]
  /\ UNCHANGED <<admission, accounts, origin, attempts, leased, due, blocked>>

(* (mutant: the update matches the operation id only)                      *)
MarkUnknownUnfenced(o, g, permanent) ==
  /\ state' = [state EXCEPT ![o] = "UNKNOWN"]
  /\ due' = [due EXCEPT ![o] = FALSE]
  /\ blocked' = [blocked EXCEPT ![o] = permanent]
  /\ UNCHANGED <<admission, accounts, origin, attempts, leased, ackJson>>

MarkUnknown(o, g, permanent) ==
  /\ Fence(o, g)
  /\ state' = [state EXCEPT ![o] = "UNKNOWN"]
  /\ due' = [due EXCEPT ![o] = FALSE]
  /\ blocked' = [blocked EXCEPT ![o] = permanent]
  /\ UNCHANGED <<admission, accounts, origin, attempts, leased, ackJson>>

(* (mutant: the operation is queued afresh)                                *)
ResumeToQueued(o) ==
  /\ blocked[o]
  /\ state' = [state EXCEPT ![o] = "QUEUED"]
  /\ blocked' = [blocked EXCEPT ![o] = FALSE]
  /\ due' = [due EXCEPT ![o] = TRUE]
  /\ UNCHANGED <<admission, accounts, origin, attempts, leased, ackJson>>

(* The operator's recovery primitive; it does not look at dispatch_state.  *)
ResumeDispatch(o) ==
  /\ blocked[o]
  /\ blocked' = [blocked EXCEPT ![o] = FALSE]
  /\ due' = [due EXCEPT ![o] = TRUE]
  /\ UNCHANGED <<admission, accounts, state, origin, attempts, leased, ackJson>>

(* RejectInstanceDeleteVersion and RejectVMDeleteVersion.  Only the first  *)
(* one asks for a live lease.                                              *)
RejectDeleteVersion(d, g) ==
  /\ Fence(d, g)
  /\ origin[d] # None
  /\ Guarded(origin[d])
  /\ Kind[origin[d]] = "instance" => leased[d] /\ ackJson[d] = None
  /\ state' = [state EXCEPT ![d] = "REJECTED"]
  /\ blocked' = [blocked EXCEPT ![d] = FALSE]
  /\ due' = [due EXCEPT ![d] = TRUE]
  /\ leased' = [leased EXCEPT ![d] = FALSE]
  /\ UNCHANGED <<admission, accounts, origin, attempts, ackJson>>

(* RejectInferenceImageAndClose: the CREATE is REJECTED, and in the same   *)
(* transaction a close is attached: the user's that is already there, or   *)
(* a new one under the key derived from the CREATE.                        *)
AttachedClose(c) == {d \in Deletes : ActiveDelete(c, d)}

(* (mutant: the close is left to a later transaction)                      *)
RejectInferenceOnly(c, g) ==
  /\ Kind[c] = "inference"
  /\ Fence(c, g)
  /\ ackJson' = [ackJson EXCEPT ![c] = AutoClose[c]]
  /\ state' = [state EXCEPT ![c] = "REJECTED"]
  /\ blocked' = [blocked EXCEPT ![c] = TRUE]
  /\ leased' = [leased EXCEPT ![c] = FALSE]
  /\ UNCHANGED <<admission, accounts, origin, attempts, due>>

RejectInferenceImageAndClose(c, g) ==
  /\ Kind[c] = "inference"
  /\ Fence(c, g)
  /\ \/ /\ AttachedClose(c) # {}
        /\ \E d \in AttachedClose(c) : ackJson' = [ackJson EXCEPT ![c] = d]
        /\ state' = [state EXCEPT ![c] = "REJECTED"]
        /\ UNCHANGED origin
     \/ /\ AttachedClose(c) = {}
        /\ origin[AutoClose[c]] = None
        /\ ackJson' = [ackJson EXCEPT ![c] = AutoClose[c]]
        /\ state' = [state EXCEPT ![c] = "REJECTED", ![AutoClose[c]] = "QUEUED"]
        /\ origin' = [origin EXCEPT ![AutoClose[c]] = c]
  /\ blocked' = [blocked EXCEPT ![c] = TRUE]
  /\ due' = [due EXCEPT ![c] = TRUE]
  /\ leased' = [leased EXCEPT ![c] = FALSE]
  /\ UNCHANGED <<admission, accounts, attempts>>

-----------------------------------------------------------------------------
(* The passage of time: a lease runs out, a back-off is over.              *)
LeaseExpires(o) ==
  /\ leased[o]
  /\ leased' = [leased EXCEPT ![o] = FALSE]
  /\ UNCHANGED <<admission, accounts, state, origin, attempts, due, blocked, ackJson>>

BackoffOver(o) ==
  /\ ~due[o]
  /\ due' = [due EXCEPT ![o] = TRUE]
  /\ UNCHANGED <<admission, accounts, state, origin, attempts, leased, blocked, ackJson>>

-----------------------------------------------------------------------------
UserDeletes == Deletes \ {AutoClose[c] : c \in Creates}

(* What users, administrators and the clock do to the ledger.              *)
Request ==
  \/ \E t \in Tenants : \E on \in BOOLEAN : SetTenantActive(t, on)
  \/ \E t \in Tenants : \E p \in Plans : ChangePlan(t, p)
  \/ \E c \in Creates : Occupy(c)
  \/ \E c \in Creates : CancelUnsent(c)
  \/ \E c \in Creates : \E d \in UserDeletes : CreateDeleteOperation(c, d)
  \/ \E o \in Ops : ResumeDispatch(o)

Clock ==
  \/ \E o \in Ops : LeaseExpires(o)
  \/ \E o \in Ops : BackoffOver(o)

(* What an owner may report: any total of any charge, any number of times. *)
OwnerReport ==
  \/ \E c \in Creates : \E e \in Events : \E q \in Codes :
       \E total \in 0 .. Units[c][q] : ReleaseItem(c, e, q, total)
  \/ \E c \in Creates : \E e \in Events : ReleaseComplete(c, e)

(* What a worker may write back, under any generation it ever held.        *)
WriteBack ==
  \/ \E o \in Ops : \E g \in 1 .. attempts[o] : AckDispatched(o, g)
  \/ \E o \in Ops : \E g \in 1 .. attempts[o] : \E b \in BOOLEAN : MarkUnknown(o, g, b)
  \/ \E d \in Deletes : \E g \in 1 .. attempts[d] : RejectDeleteVersion(d, g)
  \/ \E c \in Creates : \E g \in 1 .. attempts[c] : RejectInferenceImageAndClose(c, g)

Next ==
  \/ Request
  \/ Clock
  \/ OwnerReport
  \/ \E o \in Ops : attempts[o] < MaxAttempts /\ ClaimDispatchable(o)
  \/ WriteBack

Spec == LedgerInit /\ [][Next]_vars

-----------------------------------------------------------------------------
(* Safety properties.                                                      *)

(* RecomputeInvariants: every account holds exactly what the charges of    *)
(* its tenant have not given back yet, whatever the order of admission,    *)
(* partial and complete releases, local cancellation and deletion.         *)
Balanced ==
  \A t \in Tenants : \A q \in Codes :
    LET mine == {c \in Creates : TenantOf[c] = t /\ state[c] # "absent"}
    IN  occupied[t][q] = MapThenSumSet(LAMBDA c : Remaining(c)[q], mine)

(* A VM or container instance has at most one DELETE that its owner may    *)
(* still execute: createDeleteOperationTx checks under the tenant lock,    *)
(* while claims, rejections and ACKs of the earlier DELETE race with it.   *)
SingleActiveDelete ==
  \A c \in Creates : Guarded(c) =>
    \A d1, d2 \in Deletes : ActiveDelete(c, d1) /\ ActiveDelete(c, d2) => d1 = d2

(* A rejected inference CREATE always names a close of its own that will   *)
(* be, or has been, delivered: no crash between rejection and close can    *)
(* strand the resource.                                                    *)
RejectedHasClose ==
  \A c \in Creates : state[c] = "REJECTED" =>
    /\ ackJson[c] \in Deletes
    /\ origin[ackJson[c]] = c
    /\ state[ackJson[c]] \in {"QUEUED", "DISPATCHING", "UNKNOWN", "ACKED"}

(* A locally canceled CREATE was never claimed and is refunded in full,    *)
(* and every DELETE of it is canceled locally as well.                     *)
CanceledIsSettled ==
  \A c \in Creates : state[c] = "CANCELED_UNSENT" =>
    /\ attempts[c] = 0
    /\ released[c] = Units[c]
    /\ \A d \in Deletes : origin[d] = c => state[d] = "CANCELED_UNSENT"

(* What makes the above inductive.  No charge gives back more than it was, *)
(* and a row that does not exist has given nothing back.                   *)
ChargesBounded ==
  \A c \in Creates : \A q \in Codes :
    /\ released[c][q] <= Units[c][q]
    /\ state[c] = "absent" => released[c][q] = 0

(* A row is a DELETE exactly if it has an origin; an operation counts its  *)
(* claims from the first; a DELETE follows its CREATE into local           *)
(* cancellation and never precedes the first claim of a CREATE otherwise.  *)
CommandShape ==
  /\ \A d \in Deletes : origin[d] = None <=> state[d] = "absent"
  /\ \A o \in Ops : attempts[o] = 0 <=> state[o] \in {"absent", "QUEUED", "CANCELED_UNSENT"}
  /\ \A d \in Deletes : \A c \in Creates : origin[d] = c =>
       /\ state[c] \notin {"absent", "QUEUED"}
       /\ state[d] = "CANCELED_UNSENT" <=> state[c] = "CANCELED_UNSENT"
  /\ \A c \in Creates : state[c] = "REJECTED" => Kind[c] = "inference"

(* The inductive invariant of the ledger: what its transactions rely on    *)
(* when they find a row in some state, for every order of requests,        *)
(* claims, write-backs of any generation and release reports.              *)
LedgerInv ==
  /\ TypeOK
  /\ ChargesBounded
  /\ CommandShape
  /\ CanceledIsSettled
  /\ RejectedHasClose
  /\ SingleActiveDelete

(* An account only grows by an admission to an active tenant, and then not *)
(* beyond the plan in force, even though plans shrink under live charges.  *)
AdmissionWithinPlan ==
  [][\A t \in Tenants : \A q \in Codes :
       occupied'[t][q] > occupied[t][q] =>
         active[t] /\ occupied'[t][q] <= plan[t][q]]_vars

(* What is refunded stays refunded and a decided operation stays decided:  *)
(* no late write-back, replayed or reordered event takes it back.          *)
NothingTakenBack ==
  [][/\ \A c \in Creates : \A q \in Codes : released'[c][q] >= released[c][q]
     /\ \A o \in Ops : state[o] \in Final => state'[o] = state[o]]_vars

(* Two receipts claim one event: the same owner and tenant, or two         *)
(* complete events, whose ids are unique across tenants and owners.        *)
SameEvent(r1, r2) ==
  /\ r1.event = r2.event
  /\ \/ r1.tenant = r2.tenant /\ r1.owner = r2.owner
     \/ r1.payload.kind = "complete" /\ r2.payload.kind = "complete"

(* The cumulative total of a code that a receipt reports.                  *)
Reported(r, q) ==
  IF r.payload.kind = "complete" THEN Units[r.payload.create][q]
  ELSE IF r.payload.code = q THEN r.payload.total
  ELSE 0

(* No total that was reported is lost.                                     *)
TotalsKept == \A r \in receipts : \A q \in Codes : Reported(r, q) <= released[r.payload.create][q]

(* Only a local cancellation refunds what no receipt reports.              *)
RefundsReported ==
  \A c \in Creates : \A q \in Codes :
    released[c][q] > 0 /\ state[c] # "CANCELED_UNSENT" =>
      \E r \in receipts : r.payload.create = c /\ Reported(r, q) = released[c][q]

EventsDistinct == \A r1, r2 \in receipts : SameEvent(r1, r2) => r1 = r2

(* What a charge has given back is the highest total among the receipts of *)
(* its CREATE and nothing else, unless that was canceled locally, and each *)
(* event has one receipt.  A charge therefore depends on the set of events *)
(* that arrived and not on their order, and an event that is sent again,   *)
(* also with another payload or for another CREATE, refunds nothing more.  *)
RefundsFollowReceipts == TotalsKept /\ RefundsReported /\ EventsDistinct

(* The ledger implements the abstract accounting: commands, workers,       *)
(* receipts, replays and cancellations add nothing to what it promises.    *)
Accounting == INSTANCE QuotaAccounting WITH
  held     <- [c \in Creates |-> IF state[c] = "absent" THEN [q \in Codes |-> 0]
                                                        ELSE Remaining(c)],
  admitted <- {c \in Creates : state[c] # "absent"}

ImplementsAccounting == Accounting!Spec
=============================================================================
