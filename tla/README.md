# Verification of ANI Governance

TLA+ models of the parts of the governance service in which something has to
stay true across transactions, processes and remote services: the quota ledger
and the delivery of its commands, the projection of GPU usage, the delivery of
model-development executions, the spaces of tenants with the sandboxes in
them, the order in which workers claim what is due, and the sessions of users.
TLC checks the models on small instances; TLAPS proves their invariants
for every value of the constants. Paths below are relative to the repository;
`data/`, `service/` and `server/` stand for
`app/admin/service/internal/{data,service,server}/`.

Run a model with `tlc -config <run>.cfg <MC module>` and a proof with
`tlapm <module>Proofs.tla`. `PROJECT.json` maps every definition to its lines.

## 1. Inventory

The service is a back end for a platform: it authenticates users, keeps
tenants, plans and quotas in a relational database, and passes commands on to
the services that own resources (Resource, Inference, ModelDev, Accelerator).
Any number of processes run the same binary on one database and one Redis;
nothing is shared between them but rows and keys. Four background loops per process deliver what
requests have persisted.

```
 requests ──> Quota ledger <──claim/ack── Dispatch workers ──RPC──> Resource, Inference
     |         |  ^     ^                                             |
     |         |  |     +────────── release reports (outbox) ─────────+
     |         |  +── quota operation of a GPU execution
     |         v                    |
     |   facts of GPU usage     ModelDev rows <──claim/ack── ModelDev worker ──RPC──> ModelDev
     |         |
     |         +──> Usage sync worker ──RPC──> Accelerator
     +──> Tenants <──claim── Space worker ──RPC──> Resource
            ^── tenant lock ──  Sandbox intents <──claim── Courier ──RPC──> Resource

 login, refresh, csrf, logout, revocation ──scripts, SCAN, DEL──> Redis: pairs, pointers, proofs, challenges
```

### Components modelled

**Quota ledger** (`data/quota_ledger_repo.go`, `quota_ent.go`,
`inference_image_rejection.go`, `vm_delete_guard.go`).
*State*: accounts (tenant, code → occupied units), charges of every CREATE
(units, released units), release receipts, command rows (`QuotaOperation`: dispatch
state, attempts, lease generation, lease, next attempt, retry block).
*Operations*: Occupy, Release (items and complete), CancelUnsent,
CreateDeleteOperation, ClaimDispatchable, AckDispatched, MarkUnknown,
ResumeDispatch, two version rejections of a DELETE, rejection of an inference
image with its close.
*Interacts* with requests, dispatch workers, owners' release reports and the
usage sync, all through transactions on the same rows.
*Hard*: a local cancellation (with refund) racing a claim; cumulative totals and
complete events duplicated and out of order; write-backs under an old lease;
a rejection that must carry its own close.
*Correct when* accounts equal what the charges still hold; a canceled CREATE was
never claimed; decisions and refunds are never taken back; at most one DELETE of
a VM or instance is active; a rejected inference CREATE has a close.

**Quota dispatch worker** (`service/quota_dispatch_worker.go`).
*State*: the claim in hand. *Operations*: claim, send, take the answer, write
back, stop. *Hard*: the command is on the wire outside any transaction; lost,
late and ambiguous answers; leases overrun; crashes between the steps.
*Correct when* a live resource is always charged, a canceled command is never
sent, and what the ledger records is what the owner decided; every command is
decided or parked.

**GPU usage projection** (`data/quota_gpu_sync_repo.go`,
`service/gpu_usage_sync_worker.go`). *State*: one sync row per CREATE (revision,
acknowledged revision, generation, lease, due, block); per process a page, a
cursor and a record in hand. *Operations*: scan, load, derive, upsert, claim,
send, acknowledge, retry, block. *Hard*: snapshots taken before a usage ends are
stored after it; rows are lost and rebuilt; answers to old revisions come late.
*Correct when* nothing is acknowledged that was not applied, revisions only grow,
and an ended usage is reported.

**Model-development delivery** (`data/modeldev_{acceptance,dispatch,close}_repo.go`,
`modeldev_gpu_delivery.go`, `service/modeldev_{dispatch,close_dispatch}_worker.go`,
`modeldev_create_maintenance.go`). *State*: an acceptance row with a create and a
close delivery, the quota operation of a GPU execution, the gate, the worker.
*Operations*: AcceptFrozen, AcceptStop, claim/ack/defer of both deliveries,
pausing and draining a process. *Hard*: a Stop before the first send; two rows
that must be acknowledged together; draining while a creation is being claimed.
*Correct when* an execution stopped unsent never runs, delivery and ledger agree,
a drained process is quiet, and every delivery is acknowledged or parked.

**Tenant spaces and sandbox creation** (`data/tenant_space_dispatch.go`,
`tenant_space_close.go`, `sandbox_parent_fence.go`, `tenant_space_client.go`,
`service/tenant_space_*.go`, `sandbox_service.go`, `sandbox_dispatch_worker.go`).
*State*: a tenant's space columns and status, sandbox create intents, calls under
way. *Operations*: open (leased), close (unleased), the close intent of delete
and cleanup, register, replay, claim, look up, acknowledge, retry of creations.
*Hard*: registration and close meet only in the tenant's row lock; closes run
without a lease; creations time out and arrive late.
*Correct when* no sandbox appears in a space that is being closed, the recorded
state of a space holds at Resource, and openings, closes and intents settle.

**Order of claims** (`data/quota_ledger_repo.go:821-834`,
`data/tenant_space_dispatch.go:28-71`, `service/quota_dispatch_worker.go`,
`service/tenant_space_worker.go`). *State*: due times of rows, and the call or the
pause each worker is in. *Hard*: the due row of the lowest rank comes first, one at
a time, and a row that fails comes back before all later ones.
*Correct when* no two workers hold one row and rows that never succeed do not
starve the others, as long as they are few enough.

**Session tokens and the login challenge** (`data/user_token_cache.go`,
`authenticator.go`, `mfa_challenge_cache.go`, `service/authentication_service.go`,
`mfa_service.go`, `session_meta.go`, `online_session_service.go`). *State* in Redis,
per user and client type: access token, refresh token and session record of a
token id, the pointer of a session to its current id, its CSRF proof, its login
challenge. *Operations*: login with or without second factor, bind, record,
refresh in two phases, CSRF proof, logout (one script), revocation of all tokens
(five passes of SCAN and DEL), revocation by token id (three calls), expiry.
*Hard*: a refresh is prepared long before it commits; revocation is not atomic;
two requests redeem one challenge. *Correct when* a session has one pair at a
time, each pair is replaced at most once, and a session that was logged out or
revoked never resumes.

**Tenants and plan quotas** (`data/plan_quota_repo.go`, `tenant_repo.go`,
`tenant_usage_repo.go`) appear in two models by what they decide there: activity
and the quota vector of admission (`SetTenantActive`, `ChangePlan`), and the
operations that open and close spaces.

### Components not modelled

| Component | Why |
|---|---|
| Login policy, rate limiter; checks of credentials, captcha and codes; enrolment of a factor | one atomic script or one comparison per operation; they decide only whether a login goes on |
| Plans and tenant management, users, memberships, roles, access keys, organisation, menus, dictionaries, configuration | relational CRUD, one transaction each |
| Permissions and authorization engine | policy evaluation by a third-party engine over reloaded tables |
| Managed and GPU admission services, command contract | validation, canonical JSON and digests in front of the ledger; no state of their own |
| Network, storage, image, model facades; monitoring, logs, usage queries | stateless pass-through or read-only |
| Audit logs, task scheduling, messages | append-only rows, a thin wrapper of a library, push whose loss is allowed |
| Servers and middleware, generated code, local dependencies | wiring, generated, third party |

## 2. Plan

Done, in this order of importance:

1. `QuotaLedger`, with `QuotaAccounting` as its abstract specification.
2. `QuotaDispatch` = ledger + workers + owners.
3. `UsageSource` (abstract; implemented by 2) and `GpuUsageSync` on top of it.
4. `ModelDevDelivery`.
5. `TenantSpace`.
6. `SessionTokens`, and `SessionLife` (abstract) which it implements.
7. `ClaimOrder`.
8. Proofs of the inductive invariants, action properties and refinements of all seven:
   every safety property a run checks is a theorem.
9. Theorems about the whole: the ledger's promises carried to the system of workers and
   owners, what runs against what quota allows, and the usage projection beside both.

Left:

10. Release of several charges in one request, and GPU delete acceptances, in
   `QuotaLedger`.
11. A composition of `ModelDevDelivery` with `QuotaLedger` through the shared
    operation row, replacing the `quota` variable by the ledger's.
12. A specification of the two lease-fenced deliveries (dispatch, model development)
    that both implement.
13. In `ClaimOrder`, the close call a space worker makes before each opening, and the
    queue of model development, in which closes come before creations.
14. The expiry scan's stale list of tenants (`data/tenant_usage_repo.go:377`).

## 3. Modules

| Module | Models | Composes |
|---|---|---|
| `QuotaLedger` | one action per writing transaction of the ledger | – |
| `QuotaAccounting` | what the ledger promises about units (abstract) | – |
| `QuotaDispatch` | workers, wire and owners around the ledger | EXTENDS `QuotaLedger` |
| `UsageSource` | the facts the projection reads: absent → accepted → one of two ends (abstract) | – |
| `GpuUsageSync` | scan and delivery of the projection | EXTENDS `UsageSource` |
| `ModelDevDelivery` | executions, both deliveries, ledger receipt, drain | – |
| `TenantSpace` | spaces, close intents, sandbox intents | – |
| `SessionLife` | a session is new, open with one pair at a time, over (abstract) | – |
| `SessionTokens` | the keys of sessions in Redis and the requests on them | – |
| `ClaimOrder` | rank, delays, leases, calls and pauses of a claim queue, in ticks | – |
| `…Proofs` | theorems and proofs of the module they are named after | EXTENDS it and `TLAPS`; `QuotaDispatchProofs` also EXTENDS `QuotaLedgerProofs` and INSTANCEs `GpuUsageSyncProofs` |
| `SumTheorems` | lemmas about the sum of a function over a finite set, for the accounts | EXTENDS `FiniteSetTheorems`, `TLAPS` |
| `MC…` | constants for TLC | EXTENDS the module |

Refinements: `QuotaLedger` implements `QuotaAccounting` (`held` is units minus
released, `admitted` the existing rows). `QuotaDispatch` implements `UsageSource`
(the fact of a CREATE is computed from its state and its GPU charges), so that
what `GpuUsageSync` assumes of its source is what the ledger and the workers do.
`SessionTokens` implements `SessionLife` (`current` is the pointer; a session is
over when an id was signed for it and it has no pointer).

### State and code

* **QuotaLedger.** `occupied` is the account row, `released` the charge row,
  `receipts` the release receipts, `state/attempts/leased/due/blocked/ackJson/origin`
  the columns of an operation. A CREATE is identified with its resource and its
  idempotency tuple, its frozen request is the constant `Units`. `attempt_count`
  and `lease_generation` are incremented together by one statement and nowhere else, so `attempts`
  is both. `AutoClose[c]` is the close whose key the rejection derives from `c`.
  In `Spec` write-backs come under any generation ever claimed; in
  `QuotaDispatch` they come from workers.
* **QuotaDispatch.** `claim[w]` is what `dispatchOne` holds; `sent` is what reached
  the wire at any time (a call that was given up may still arrive); `accepted`,
  `refused`, `resource` are the owner's. `Outcome` is the switch on the answer,
  `Stale` the fence that rejects a write-back.
* **GpuUsageSync.** `row` is the sync row, `task/page/full/cursor` the worker object,
  `wire` what may still arrive, `applied` the receiver. Every transaction of a step
  (scan, load, upsert, claim, write-back) is an action.
* **ModelDevDelivery.** A delivery is a record (state, count, holder, live, waiting,
  blocked, receipt); `count` is attempt and generation, bounded by `MaxCount`, which
  stands for `math.MaxInt64`: a row at the limit is parked as in the code. The close
  delivery of an execution has the shape of its creation. `unsent` is a history
  variable: executions stopped before any claim.
* **TenantSpace.** `space[t]` holds the state, lease holder, `live` and `waiting`
  of the row; `worker` and `sender` the calls under way; `wire` what Resource may
  still get. Generations are left out: a holder's name is unique to a process
  lifetime and a holder has one claim at a time, so that name and live lease decide
  the fence. `DELETED` tenants are not reused. `bar[s]` says why no delivery of a creation
  can succeed any more: Resource has refused it and refuses it for ever (`ResourceRefuses`,
  at every later delivery and no fault), or the stored command fails the checks every delivery
  starts with (`CommandUnverified`, `service/sandbox_service.go:174-183`). Both go the
  way of the code: look the sandbox up once more or return the error, and schedule the intent again.
  A sandbox that Resource finds under the name of an intent is taken to be the intent's own.

* **SessionTokens.** `at`, `rt` and `us` are the key families of a token id, `ptr` the
  key `sid:…`, `proof` the keys `csr:…` by their last part, which is a session id or, in
  the logout script, a token id. `owner` is the session signed into a token, `given`
  the refresh tokens that reached a client and have not expired (a client may send any
  of them, also a replaced one). `req` is what a handler remembers between two Redis
  calls. A SCAN lists every key there when it begins, and may list a key that was
  added meanwhile: `ScanKeys` takes the list, `DeleteKeys` deletes it and any later keys. `parent`,
  `loggedOut`, `revoked` and `promised` are history. One user and client type:
  keys of others have nothing in common with them.
* **ClaimOrder.** A row has its state, ticks until it may be claimed, and its back-off;
  a worker has its row, the ticks of its call and of its pause. A `profile` holds the
  numbers of one queue. Unlike in the other models, time is explicit and no
  row has fairness of its own.

Abstractions common to all but `ClaimOrder`: time is a flag per deadline (`leased`/`live`, `due`/
`waiting`) that may change at any moment; ids, digests, payload contents and
wording are left out; a database transaction is one action, because the code
takes the tenant's row lock or uses one guarded update; a transaction that fails
as a whole is a fault that leaves the rows as they were. Owners (Resource, Inference,
Accelerator, ModelDev) are not in this repository: they are modelled as external
from how the code and its integration contracts use them.

## 4. Runs

| Run | Instance | Shows |
|---|---|---|
| `ledger_accounts` | 2 tenants, 2 codes (one GPU), 3 CREATEs (two compete), 2 events, 2 plans | accounts equal what charges hold (`Balanced`), a charge has given back the highest total among its receipts and an event has one receipt (`RefundsFollowReceipts`), admission stays within the plan in force although plans shrink, and the ledger implements `QuotaAccounting`, whatever the order of reports, replays and cancellations |
| `ledger_commands` | an instance and an inference CREATE, one user DELETE, both automatic closes, 2 claims each | the inductive invariant (with settled cancellations and a close for each rejection), and no write-back of any generation takes a decision or refund back |
| `dispatch_vm` | one VM, 2 user DELETEs, 2 workers, 2 faults | a live VM is charged, a canceled command was never sent, decisions are the owner's, one active DELETE |
| `dispatch_inference` | one inference service on GPU quota, a user DELETE and the automatic close, 2 workers, 2 faults, fair | the inductive invariant of the composition, `UsageSource` implemented; every command is decided or parked, a rejected CREATE is refunded |
| `refund_intent` | the same with 1 worker and no fault | **violation**: a GPU refund without a persisted DELETE |
| `usage_sync` | 1 CREATE, 2 processes, 2 faults, fair | the inductive invariant (nothing is acknowledged that was not applied, projections are justified by facts), revisions grow, and an ended usage is reported or parked, also after a lost row or a skipped candidate |
| `usage_end_intent` | 1 CREATE, 1 process, no fault | **violation**: a usage ends as released without a DELETE |
| `modeldev` | 1 GPU execution, 2 processes (one may stop or crash), counters to 2, 2 faults, fair | all safety of the delivery and its drain; creation and Stop settle, also when the worker is gone |
| `tenant_space` | 1 tenant, 1 sandbox, 2 space workers, 1 courier, 1 request, 1 fault, fair | no late sandbox, spaces agree with Resource, closing is final; openings and closes settle, and so does every creation that can still succeed |
| `sessions` | 1 session, 3 pairs, 2 requests, 2 faults | one pair at a time, one successor of a pair, nothing comes back after a logout or a revocation that reports success, a proof is never replaced, and `SessionLife` is implemented |
| `logout_proof` | 1 session, 2 pairs, 1 request, no fault | **violation**: the CSRF proof outlives its session |
| `claim_order` | 4 rows; 4 queues: commands with 3 stuck and 1 process, with 2 stuck and 2 processes, openings with 1 that may time out, with 3 that are not ready; 1 lost worker, fair | a held row is never due, and every other row is served although the stuck ones come first |

Two of the violations are disagreements between
`docs/operations/governance-accelerator-v1.2.md` (lines 129 and 103) and the code:
the manual makes a GPU refund, and the end of a GPU usage, depend on a persisted
DELETE; `Release` and `deriveGpuProjection` do not ask for one. Both runs are
violated without any fault: an owner that aborts a resource and reports it is
enough. The third, `logout_proof`, is a slip in the code: the comment on the key
(`data/user_token_cache.go:42-45`, and `service/authentication_service.go:1202`) has
the proof removed with its session at logout, but `logoutSessionScript` (`:95`) builds the key
from the token id the pointer holds, where no proof is ever stored. The proof then stays
until it expires. No later request of the session can use it, since
a refresh still fails at the pointer (`NoRevival`).

The passing runs reach between 135,000 and 2.2 million distinct states, each within
two and a half minutes or so: `ledger_accounts` 372,544, `ledger_commands` 834,176,
`dispatch_vm` 512,796, `dispatch_inference` 134,924, `usage_sync` 356,709, `modeldev` 178,587,
`tenant_space` 374,815, `sessions` 2,146,382 (up to symmetry), `claim_order` 458,091.

**Bounds.** Workers matter through the pair that competes for one row (claims are per
row, fences compare two generations), so that two suffice. Two faults give a lost
answer *and* an overrun lease, or a crash *and* a lost call, the shortest ways to two
live claims of one row or to a late arrival after a retry; `tenant_space` has one fault
but two unleased closers and an unlimited number of status changes and replays.
`MaxAttempts` bounds claims in
`ledger_commands` only; in `QuotaDispatch` claims are bounded by the faults.
`MaxCount` is part of the model (the counters' limit), not only a bound. Three CREATEs on
two accounts let an admission fail on what another one holds, and a plan change
make the free units negative; two events allow a replay under another CREATE.
In `dispatch_*` there is a single event id, since replays are the ledger runs' subject.
`usage_sync` has one CREATE, so that a page is full with it and empty after it; the
safety of several CREATEs on several pages, and of several model-development executions, is
covered by the proofs, their liveness is not checked. In `sessions`, three pairs allow a pair, its successor and a rival successor, and
two requests are enough for every race of one step with another; a logout is one script
and takes no request. Several sessions differ only in what a revocation lists at
once; that is left to the proofs. Only `sessions` uses symmetry (ids are
compared, never ordered, and its properties are invariants and step properties). Everything else the models
leave unbounded is finite by construction (sets, not counters).

**Deadlock** is checked in all runs but `tenant_space`, where a deleted tenant that was the
only one leaves the system with nothing to do.

## 5. Fairness

Stated only in the `Fair…` specifications; safety is checked and proved without it.

* *Workers.* The loops poll (300 ms in dispatch and model development, 1 s in
  the usage sync, 1–3 s for spaces, 3 s for couriers) and each call
  has a timeout (3 s; 20, 30 and 70 s for spaces and sandboxes), so a step of a
  worker that stays enabled is taken: WF of the worker's steps. In `GpuUsageSync`
  and `ModelDevDelivery` one WF covers all steps of a process, including which
  row it claims; TLC then explores every order of claims.
* *Claims per row.* `QuotaDispatch` assumes WF per operation and `TenantSpace` per
  tenant and per intent. In the code the oldest due operation (`data/quota_ledger_repo.go:829`)
  and the due tenant with the lowest id come first, one at a time, and a deferred
  one is due again within 30 s and 5 s. `ClaimOrder` drops that assumption: there only
  time and the steps of workers are fair, and a row is served because the rows
  ahead of it wait out their delays. That holds while the stuck rows satisfy
  `Tolerable`: *n · (call + pause) < call + delay*. With the code's numbers
  (call 3 s, no pause, delay 30 s) up to ten operations of an owner that does not answer
  keep nobody waiting for ever, an eleventh can; of openings (call up to 30 s, pause 1 s,
  delay 5 s) only one that times out is tolerable, or four that Resource answers at once
  but that are not ready. Two of the profiles sit at that limit: with one tick
  less of the longest delay in `Commands` or `NotReady`, or a second stuck row in
  `TimingOut`, TLC finds a row that starves. Beyond the limit the liveness properties of the
  other models say nothing about the rows ranked behind.
* *Clock.* Leases and back-offs end: WF of each timer. A lease that ends under a
  worker that still holds it is a fault and bounded (leases of 15 s and more against
  calls of 3 s).
* *Owners.* They handle what reaches them and report what they cleaned: WF of
  acceptance, release, readiness and closing. Resource answers the creations of a sandbox, and
  the openings and closes of a space, but not every single call; whether a creation
  is applied or refused for good is open until one of the two happened. No fairness on
  aborts, users, operators, crashes and restarts (`Start` is fair for processes that do not stop).
* *Faults* are finitely many (`MaxFaults`); liveness is claimed after the last one.

Liveness properties end in "or parked" where the code blocks a row for an
operator: a permanent contract error, exhausted counters. Sandbox creations know no
parking: one that Resource refuses for good, or whose stored command stops verifying, is
delivered again every few seconds, stays pending for ever and holds back the close of its
tenant's space, which the code intends ("an error never clears the parent deletion barrier",
`service/sandbox_dispatch_worker.go:15`). `IntentsSettle` therefore promises an acknowledgement
only for creations without such a bar. `ClosingSettles` is about closes that were
accepted, which such a creation prevents in the first place. A rejected inference
CREATE is refunded even if an earlier attempt of it reaches the owner afterwards
(`RejectionIsRefunded`), since the close it carries is delivered to the owner.

## 6. Proofs

Every theorem holds for any sets of tenants, operations, workers, events and
any bounds, from the named assumptions on constants only
(`ConstantsAssumption`, `DispatchAssumption`, `SyncAssumption`, `ModelDevAssumption`,
`SpaceAssumption`, `SessionAssumption`, `ClaimAssumption`; disjointness of the sets, types of the functions, finite
CREATEs and codes). TLC evaluates those of a module in each of its runs.

| Invariant | Proved | What the strengthening adds |
|---|---|---|
| `LedgerInv` | `TypeCorrect`, `LedgerInvariant`, `CancellationSettled`, `RejectionClosed`, `OneActiveDelete`, `Irrevocable`, `AdmissionBounded`, `AccountsWithinPlans`, `RefundsAreReceipted`, `RepeatsRefundNothing`, `AccountsBalance`, `RefundsArePayable`, `LedgerImplementsAccounting` | that `attempts = 0` marks exactly the rows never claimed (`CommandShape`) is what separates cancellation from dispatch; that no charge gives back more than it is (`ChargesBounded`) keeps totals monotone; that a DELETE is canceled exactly with its CREATE keeps closes alive |
| `DispatchInv` | `DispatchInvariant`, `LiveResourcesCharged`, `CanceledNeverReachesOwner`, `WritersExcluded`, `DecisionsAgree`, `DispatchKeepsLedger`, `DispatchBooksBalance`, `DispatchIrrevocable`, `DispatchImplementsAccounting`, `RunningIsWithinQuota`, `GpusAreWithinQuota`, `UsageSourceImplemented`, `UsageEndsAfterUse`, `UsageReportedAfterUse` | every claim in hand has a generation that was given out and answers that were given (`ClaimsInForce`); owners act on sent commands only, and a sent command was claimed (`OwnersConsistent`); nothing is refunded in full before the resource is gone (`ChargedUntilGone`) |
| `SyncInv` | `SyncInvariant`, `AcknowledgementsTrue`, `StoredJustified`, `RowsOnlyAdvance` | what is on the wire is a fact (`WireIsFact`), a row acknowledges no more than it holds, a positive answer follows the application (`AckIsApplied`) |
| `DeliveryInv` | `DeliveryInvariance`, `NeverRuns`, `AcksAreRecorded`, `QuotaAgrees`, `DrainsQuietly`, `LeasesProtect`, `AcksAreFinal` | the shape of a delivery (holder iff dispatching, receipt iff acknowledged); a call or a running execution presupposes a claim; an execution stopped unsent that was claimed later was first closed at the owner (`UnsentStopped`) |
| `SpaceInv` | `SpaceInvariance`, `SpacesAgreed`, `NeverLate`, `ClosesForGood` | only a tenant asked to leave has its space closed, wherever the close is: row, wire, answer, Resource (`ClosedOnRequest`); what is on the wire has an intent (`SentHasIntent`) and a retired space has no pending one (`RetiredSettled`), from which `NoLateSandbox` follows: a creation that still takes effect belongs to an unacknowledged intent |
| `SessionInv` | `SessionInvariant`, `SessionsHaveOnePair`, `ReplacedPairsGone`, `RefreshedOnce`, `LogoutIsFinal`, `RevocationReaches`, `ProofsStand`, `SessionsImplementLife` | a request that binds or records is the only one of its session and no refresh of it is under way (`LoginsApart`), so that a login writes nothing late; a replaced pair is not current (`Lineage`), so that its holder fails the comparison; what a revocation promised is gone from the families it has passed and on its list in the present one (`PassesDone`) |
| `ClaimInv` | `HoldersExcluded` | the lease left and the time of the call move together (`LeaseLeft`), so that a call shorter than the lease never meets a second holder |

Each invariant is checked by TLC as an invariant of a run before it is
proved. The proofs have one lemma per action, or per conjunct where an action
disturbs little, and one temporal theorem that combines them. The refinements
are proved by showing that initial states map to initial states and that every
step of the detailed specification maps to a step of the abstract one or to a
stutter: every admission is an `Admit` under the plan in force, every refund a
`GiveBack`, and all steps of workers, owners and the clock stutter.

**The books.** `Balanced` equates an account with a *sum* over the tenant's CREATEs, a
fold of the library that takes its members in an order chosen by `CHOOSE`. A fact about
such a sum over any finite set needs an induction, and the provers have no
induction theorem to offer for it. `SumTheorems` argues by the smallest
counterexample instead: the subsets of a finite set are well founded under
inclusion, so that a family of subsets that refute a claim has a smallest member
(`SmallestSet`), and at that one the recursion of the fold contradicts it. In this
way the recursion has one solution (`AddsOnce`, `AddsExists`), any member can be
summed first (`SumMember`), one changed summand changes the sum by as much
(`SumUpdate`), no summand and no part is above the whole (`SumBound`, `SumSubset`),
and a sum of positive numbers counts its members (`SumCounts`). An admission
then adds a summand to the account, a refund lowers one, and everything else
leaves the sum alone (`BalanceStep`). `RefundsArePayable` is a consequence: the
guard with which the code refuses to take an account below zero never refuses a
refund that stays within its charge. What a charge gives back is in turn decided by
the receipts: `RefundsFollowReceipts` follows a step by what it does to receipts and
released units together (`ReceiptCases`: it cancels, it adds one receipt of an unused event, or it
touches neither), and `RefundsNeedNewEvents` is the same seen as a step: no event
refunds twice.

**The whole system.** `QuotaLedgerProofs` proves its results for `StepSpec`, the ledger
with any step of any generation, of which `Spec` is a special case. That workers, wire and
owners implement `StepSpec` (`DispatchKeepsLedger`) therefore carries all of them over
to `QuotaDispatch`. With `DispatchInv` they give what quota is for: a running
resource still owes part of each of its charges (`ChargedUntilGone`), what is owed is
in the account (`Balanced`), and the account is within some plan, because it only
grows by an admission (`AccountsWithinPlans`; a plan that was cut may be below
the account, which is why the theorem speaks of *some* plan). Hence `RunningIsWithinQuota`.
GPU charges are given back as a whole or not at all (`GpuWhole`), so that for them
units are counted and not only resources (`GpusAreWithinQuota`). For other codes
only resources are: their charges can be released in part while the resource lives.

**The projection beside it.** `UsageReportedAfterUse` is about the conjunction of
`DispatchSpec` and `SyncSpec` over the facts they share, with the projection's own
variables declared in `QuotaDispatchProofs`. It composes three results proved apart:
nothing is acknowledged that was not applied and nothing applied that is not a fact
(`SyncInvariant`, instantiated), a fact that ended was fully refunded or canceled, and
such a resource is not running (`LiveResourcesCharged`). That the conjunction is not
empty of behaviours is what `UsageSourceImplemented` says: every step of the system
is one the projection allows its source.

Only model-checked: the nine liveness properties (`EveryCommandDecided`,
`RejectionIsRefunded`, `EndIsReported`, `CreateSettles`, `StopSettles`, `OpeningSettles`,
`ClosingSettles`, `IntentsSettle`, `OthersAreServed`), since they rest on
fairness and ENABLED. The definitions that only theorems use (`WithinSomePlan`, `GpuWhole`, `RefundsNeedNewEvents`,
`RunningIsCounted`, `GpusWithinSomePlan`, `NotReportedWhileLive`) are in the proof
modules, next to the invariants of the runs they follow from.

## 7. Limits

Not modelled inside the modelled components: release of several charges in one
request (one charge at a time, or complete); the `GpuDeleteAcceptance` row, which
follows its DELETE one to one; how a model-development creation is admitted to
quota (success or failure of `AcceptFrozen`); sandbox deletion, files, tokens and
code runs (pass-through); image resolution before a sandbox is registered; the
expiry scan's stale list of tenants (`data/tenant_usage_repo.go:377`), which is
listed as a hazard. The 64-bit width of units is not modelled: admission subtracts the
request from the plan (`OccupiedUnits > limit-Units`) after `Units > limit`, both
non-negative, so that nothing wraps, and `Fits` has the same form.

`SessionTokens`. A rotation that commits during `RevokeToken` writes keys into families
that were already passed: the pointer goes last but one, so that the session is over, but
some of those keys stay until they expire; `RevokedIsGone` promises only what was there when the
revocation began. `RevokeTokenByJti` leaves the pointer and reports the error of its last
call only; a refresh token taken down by its id can still be rotated, since
the commit compares the pointer and not the key. A session record may be
written by a login after a revocation has passed its family. The three failures of a
code are a choice between refusing and spending the challenge. The block list of token ids, `AddTokenPair`
and `VerifyAndRevokeTokenPair` have no callers among the handlers.

`ClaimOrder`. Transactions take no time, calls of operations that
are not stuck end within the limit, and delays longer than the longest back-off
(60 s for a missing adapter or an invalid command) are left out: they only make
a row wait longer. A worker that makes a close call (20 s) before each opening has less room than
`Tolerable` says: one close that times out and one opening that times out can together
starve later openings.
