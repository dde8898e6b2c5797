----------------------------- MODULE TenantSpace -----------------------------
(***************************************************************************)
(* The space of a tenant at the Resource service, and the sandboxes in it  *)
(* (data/tenant_space_dispatch.go, tenant_space_close.go,                  *)
(* sandbox_parent_fence.go, service/tenant_space_*.go, sandbox_service.go, *)
(* sandbox_dispatch_worker.go; tenant_repo.go and tenant_usage_repo.go for *)
(* what closes a space).                                                   *)
(*                                                                         *)
(* A worker per process opens the spaces of new tenants, under a lease,    *)
(* and closes those of tenants to be removed, without one.  The creation   *)
(* of a sandbox is an intent, registered under the lock of its tenant and  *)
(* delivered by the request that registered it, by requests that repeat it *)
(* and by a courier per process; a space is not closed while an intent may *)
(* still be on its way.                                                    *)
(*                                                                         *)
(* Time is abstract.  Generations are left out: the name of a lease's      *)
(* holder is unique and a holder has one claim at a time.  The Resource    *)
(* service is not part of this repository.                                 *)
(***************************************************************************)
EXTENDS Naturals, FiniteSets

CONSTANTS
  Tenants, Sandboxes,
  TenantOf,   \* sandbox -> its tenant
  Workers,    \* tenant space workers, one per process
  Couriers,   \* sandbox dispatch workers, one per process
  Requests,   \* handlers of CreateSandbox
  MaxFaults,  \* bound on lost calls, errors, failed writes, overrun leases and crashes
  NoOne, NoTenant, NoSandbox

Senders == Couriers \cup Requests

ASSUME SpaceAssumption ==
  /\ TenantOf \in [Sandboxes -> Tenants]
  /\ Couriers \cap Requests = {}
  /\ MaxFaults \in Nat
  /\ NoOne \notin Workers \cup Couriers
  /\ NoTenant \notin Tenants /\ NoSandbox \notin Sandboxes

VARIABLES
  space,     \* tenant -> its row's space columns
  on,        \* tenants whose status is ON
  worker,    \* worker -> its call about a space
  intent,    \* sandbox -> its create intent
  sender,    \* courier or request -> where its delivery is
  wire,      \* calls Resource may still get: [op, about, to]
  resource,  \* tenant -> what Resource has recorded of its space
  sandbox,   \* sandbox -> what Resource has recorded of it
  bar,       \* sandbox -> why no delivery of its creation can succeed any more
  faults

rows == <<space, on, intent>>
remote == <<resource, sandbox, bar>>
svars == <<rows, worker, sender, wire, remote, faults>>

Phases == {"open", "ready", "closing", "closed"}
Opening == {"QUEUED", "DISPATCHING", "UNKNOWN"}
Retired == {"CLOSING", "CLOSED", "DELETED"}

Row(s)   == [state |-> s, holder |-> NoOne, live |-> FALSE, waiting |-> FALSE]
NoCall   == [op |-> "none", tenant |-> NoTenant, answer |-> "none"]
NoIntent == Row("none")
NoJob    == [step |-> "idle", box |-> NoSandbox]

Calls == [op : {"open", "close"}, about : Tenants, to : Workers]
           \cup [op : {"create"}, about : Sandboxes, to : Senders]

(***************************************************************************)
(* Rows, workers, deliveries and Resource.                                 *)
(***************************************************************************)
SpaceTypeOK ==
  /\ space \in [Tenants -> [state : {"ABSENT", "LEGACY", "READY"} \cup Opening \cup Retired,
                            holder : Workers \cup {NoOne}, live : BOOLEAN, waiting : BOOLEAN]]
  /\ on \subseteq Tenants
  /\ worker \in [Workers -> {NoCall} \cup [op : {"open", "close"}, tenant : Tenants,
                                           answer : Phases \cup {"none", "error"}]]
  /\ intent \in [Sandboxes -> [state : {"none", "pending", "acked"},
                               holder : Couriers \cup {NoOne}, live : BOOLEAN, waiting : BOOLEAN]]
  /\ sender \in [Senders -> {NoJob} \cup [step : {"lookup", "create", "relookup", "ack", "fail"},
                                          box : Sandboxes]]
  /\ wire \subseteq Calls
  /\ resource \in [Tenants -> Phases \cup {"none"}]
  /\ sandbox \in [Sandboxes -> {"absent", "present", "removed"}]
  /\ bar \in [Sandboxes -> {"none", "resource", "command"}]
  /\ faults \in 0 .. MaxFaults

(* Tenants from before the spaces were introduced are LEGACY.              *)
SpaceInit ==
  /\ space \in [Tenants -> {Row("ABSENT"), Row("LEGACY")}]
  /\ on = {t \in Tenants : space[t].state = "LEGACY"}
  /\ worker = [w \in Workers |-> NoCall]
  /\ intent = [s \in Sandboxes |-> NoIntent]
  /\ sender = [x \in Senders |-> NoJob]
  /\ wire = {}
  /\ resource = [t \in Tenants |-> "none"]
  /\ sandbox = [s \in Sandboxes |-> "absent"]
  /\ bar = [s \in Sandboxes |-> "none"]
  /\ faults = 0

Fault == faults < MaxFaults /\ faults' = faults + 1
SetSpace(t, row) == space' = [space EXCEPT ![t] = row]

-----------------------------------------------------------------------------
(* Tenants.                                                                *)
Exists(t) == space[t].state \notin {"ABSENT", "DELETED"}

CreateTenant(t) ==
  /\ space[t].state = "ABSENT"
  /\ SetSpace(t, Row("QUEUED"))
  /\ on' \in {on, on \cup {t}}
  /\ UNCHANGED <<intent, worker, sender, wire, remote, faults>>

(* An operator's update, or the expiry of the tenant's plan.               *)
SwitchStatus(t) ==
  /\ Exists(t)
  /\ on' = IF t \in on THEN on \ {t} ELSE on \cup {t}
  /\ UNCHANGED <<space, intent, worker, sender, wire, remote, faults>>

Intents(t) == {s \in Sandboxes : TenantOf[s] = t /\ intent[s].state # "none"}

(* (mutant: only an intent that is being delivered holds the close back)   *)
PendingLeased(t) == {s \in Intents(t) : intent[s].state = "pending" /\ intent[s].live}

Pending(t) == {s \in Intents(t) : intent[s].state = "pending"}

(* The close intent, persisted in the transaction of the destructive       *)
(* request, that is then refused: it succeeds when the space is closed.    *)
BeginTenantSpaceClose(t) ==
  /\ Exists(t) /\ space[t].state \notin Retired
  /\ Pending(t) = {}
  /\ SetSpace(t, Row("CLOSING"))
  /\ UNCHANGED <<on, intent, worker, sender, wire, remote, faults>>

CleanupTenantData(t) ==
  /\ space[t].state = "CLOSED"
  /\ on' = on \ {t}
  /\ UNCHANGED <<space, intent, worker, sender, wire, remote, faults>>

DeleteTenant(t) ==
  /\ space[t].state = "CLOSED"
  /\ Intents(t) = {}
  /\ SetSpace(t, Row("DELETED"))
  /\ on' = on \ {t}
  /\ UNCHANGED <<intent, worker, sender, wire, remote, faults>>

-----------------------------------------------------------------------------
(* The tenant space worker.                                                *)

(* (mutant: an expired lease is not taken over)                            *)
SpaceDueOnce(t) ==
  t \in on /\ (space[t].state = "QUEUED" \/ (space[t].state = "UNKNOWN" /\ ~space[t].waiting))

SpaceDue(t) ==
  /\ t \in on
  /\ \/ space[t].state = "QUEUED"
     \/ space[t].state = "UNKNOWN" /\ ~space[t].waiting
     \/ space[t].state = "DISPATCHING" /\ ~space[t].live

(* (mutant: the filter of the open queue)                                  *)
CloseDueIfOn(t) == t \in on /\ space[t].state = "CLOSING" /\ ~space[t].waiting

(* Whatever the tenant's status.                                           *)
CloseDue(t) == space[t].state = "CLOSING" /\ ~space[t].waiting

CallSpace(w, op, t) ==
  /\ worker[w] = NoCall
  /\ worker' = [worker EXCEPT ![w] = [op |-> op, tenant |-> t, answer |-> "none"]]
  /\ wire' = wire \cup {[op |-> op, about |-> t, to |-> w]}

ClaimTenantSpace(w, t) ==
  /\ SpaceDue(t)
  /\ SetSpace(t, [Row("DISPATCHING") EXCEPT !.holder = w, !.live = TRUE])
  /\ CallSpace(w, "open", t)
  /\ UNCHANGED <<on, intent, sender, remote, faults>>

(* No lease: any number of workers may be closing one space.               *)
ClaimTenantSpaceClose(w, t) ==
  /\ CloseDue(t)
  /\ space' = [space EXCEPT ![t].waiting = TRUE]
  /\ CallSpace(w, "close", t)
  /\ UNCHANGED <<on, intent, sender, remote, faults>>

(* (mutant: no fence)                                                      *)
SpaceFenceMissing(w) == Exists(worker[w].tenant)

SpaceFence(w) ==
  LET row == space[worker[w].tenant] IN
  row.state = "DISPATCHING" /\ row.holder = w /\ row.live

(* (mutant: an accepted opening counts as a space)                         *)
OpenedEarly(w) == worker[w].answer \in {"open", "ready"}

Opened(w) == worker[w].answer = "ready"

Finish(w) == worker[w].answer # "none" /\ worker' = [worker EXCEPT ![w] = NoCall]

(* Readiness is recorded for an active tenant; a tenant switched off in    *)
(* the meantime keeps the lease until it ends.                             *)
WriteBackOpen(w) ==
  LET t == worker[w].tenant IN
  /\ worker[w].op = "open" /\ Finish(w)
  /\ space' = IF ~SpaceFence(w) \/ (Opened(w) /\ t \notin on) THEN space
              ELSE [space EXCEPT ![t] = IF Opened(w) THEN Row("READY")
                                        ELSE [Row("UNKNOWN") EXCEPT !.waiting = TRUE]]
  /\ UNCHANGED <<on, intent, sender, wire, remote, faults>>

Shut(w) == worker[w].answer = "closed"

WriteBackClose(w) ==
  LET t == worker[w].tenant IN
  /\ worker[w].op = "close" /\ Finish(w)
  /\ space' = IF Shut(w) /\ space[t].state = "CLOSING" THEN [space EXCEPT ![t] = Row("CLOSED")]
              ELSE space
  /\ UNCHANGED <<on, intent, sender, wire, remote, faults>>

(* The transport fails or 20 s (30 s) pass.                                *)
SpaceCallFails(w) ==
  /\ worker[w] # NoCall /\ worker[w].answer = "none"
  /\ worker' = [worker EXCEPT ![w].answer = "error"]
  /\ IF [op |-> worker[w].op, about |-> worker[w].tenant, to |-> w] \in wire
     THEN Fault ELSE UNCHANGED faults
  /\ UNCHANGED <<rows, sender, wire, remote>>

(* The process stops, or its database write fails; another one (a restart) *)
(* goes on with nothing.                                                   *)
WorkerForgets(w) ==
  /\ worker[w] # NoCall
  /\ Fault
  /\ worker' = [worker EXCEPT ![w] = NoCall]
  /\ UNCHANGED <<rows, sender, wire, remote>>

HeldUp(t) == \E w \in Workers : worker[w].op = "open" /\ worker[w].tenant = t /\ SpaceFence(w)

SpaceLeaseEnds(t) ==
  /\ space[t].live
  /\ space' = [space EXCEPT ![t].live = FALSE]
  /\ IF HeldUp(t) THEN Fault ELSE UNCHANGED faults
  /\ UNCHANGED <<on, intent, worker, sender, wire, remote>>

SpaceWaitEnds(t) ==
  /\ space[t].waiting
  /\ space' = [space EXCEPT ![t].waiting = FALSE]
  /\ UNCHANGED <<on, intent, worker, sender, wire, remote, faults>>

-----------------------------------------------------------------------------
(* Sandboxes: registration and delivery of the create intent.              *)
At(x, step) == sender[x].step = step
GoTo(x, step) == sender' = [sender EXCEPT ![x].step = step]
Leave(x) == sender' = [sender EXCEPT ![x] = NoJob]

Closing(t) == ~Exists(t) \/ space[t].state \in Retired

Send(x, s) == wire' = wire \cup {[op |-> "create", about |-> s, to |-> x]}

(* Under the tenant's lock; a new intent is sent at once.                  *)
RegisterSandboxCreateIntent(x, s) ==
  /\ x \in Requests /\ At(x, "idle")
  /\ intent[s].state = "none" /\ ~Closing(TenantOf[s])
  /\ intent' = [intent EXCEPT ![s] = Row("pending")]
  /\ sender' = [sender EXCEPT ![x] = [step |-> "create", box |-> s]]
  /\ Send(x, s)
  /\ UNCHANGED <<space, on, worker, remote, faults>>

(* A request that finds the intent delivers it again, acknowledged or not. *)
ReplaySandboxCreate(x, s) ==
  /\ x \in Requests /\ At(x, "idle")
  /\ intent[s].state # "none"
  /\ sender' = [sender EXCEPT ![x] = [step |-> "lookup", box |-> s]]
  /\ UNCHANGED <<rows, worker, wire, remote, faults>>

(* (mutant: only the creations of active tenants are delivered)            *)
IntentDueIfOn(s) ==
  TenantOf[s] \in on /\ intent[s].state = "pending" /\ ~intent[s].live /\ ~intent[s].waiting

IntentDue(s) == intent[s].state = "pending" /\ ~intent[s].live /\ ~intent[s].waiting

ClaimSandboxCreate(x, s) ==
  /\ x \in Couriers /\ At(x, "idle")
  /\ IntentDue(s)
  /\ intent' = [intent EXCEPT ![s].holder = x, ![s].live = TRUE]
  /\ sender' = [sender EXCEPT ![x] = [step |-> "lookup", box |-> s]]
  /\ UNCHANGED <<space, on, worker, wire, remote, faults>>

(* What GetSandbox tells; of a removed sandbox it may not know any more.   *)
Found(s)  == sandbox[s] # "absent"
Missed(s) == sandbox[s] # "present"

(* From some moment on no delivery of a creation can succeed: Resource has *)
(* refused it for good, or its stored command does not verify any more.    *)
(* Once an intent is acknowledged nothing waits for a delivery.            *)
BarredBy(s, why) ==
  /\ intent[s].state = "pending"
  /\ bar[s] \in {"none", why} /\ bar' = [bar EXCEPT ![s] = why]

(* Every delivery but the one by the registering request starts with a     *)
(* check of the stored command.                                            *)
Verified(x) == At(x, "lookup") /\ bar[sender[x].box] # "command"

CommandUnverified(x) ==
  /\ At(x, "lookup")
  /\ \/ BarredBy(sender[x].box, "command") /\ GoTo(x, "fail")
     \/ intent[sender[x].box].state = "acked" /\ Leave(x) /\ UNCHANGED bar
  /\ UNCHANGED <<rows, worker, wire, resource, sandbox, faults>>

LookupFinds(x) ==
  /\ Verified(x) \/ At(x, "relookup")
  /\ Found(sender[x].box)
  /\ GoTo(x, "ack")
  /\ UNCHANGED <<rows, worker, wire, remote, faults>>

LookupMisses(x) ==
  /\ Verified(x) \/ At(x, "relookup")
  /\ Missed(sender[x].box)
  /\ IF At(x, "lookup") THEN GoTo(x, "create") /\ Send(x, sender[x].box)
     ELSE GoTo(x, "fail") /\ UNCHANGED wire
  /\ UNCHANGED <<rows, worker, remote, faults>>

(* The read, or the write of the acknowledgement, fails this once.         *)
DeliveryFails(x) ==
  /\ At(x, "lookup") \/ At(x, "relookup") \/ At(x, "ack")
  /\ Fault
  /\ GoTo(x, "fail")
  /\ UNCHANGED <<rows, worker, wire, remote>>

(* (mutant: no answer in time is an acceptance)                            *)
AfterErrorTrusting == "ack"

(* An error is no proof that the creation did not get there.               *)
AfterError == "relookup"

CreateCallFails(x) ==
  /\ At(x, "create")
  /\ GoTo(x, AfterError)
  /\ IF [op |-> "create", about |-> sender[x].box, to |-> x] \in wire THEN Fault ELSE UNCHANGED faults
  /\ UNCHANGED <<rows, worker, wire, remote>>

(* Any sender may acknowledge: no lease is asked for.                      *)
AcknowledgeSandboxCreate(x) ==
  /\ At(x, "ack")
  /\ intent' = [intent EXCEPT ![sender[x].box].state = "acked"]
  /\ Leave(x)
  /\ UNCHANGED <<space, on, worker, wire, remote, faults>>

(* A courier schedules the intent again if the latest claim is its own.    *)
RetrySandboxCreate(x) ==
  LET s == sender[x].box IN
  /\ At(x, "fail")
  /\ intent' = IF intent[s].holder = x /\ intent[s].state = "pending"
               THEN [intent EXCEPT ![s].live = FALSE, ![s].waiting = TRUE] ELSE intent
  /\ Leave(x)
  /\ UNCHANGED <<space, on, worker, wire, remote, faults>>

(* The process stops or the client goes away.                              *)
SenderForgets(x) ==
  /\ ~At(x, "idle")
  /\ Fault
  /\ Leave(x)
  /\ UNCHANGED <<rows, worker, wire, remote>>

IntentLeaseEnds(s) ==
  /\ intent[s].live
  /\ intent' = [intent EXCEPT ![s].live = FALSE]
  /\ IF sender[intent[s].holder].box = s THEN Fault ELSE UNCHANGED faults
  /\ UNCHANGED <<space, on, worker, sender, wire, remote>>

IntentWaitEnds(s) ==
  /\ intent[s].waiting
  /\ intent' = [intent EXCEPT ![s].waiting = FALSE]
  /\ UNCHANGED <<space, on, worker, sender, wire, remote, faults>>

-----------------------------------------------------------------------------
(* Resource: a closed space stays closed, a creation is applied once.      *)
Waits(m) == worker[m.to].op = m.op /\ worker[m.to].tenant = m.about /\ worker[m.to].answer = "none"

Answer(m, phase) ==
  /\ worker' = IF Waits(m) THEN [worker EXCEPT ![m.to].answer = phase] ELSE worker
  /\ wire' = wire \ {m}

ResourceOpens(m) ==
  LET phase == IF resource[m.about] = "none" THEN "open" ELSE resource[m.about] IN
  /\ m.op = "open"
  /\ resource' = [resource EXCEPT ![m.about] = phase]
  /\ Answer(m, phase)
  /\ UNCHANGED <<rows, sender, sandbox, bar, faults>>

ResourceReady(t) ==
  /\ resource[t] = "open"
  /\ resource' = [resource EXCEPT ![t] = "ready"]
  /\ UNCHANGED <<rows, worker, sender, wire, sandbox, bar, faults>>

ResourceCloses(m) ==
  LET phase == IF resource[m.about] = "closed" THEN "closed" ELSE "closing" IN
  /\ m.op = "close"
  /\ resource' = [resource EXCEPT ![m.about] = phase]
  /\ Answer(m, phase)
  /\ UNCHANGED <<rows, sender, sandbox, bar, faults>>

ResourceClosed(t) ==
  /\ resource[t] = "closing"
  /\ resource' = [resource EXCEPT ![t] = "closed"]
  /\ UNCHANGED <<rows, worker, sender, wire, sandbox, bar, faults>>

(* The caller, if it still waits, goes on with the answer.                 *)
AnswerSender(m, step) ==
  /\ sender' = IF sender[m.to] = [step |-> "create", box |-> m.about]
               THEN [sender EXCEPT ![m.to].step = step] ELSE sender
  /\ wire' = wire \ {m}

ResourceCreates(m) ==
  /\ m.op = "create" /\ bar[m.about] # "resource"
  /\ sandbox' = [sandbox EXCEPT ![m.about] = IF @ = "absent" THEN "present" ELSE @]
  /\ AnswerSender(m, "ack")
  /\ UNCHANGED <<rows, worker, resource, bar, faults>>

(* A refusal for good, repeated to every later delivery; the caller takes  *)
(* it for an error like any other.                                         *)
ResourceRefuses(m) ==
  /\ m.op = "create" /\ sandbox[m.about] = "absent"
  /\ BarredBy(m.about, "resource")
  /\ AnswerSender(m, AfterError)
  /\ UNCHANGED <<rows, worker, resource, sandbox, faults>>

CallLost(m) ==
  /\ Fault
  /\ wire' = wire \ {m}
  /\ UNCHANGED <<rows, worker, sender, remote>>

SandboxRemoved(s) ==
  /\ sandbox[s] = "present"
  /\ sandbox' = [sandbox EXCEPT ![s] = "removed"]
  /\ UNCHANGED <<rows, worker, sender, wire, resource, bar, faults>>

-----------------------------------------------------------------------------
TenantStep(t) ==
  \/ CreateTenant(t) \/ SwitchStatus(t) \/ BeginTenantSpaceClose(t)
  \/ CleanupTenantData(t) \/ DeleteTenant(t)

SpaceTimers(t) == SpaceLeaseEnds(t) \/ SpaceWaitEnds(t)
IntentTimers(s) == IntentLeaseEnds(s) \/ IntentWaitEnds(s)

WorkerStep(w) == WriteBackOpen(w) \/ WriteBackClose(w) \/ SpaceCallFails(w)

SenderStep(x) ==
  \/ CommandUnverified(x) \/ LookupFinds(x) \/ LookupMisses(x) \/ CreateCallFails(x)
  \/ AcknowledgeSandboxCreate(x) \/ RetrySandboxCreate(x)

SenderStarts(x, s) ==
  RegisterSandboxCreateIntent(x, s) \/ ReplaySandboxCreate(x, s) \/ ClaimSandboxCreate(x, s)

ResourceStep(m) ==
  ResourceOpens(m) \/ ResourceCloses(m) \/ ResourceCreates(m) \/ ResourceRefuses(m)

SpaceNext ==
  \/ \E t \in Tenants : TenantStep(t) \/ SpaceTimers(t) \/ ResourceReady(t) \/ ResourceClosed(t)
  \/ \E w \in Workers, t \in Tenants : ClaimTenantSpace(w, t) \/ ClaimTenantSpaceClose(w, t)
  \/ \E w \in Workers : WorkerStep(w) \/ WorkerForgets(w)
  \/ \E x \in Senders, s \in Sandboxes : SenderStarts(x, s)
  \/ \E x \in Senders : SenderStep(x) \/ DeliveryFails(x) \/ SenderForgets(x)
  \/ \E s \in Sandboxes : IntentTimers(s) \/ SandboxRemoved(s)
  \/ \E m \in wire : ResourceStep(m) \/ CallLost(m)

SpaceSpec == SpaceInit /\ [][SpaceNext]_svars

ServedOpen(t)   == \E m \in wire : m.about = t /\ ResourceOpens(m)
ServedClose(t)  == \E m \in wire : m.about = t /\ ResourceCloses(m)
ServedCreate(s) == \E m \in wire : m.about = s /\ (ResourceCreates(m) \/ ResourceRefuses(m))

(* The loops run every few seconds and their calls have timeouts, the      *)
(* clock advances, Resource answers, opens and closes.                     *)
FairSpaceSpec ==
  /\ SpaceSpec
  /\ \A t \in Tenants :
       /\ WF_svars(\E w \in Workers : ClaimTenantSpace(w, t))
       /\ WF_svars(\E w \in Workers : ClaimTenantSpaceClose(w, t))
       /\ WF_svars(SpaceTimers(t))
       /\ WF_svars(ResourceReady(t) \/ ResourceClosed(t))
       /\ WF_svars(ServedOpen(t)) /\ WF_svars(ServedClose(t))
  /\ \A w \in Workers : WF_svars(WorkerStep(w))
  /\ \A s \in Sandboxes :
       /\ WF_svars(\E x \in Couriers : ClaimSandboxCreate(x, s))
       /\ WF_svars(IntentTimers(s)) /\ WF_svars(ServedCreate(s))
  /\ \A x \in Senders : WF_svars(SenderStep(x))

-----------------------------------------------------------------------------
(* No sandbox comes into being in a space that is being closed, is closed  *)
(* or belongs to a deleted tenant, however late its creation arrives.      *)
NoLateSandbox ==
  [][\A s \in Sandboxes :
       sandbox[s] = "absent" /\ sandbox'[s] # "absent" => space[TenantOf[s]].state \notin Retired]_svars

(* A space is READY only while Resource has it ready, and CLOSED, or its   *)
(* tenant deleted, only once Resource has closed it for good: openings     *)
(* still on their way, and late answers to them, change nothing of that.   *)
SpacesAgree ==
  \A t \in Tenants :
    /\ space[t].state = "READY" => resource[t] = "ready"
    /\ space[t].state \in {"CLOSED", "DELETED"} => resource[t] = "closed"

(* Closing is one way, whatever a worker whose lease was revoked does.     *)
ClosingIsFinal ==
  [][\A t \in Tenants :
       /\ space[t].state = "CLOSING" => space'[t].state \in {"CLOSING", "CLOSED"}
       /\ space[t].state = "CLOSED" => space'[t].state \in {"CLOSED", "DELETED"}
       /\ space[t].state = "DELETED" => space'[t] = space[t]]_svars

(* What makes the above inductive.                                         *)
SpacesShaped ==
  \A t \in Tenants :
    /\ space[t].state = "DISPATCHING" <=> space[t].holder # NoOne
    /\ space[t].live => space[t].state = "DISPATCHING"
    /\ space[t].waiting => space[t].state \in {"UNKNOWN", "CLOSING"}
    /\ space[t].state \in {"ABSENT", "DELETED"} => t \notin on
IntentsShaped ==
  \A s \in Sandboxes :
    /\ intent[s].state = "none" => intent[s] = NoIntent
    /\ intent[s].live => intent[s].holder # NoOne
    /\ intent[s].state # "none" => Exists(TenantOf[s])
(* Only a tenant that was asked to leave has its space closed.             *)
ClosedOnRequest ==
  /\ \A t \in Tenants : resource[t] \in {"closing", "closed"} => space[t].state \in Retired
  /\ \A m \in wire : m.op = "close" => space[m.about].state \in Retired
  /\ \A w \in Workers : worker[w].op = "close" => space[worker[w].tenant].state \in Retired
  /\ \A w \in Workers : worker[w].answer \in {"closing", "closed"} => space[worker[w].tenant].state \in Retired
AnswersTrue ==
  \A w \in Workers :
    /\ worker[w].answer = "ready" => resource[worker[w].tenant] \in {"ready", "closing", "closed"}
    /\ worker[w].answer = "closed" => resource[worker[w].tenant] = "closed"
(* An intent is acknowledged for a creation that took place; whatever is   *)
(* still on the wire has an intent that says so.                           *)
AcksTrue ==
  /\ \A s \in Sandboxes : intent[s].state = "acked" => sandbox[s] # "absent"
  /\ \A x \in Senders : sender[x].step = "ack" => sandbox[sender[x].box] # "absent"
SentHasIntent ==
  /\ \A m \in wire : m.op = "create" => intent[m.about].state # "none"
  /\ \A x \in Senders : sender[x] # NoJob => intent[sender[x].box].state # "none"
  /\ \A s \in Sandboxes : sandbox[s] # "absent" => intent[s].state # "none"
RetiredSettled ==
  \A s \in Sandboxes : space[TenantOf[s]].state \in Retired => intent[s].state # "pending"

SpaceInv ==
  /\ SpaceTypeOK
  /\ SpacesShaped
  /\ IntentsShaped
  /\ ClosedOnRequest
  /\ AnswersTrue
  /\ AcksTrue
  /\ SentHasIntent
  /\ RetiredSettled
  /\ SpacesAgree

(* The space of an active tenant is opened, unless it is to be closed.     *)
OpeningSettles ==
  \A t \in Tenants : space[t].state \in Opening ~>
    space[t].state \in Retired \cup {"READY"} \/ t \notin on

(* A close that was asked for comes about, whatever the tenant's status.   *)
ClosingSettles == \A t \in Tenants : space[t].state = "CLOSING" ~> space[t].state \in {"CLOSED", "DELETED"}

(* A registered creation is acknowledged, and so stops holding back the    *)
(* close of its tenant's space, whoever of its senders is gone, unless no  *)
(* delivery of it can succeed any more.  Then it is neither parked nor     *)
(* given up: it is delivered again every few seconds and the space stays   *)
(* open ("an error never clears the parent deletion barrier").             *)
IntentsSettle ==
  \A s \in Sandboxes : intent[s].state = "pending" ~> intent[s].state = "acked" \/ bar[s] # "none"
=============================================================================
