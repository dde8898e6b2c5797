-------------------------- MODULE TenantSpaceProofs --------------------------
(***************************************************************************)
(* Theorems about tenant spaces and the sandboxes in them, for any number  *)
(* of tenants, sandboxes, processes, requests and faults.                  *)
(***************************************************************************)
EXTENDS TenantSpace, TLAPS

SpaceRows  == [state : {"ABSENT", "LEGACY", "READY"} \cup Opening \cup Retired,
               holder : Workers \cup {NoOne}, live : BOOLEAN, waiting : BOOLEAN]
IntentRows == [state : {"none", "pending", "acked"},
               holder : Couriers \cup {NoOne}, live : BOOLEAN, waiting : BOOLEAN]
CallRows   == [op : {"open", "close"}, tenant : Tenants, answer : Phases \cup {"none", "error"}]
JobRows    == [step : {"lookup", "create", "relookup", "ack", "fail"}, box : Sandboxes]

-----------------------------------------------------------------------------
(* Type correctness.                                                       *)
LEMMA RowType ==
  /\ \A s \in {"ABSENT", "LEGACY", "READY"} \cup Opening \cup Retired :
       /\ Row(s) \in SpaceRows /\ Row(s).state = s /\ Row(s).holder = NoOne
       /\ ~Row(s).live /\ ~Row(s).waiting
  /\ \A s \in {"none", "pending", "acked"} :
       /\ Row(s) \in IntentRows /\ Row(s).state = s /\ ~Row(s).live /\ ~Row(s).waiting
BY DEF Row, SpaceRows, IntentRows

LEMMA FaultType ==
  ASSUME SpaceTypeOK, Fault \/ UNCHANGED faults
  PROVE  faults' \in 0 .. MaxFaults
BY SpaceAssumption DEF SpaceTypeOK, Fault

(* A worker that is not idle has a call about a tenant.                    *)
LEMMA WorkerType ==
  ASSUME SpaceTypeOK, NEW w \in Workers
  PROVE  /\ worker[w] # NoCall \/ worker[w].op # "none" \/ worker[w].answer # "none" => worker[w] \in CallRows
         /\ worker[w] = NoCall \/ worker[w] \in CallRows
         /\ NoCall.op = "none" /\ NoCall.answer = "none"
BY DEF SpaceTypeOK, NoCall, CallRows

LEMMA SenderType ==
  ASSUME SpaceTypeOK, NEW x \in Senders
  PROVE  /\ sender[x].step # "idle" => sender[x] \in JobRows
         /\ sender[x] = NoJob \/ sender[x] \in JobRows
         /\ NoJob.step = "idle"
BY DEF SpaceTypeOK, NoJob, JobRows

LEMMA GoToType ==
  ASSUME SpaceTypeOK, NEW x \in Senders, ~At(x, "idle"),
         NEW l \in {"lookup", "create", "relookup", "ack", "fail"}, GoTo(x, l)
  PROVE  /\ sender' \in [Senders -> {NoJob} \cup JobRows]
         /\ sender' = [sender EXCEPT ![x] = sender'[x]]
         /\ sender[x] \in JobRows
         /\ sender'[x].step = l /\ sender'[x].box = sender[x].box
<1>1. sender[x] \in JobRows /\ sender \in [Senders -> {NoJob} \cup JobRows]
  BY SenderType DEF At, SpaceTypeOK, JobRows
<1>2. [sender[x] EXCEPT !.step = l] \in JobRows
  BY <1>1 DEF JobRows
<1> QED
  BY <1>1, <1>2 DEF GoTo, JobRows

LEMMA LeaveType ==
  ASSUME SpaceTypeOK, NEW x \in Senders, Leave(x)
  PROVE  /\ sender' \in [Senders -> {NoJob} \cup JobRows]
         /\ \A y \in Senders : sender'[y] \in {sender[y], NoJob}
BY DEF SpaceTypeOK, Leave, JobRows

LEMMA AnswerType ==
  ASSUME SpaceTypeOK, NEW m \in wire, m.op \in {"open", "close"}, NEW p \in Phases, Answer(m, p)
  PROVE  /\ worker' \in [Workers -> {NoCall} \cup CallRows]
         /\ \A w \in Workers :
              \/ worker'[w] = worker[w]
              \/ /\ worker[w] \in CallRows /\ worker[w].tenant = m.about
                 /\ worker'[w] = [worker[w] EXCEPT !.answer = p]
<1>1. m.to \in Workers /\ worker \in [Workers -> {NoCall} \cup CallRows]
  BY DEF SpaceTypeOK, Calls, CallRows
<1>2. CASE Waits(m)
  <2>1. worker[m.to] \in CallRows /\ worker[m.to].tenant = m.about
    BY <1>1, <1>2, WorkerType DEF Waits
  <2>2. [worker[m.to] EXCEPT !.answer = p] \in CallRows
    BY <2>1 DEF CallRows
  <2> QED
    BY <1>1, <1>2, <2>1, <2>2 DEF Answer
<1>3. CASE ~Waits(m)
  BY <1>1, <1>3 DEF Answer
<1> QED
  BY <1>2, <1>3

LEMMA TypesHold ==
  ASSUME SpaceTypeOK, SpaceNext
  PROVE  SpaceTypeOK'
<1> DEFINE
      T1 == space' \in [Tenants -> SpaceRows] /\ on' \subseteq Tenants
      T2 == worker' \in [Workers -> {NoCall} \cup CallRows]
      T3 == intent' \in [Sandboxes -> IntentRows]
      T4 == sender' \in [Senders -> {NoJob} \cup JobRows]
      T5 == wire' \subseteq Calls
      T6 == resource' \in [Tenants -> Phases \cup {"none"}]
            /\ sandbox' \in [Sandboxes -> {"absent", "present", "removed"}]
            /\ bar' \in [Sandboxes -> {"none", "resource", "command"}]
      T7 == faults' \in 0 .. MaxFaults
<1> SUFFICES T1 /\ T2 /\ T3 /\ T4 /\ T5 /\ T6 /\ T7
  BY DEF SpaceTypeOK, SpaceRows, CallRows, IntentRows, JobRows
<1>0. /\ space \in [Tenants -> SpaceRows] /\ on \subseteq Tenants
      /\ worker \in [Workers -> {NoCall} \cup CallRows]
      /\ intent \in [Sandboxes -> IntentRows]
      /\ sender \in [Senders -> {NoJob} \cup JobRows]
      /\ wire \subseteq Calls
      /\ resource \in [Tenants -> Phases \cup {"none"}]
      /\ sandbox \in [Sandboxes -> {"absent", "present", "removed"}]
      /\ bar \in [Sandboxes -> {"none", "resource", "command"}]
      /\ faults \in 0 .. MaxFaults
      /\ TenantOf \in [Sandboxes -> Tenants]
  BY SpaceAssumption DEF SpaceTypeOK, SpaceRows, CallRows, IntentRows, JobRows
<1> HIDE DEF T1, T2, T3, T4, T5, T6, T7
<1>a. /\ UNCHANGED <<space, on>> => T1
      /\ UNCHANGED worker => T2
      /\ UNCHANGED intent => T3
      /\ UNCHANGED sender => T4
      /\ UNCHANGED wire => T5
      /\ UNCHANGED remote => T6
      /\ UNCHANGED faults => T7
      /\ Fault => T7
  BY <1>0, FaultType DEF T1, T2, T3, T4, T5, T6, T7, remote
<1>b. \A t \in Tenants, s \in {"ABSENT", "LEGACY", "READY"} \cup Opening \cup Retired :
        SetSpace(t, Row(s)) => space' \in [Tenants -> SpaceRows]
  BY <1>0, RowType DEF SetSpace
<1>1. ASSUME NEW t \in Tenants, TenantStep(t)
      PROVE  T1 /\ T2 /\ T3 /\ T4 /\ T5 /\ T6 /\ T7
  <2>1. T2 /\ T3 /\ T4 /\ T5 /\ T6 /\ T7
    BY <1>1, <1>a DEF TenantStep, CreateTenant, SwitchStatus, BeginTenantSpaceClose, CleanupTenantData,
                      DeleteTenant, rows
  <2>2. T1
    BY <1>0, <1>1, <1>b
       DEF TenantStep, CreateTenant, SwitchStatus, BeginTenantSpaceClose, CleanupTenantData,
           DeleteTenant, T1, Opening, Retired
  <2> QED
    BY <2>1, <2>2
<1>2. ASSUME NEW t \in Tenants, SpaceTimers(t)
      PROVE  T1 /\ T2 /\ T3 /\ T4 /\ T5 /\ T6 /\ T7
  <2>1. T2 /\ T3 /\ T4 /\ T5 /\ T6 /\ T7
    BY <1>2, <1>a DEF SpaceTimers, SpaceLeaseEnds, SpaceWaitEnds
  <2>2. /\ [space EXCEPT ![t].live = FALSE] \in [Tenants -> SpaceRows]
        /\ [space EXCEPT ![t].waiting = FALSE] \in [Tenants -> SpaceRows]
    BY <1>0 DEF SpaceRows
  <2>3. T1
    BY <1>0, <1>2, <2>2 DEF SpaceTimers, SpaceLeaseEnds, SpaceWaitEnds, T1
  <2> QED
    BY <2>1, <2>3
<1>3. ASSUME NEW t \in Tenants, ResourceReady(t) \/ ResourceClosed(t)
      PROVE  T1 /\ T2 /\ T3 /\ T4 /\ T5 /\ T6 /\ T7
  <2>1. T1 /\ T2 /\ T3 /\ T4 /\ T5 /\ T7
    BY <1>3, <1>a DEF ResourceReady, ResourceClosed, rows
  <2>2. T6
    BY <1>0, <1>3 DEF ResourceReady, ResourceClosed, T6, Phases
  <2> QED
    BY <2>1, <2>2
<1>4. ASSUME NEW w \in Workers, NEW t \in Tenants, ClaimTenantSpace(w, t) \/ ClaimTenantSpaceClose(w, t)
      PROVE  T1 /\ T2 /\ T3 /\ T4 /\ T5 /\ T6 /\ T7
  <2>1. T3 /\ T4 /\ T6 /\ T7
    BY <1>4, <1>a DEF ClaimTenantSpace, ClaimTenantSpaceClose
  <2>2. /\ [Row("DISPATCHING") EXCEPT !.holder = w, !.live = TRUE] \in SpaceRows
        /\ [space EXCEPT ![t].waiting = TRUE] \in [Tenants -> SpaceRows]
    BY <1>0 DEF Row, SpaceRows, Opening
  <2>3. T1
    <3>1. CASE ClaimTenantSpace(w, t)
      BY <1>0, <2>2, <3>1 DEF ClaimTenantSpace, SetSpace, T1
    <3>2. CASE ClaimTenantSpaceClose(w, t)
      BY <1>0, <2>2, <3>2 DEF ClaimTenantSpaceClose, T1
    <3> QED
      BY <1>4, <3>1, <3>2
  <2>4. \E op \in {"open", "close"} : CallSpace(w, op, t)
    BY <1>4 DEF ClaimTenantSpace, ClaimTenantSpaceClose
  <2>5. T2 /\ T5
    BY <1>0, <2>4 DEF CallSpace, T2, T5, CallRows, Calls
  <2> QED
    BY <2>1, <2>3, <2>5
<1>5. ASSUME NEW w \in Workers, WorkerStep(w) \/ WorkerForgets(w)
      PROVE  T1 /\ T2 /\ T3 /\ T4 /\ T5 /\ T6 /\ T7
  <2>1. T3 /\ T4 /\ T5 /\ T6
    BY <1>5, <1>a DEF WorkerStep, WorkerForgets, WriteBackOpen, WriteBackClose, SpaceCallFails, rows
  <2>2. T7
    BY <1>5, <1>a DEF WorkerStep, WorkerForgets, WriteBackOpen, WriteBackClose, SpaceCallFails
  <2>3. T2
    <3>1. worker[w] # NoCall => [worker[w] EXCEPT !.answer = "error"] \in CallRows
      BY <1>0 DEF CallRows
    <3> QED
      BY <1>0, <1>5, <3>1 DEF WorkerStep, WorkerForgets, WriteBackOpen, WriteBackClose, SpaceCallFails,
                              Finish, T2
  <2>4. CASE SpaceCallFails(w) \/ WorkerForgets(w)
    BY <1>a, <2>1, <2>2, <2>3, <2>4 DEF SpaceCallFails, WorkerForgets, rows
  <2>5. CASE WriteBackOpen(w)
    <3>1. worker[w].tenant \in Tenants
      BY <1>0, <2>5, WorkerType DEF WriteBackOpen, CallRows
    <3>2. Row("READY") \in SpaceRows /\ [Row("UNKNOWN") EXCEPT !.waiting = TRUE] \in SpaceRows
      BY RowType DEF Row, SpaceRows, Opening
    <3>3. T1
      BY <1>0, <2>5, <3>1, <3>2 DEF WriteBackOpen, T1
    <3> QED
      BY <2>1, <2>2, <2>3, <3>3
  <2>6. CASE WriteBackClose(w)
    <3>1. worker[w].tenant \in Tenants
      BY <1>0, <2>6, WorkerType DEF WriteBackClose, CallRows
    <3>2. T1
      BY <1>0, <2>6, <3>1, RowType DEF WriteBackClose, T1, Retired
    <3> QED
      BY <2>1, <2>2, <2>3, <3>2
  <2> QED
    BY <1>5, <2>4, <2>5, <2>6 DEF WorkerStep
<1>6. ASSUME NEW x \in Senders, NEW s \in Sandboxes, SenderStarts(x, s)
      PROVE  T1 /\ T2 /\ T3 /\ T4 /\ T5 /\ T6 /\ T7
  <2>1. T1 /\ T2 /\ T6 /\ T7
    BY <1>6, <1>a DEF SenderStarts, RegisterSandboxCreateIntent, ReplaySandboxCreate, ClaimSandboxCreate, rows
  <2>2. T4
    BY <1>0, <1>6 DEF SenderStarts, RegisterSandboxCreateIntent, ReplaySandboxCreate, ClaimSandboxCreate,
                      T4, JobRows
  <2>3. T5
    BY <1>0, <1>6 DEF SenderStarts, RegisterSandboxCreateIntent, ReplaySandboxCreate, ClaimSandboxCreate,
                      Send, T5, Calls
  <2>4. T3
    <3>1. CASE RegisterSandboxCreateIntent(x, s)
      BY <1>0, <3>1, RowType DEF RegisterSandboxCreateIntent, T3
    <3>2. CASE ReplaySandboxCreate(x, s)
      BY <1>a, <3>2 DEF ReplaySandboxCreate, rows
    <3>3. CASE ClaimSandboxCreate(x, s)
      <4>1. x \in Couriers /\ [intent EXCEPT ![s].holder = x, ![s].live = TRUE] \in [Sandboxes -> IntentRows]
        <5>1. x \in Couriers
          BY <3>3 DEF ClaimSandboxCreate
        <5>2. [intent[s] EXCEPT !.holder = x, !.live = TRUE] \in IntentRows
          BY <1>0, <5>1 DEF IntentRows
        <5>3. [intent EXCEPT ![s].holder = x, ![s].live = TRUE]
              = [intent EXCEPT ![s] = [intent[s] EXCEPT !.holder = x, !.live = TRUE]]
          BY <1>0
        <5> QED
          BY <1>0, <5>1, <5>2, <5>3
      <4> QED
        BY <3>3, <4>1 DEF ClaimSandboxCreate, T3
    <3> QED
      BY <1>6, <3>1, <3>2, <3>3 DEF SenderStarts
  <2> QED
    BY <2>1, <2>2, <2>3, <2>4
<1>7. ASSUME NEW x \in Senders, SenderStep(x) \/ DeliveryFails(x) \/ SenderForgets(x)
      PROVE  T1 /\ T2 /\ T3 /\ T4 /\ T5 /\ T6 /\ T7
  <2>1. T1 /\ T2
    BY <1>7, <1>a DEF SenderStep, CommandUnverified, LookupFinds, LookupMisses, CreateCallFails,
                      AcknowledgeSandboxCreate, RetrySandboxCreate, DeliveryFails, SenderForgets, rows
  <2>2. T7
    BY <1>7, <1>a DEF SenderStep, CommandUnverified, LookupFinds, LookupMisses, CreateCallFails,
                      AcknowledgeSandboxCreate, RetrySandboxCreate, DeliveryFails, SenderForgets
  <2>3. ~At(x, "idle") /\ sender[x] \in JobRows
    <3>1. ~At(x, "idle")
      BY <1>7 DEF SenderStep, CommandUnverified, LookupFinds, LookupMisses, CreateCallFails,
                  AcknowledgeSandboxCreate, RetrySandboxCreate, DeliveryFails, SenderForgets, Verified, At
    <3> QED
      BY <3>1, SenderType DEF At
  <2>4. T4
    BY <1>7, <2>3, GoToType, LeaveType
       DEF SenderStep, CommandUnverified, LookupFinds, LookupMisses, CreateCallFails, AfterError,
           AcknowledgeSandboxCreate, RetrySandboxCreate, DeliveryFails, SenderForgets, T4
  <2>5. T5
    BY <1>0, <1>7, <2>3
       DEF SenderStep, CommandUnverified, LookupFinds, LookupMisses, CreateCallFails,
           AcknowledgeSandboxCreate, RetrySandboxCreate, DeliveryFails, SenderForgets, Send, T5, Calls, JobRows
  <2>6. T3
    <3> DEFINE s == sender[x].box
    <3>1. s \in Sandboxes
      BY <2>3 DEF JobRows
    <3> HIDE DEF s
    <3>2. [intent EXCEPT ![s].state = "acked"] \in [Sandboxes -> IntentRows]
      BY <1>0, <3>1 DEF IntentRows
    <3>3. [intent EXCEPT ![s].live = FALSE, ![s].waiting = TRUE] \in [Sandboxes -> IntentRows]
      <4>1. [intent[s] EXCEPT !.live = FALSE, !.waiting = TRUE] \in IntentRows
        BY <1>0, <3>1 DEF IntentRows
      <4>2. [intent EXCEPT ![s].live = FALSE, ![s].waiting = TRUE]
            = [intent EXCEPT ![s] = [intent[s] EXCEPT !.live = FALSE, !.waiting = TRUE]]
        BY <1>0, <3>1
      <4> QED
        BY <1>0, <4>1, <4>2
    <3> USE DEF s
    <3> QED
      BY <1>0, <1>7, <3>1, <3>2, <3>3
         DEF SenderStep, CommandUnverified, LookupFinds, LookupMisses, CreateCallFails,
             AcknowledgeSandboxCreate, RetrySandboxCreate, DeliveryFails, SenderForgets, rows, T3
  <2>7. T6
    <3>1. CASE CommandUnverified(x)
      BY <1>0, <2>3, <3>1 DEF CommandUnverified, BarredBy, JobRows, T6
    <3>2. CASE ~CommandUnverified(x)
      BY <1>7, <1>a, <3>2 DEF SenderStep, LookupFinds, LookupMisses, CreateCallFails,
                              AcknowledgeSandboxCreate, RetrySandboxCreate, DeliveryFails, SenderForgets
    <3> QED
      BY <3>1, <3>2
  <2> QED
    BY <2>1, <2>2, <2>4, <2>5, <2>6, <2>7
<1>8. ASSUME NEW s \in Sandboxes, IntentTimers(s) \/ SandboxRemoved(s)
      PROVE  T1 /\ T2 /\ T3 /\ T4 /\ T5 /\ T6 /\ T7
  <2>1. T1 /\ T2 /\ T4 /\ T5 /\ T7
    BY <1>8, <1>a DEF IntentTimers, IntentLeaseEnds, IntentWaitEnds, SandboxRemoved, rows
  <2>2. /\ [intent EXCEPT ![s].live = FALSE] \in [Sandboxes -> IntentRows]
        /\ [intent EXCEPT ![s].waiting = FALSE] \in [Sandboxes -> IntentRows]
    BY <1>0 DEF IntentRows
  <2>3. T3 /\ T6
    BY <1>0, <1>8, <2>2 DEF IntentTimers, IntentLeaseEnds, IntentWaitEnds, SandboxRemoved, rows, remote, T3, T6
  <2> QED
    BY <2>1, <2>3
<1>9. ASSUME NEW m \in wire, ResourceStep(m) \/ CallLost(m)
      PROVE  T1 /\ T2 /\ T3 /\ T4 /\ T5 /\ T6 /\ T7
  <2>1. T1 /\ T3 /\ T7
    BY <1>9, <1>a DEF ResourceStep, ResourceOpens, ResourceCloses, ResourceCreates, ResourceRefuses,
                      CallLost, rows
  <2>2. T5
    BY <1>0, <1>9 DEF ResourceStep, ResourceOpens, ResourceCloses, ResourceCreates, ResourceRefuses,
                      CallLost, Answer, AnswerSender, T5
  <2>3. m.op \in {"open", "close"} => m.about \in Tenants
    BY <1>0 DEF Calls
  <2>4. m.op = "create" => m.about \in Sandboxes /\ m.to \in Senders
    BY <1>0 DEF Calls
  <2>5. CASE ResourceOpens(m)
    <3>1. resource[m.about] = "none" \/ resource[m.about] \in Phases
      BY <1>0, <2>3, <2>5 DEF ResourceOpens
    <3>2. T2 /\ T6
      BY <1>0, <2>3, <2>5, <3>1, AnswerType DEF ResourceOpens, Phases, T2, T6
    <3> QED
      BY <1>a, <2>1, <2>2, <2>5, <3>2 DEF ResourceOpens
  <2>6. CASE ResourceCloses(m)
    <3>1. T2 /\ T6
      BY <1>0, <2>3, <2>6, AnswerType DEF ResourceCloses, Phases, T2, T6
    <3> QED
      BY <1>a, <2>1, <2>2, <2>6, <3>1 DEF ResourceCloses
  <2>7. CASE ResourceCreates(m) \/ ResourceRefuses(m)
    <3>1. T6
      BY <1>0, <2>4, <2>7 DEF ResourceCreates, ResourceRefuses, BarredBy, T6
    <3>2. \A l \in {"ack", "relookup"} :
            sender[m.to] = [step |-> "create", box |-> m.about] => [sender[m.to] EXCEPT !.step = l] \in JobRows
      BY <2>4, <2>7 DEF ResourceCreates, ResourceRefuses, JobRows
    <3>3. T4
      BY <1>0, <2>4, <2>7, <3>2 DEF ResourceCreates, ResourceRefuses, AnswerSender, AfterError, T4
    <3> QED
      BY <1>a, <2>1, <2>2, <2>7, <3>1, <3>3 DEF ResourceCreates, ResourceRefuses
  <2>8. CASE CallLost(m)
    BY <1>a, <2>1, <2>2, <2>8 DEF CallLost
  <2> QED
    BY <1>9, <2>5, <2>6, <2>7, <2>8 DEF ResourceStep
<1> QED
  BY <1>1, <1>2, <1>3, <1>4, <1>5, <1>6, <1>7, <1>8, <1>9 DEF SpaceNext

-----------------------------------------------------------------------------
(* What a step does to the space of one tenant.                            *)
CanOpen(t, w) == worker[w].op = "open" /\ worker[w].tenant = t /\ SpaceFence(w)

SpaceMove(t) ==
  \/ space'[t] = space[t]
  \/ space[t].state = "ABSENT" /\ space'[t] = Row("QUEUED")
  \/ /\ Exists(t) /\ space[t].state \notin Retired /\ Pending(t) = {}
     /\ space'[t] = Row("CLOSING") /\ UNCHANGED intent
  \/ /\ space[t].state = "CLOSED" /\ Intents(t) = {}
     /\ space'[t] = Row("DELETED") /\ t \notin on' /\ UNCHANGED intent
  \/ /\ SpaceDue(t) /\ UNCHANGED on
     /\ \E w \in Workers : space'[t] = [Row("DISPATCHING") EXCEPT !.holder = w, !.live = TRUE]
  \/ space[t].state = "CLOSING" /\ space'[t] = [space[t] EXCEPT !.waiting = TRUE]
  \/ \E w \in Workers : CanOpen(t, w) /\ worker[w].answer = "ready" /\ space'[t] = Row("READY")
  \/ \E w \in Workers : CanOpen(t, w) /\ space'[t] = [Row("UNKNOWN") EXCEPT !.waiting = TRUE]
  \/ /\ space[t].state = "CLOSING" /\ space'[t] = Row("CLOSED")
     /\ \E w \in Workers : worker[w].tenant = t /\ worker[w].answer = "closed"
  \/ space[t].live /\ space'[t] = [space[t] EXCEPT !.live = FALSE]
  \/ space[t].waiting /\ space'[t] = [space[t] EXCEPT !.waiting = FALSE]

OnMove(t) ==
  \/ t \notin on'
  \/ t \in on /\ space'[t].state = space[t].state
  \/ space'[t].state \notin {"ABSENT", "DELETED"}

(* What it does to the intent of one sandbox.                              *)
IntentMove(s) ==
  \/ intent'[s] = intent[s]
  \/ intent[s].state = "none" /\ ~Closing(TenantOf[s]) /\ intent'[s] = Row("pending") /\ UNCHANGED space
  \/ /\ IntentDue(s)
     /\ \E x \in Couriers : intent'[s] = [intent[s] EXCEPT !.holder = x, !.live = TRUE]
  \/ /\ \E x \in Senders : sender[x].step = "ack" /\ sender[x].box = s
     /\ intent'[s] = [intent[s] EXCEPT !.state = "acked"]
  \/ intent[s].state = "pending" /\ intent'[s] = [intent[s] EXCEPT !.live = FALSE, !.waiting = TRUE]
  \/ intent[s].live /\ intent'[s] = [intent[s] EXCEPT !.live = FALSE]
  \/ intent[s].waiting /\ intent'[s] = [intent[s] EXCEPT !.waiting = FALSE]

RowsMove ==
  /\ \A t \in Tenants : SpaceMove(t) /\ OnMove(t)
  /\ \A s \in Sandboxes : IntentMove(s)

LEMMA TenantRowsMove ==
  ASSUME SpaceTypeOK, NEW t \in Tenants, TenantStep(t) \/ SpaceTimers(t)
  PROVE  RowsMove
<1>0. /\ space \in [Tenants -> SpaceRows] /\ on \subseteq Tenants
  BY DEF SpaceTypeOK, SpaceRows
<1>1. \A s \in Sandboxes : IntentMove(s)
  BY DEF TenantStep, SpaceTimers, CreateTenant, SwitchStatus, BeginTenantSpaceClose, CleanupTenantData,
         DeleteTenant, SpaceLeaseEnds, SpaceWaitEnds, IntentMove
<1>2. ASSUME CreateTenant(t), NEW u \in Tenants PROVE SpaceMove(u) /\ OnMove(u)
  BY <1>0, <1>2, RowType DEF CreateTenant, SetSpace, SpaceMove, OnMove, Opening
<1>3. ASSUME SwitchStatus(t), NEW u \in Tenants PROVE SpaceMove(u) /\ OnMove(u)
  BY <1>0, <1>3 DEF SwitchStatus, Exists, SpaceMove, OnMove
<1>4. ASSUME BeginTenantSpaceClose(t), NEW u \in Tenants PROVE SpaceMove(u) /\ OnMove(u)
  BY <1>0, <1>4, RowType DEF BeginTenantSpaceClose, SetSpace, SpaceMove, OnMove, Retired
<1>5. ASSUME CleanupTenantData(t), NEW u \in Tenants PROVE SpaceMove(u) /\ OnMove(u)
  BY <1>0, <1>5 DEF CleanupTenantData, SpaceMove, OnMove
<1>6. ASSUME DeleteTenant(t), NEW u \in Tenants PROVE SpaceMove(u) /\ OnMove(u)
  BY <1>0, <1>6, RowType DEF DeleteTenant, SetSpace, SpaceMove, OnMove, Retired
<1>7. ASSUME SpaceTimers(t), NEW u \in Tenants PROVE SpaceMove(u) /\ OnMove(u)
  <2>1. OnMove(u)
    BY <1>0, <1>7 DEF SpaceTimers, SpaceLeaseEnds, SpaceWaitEnds, OnMove, SpaceRows
  <2>2. SpaceMove(u)
    BY <1>0, <1>7 DEF SpaceTimers, SpaceLeaseEnds, SpaceWaitEnds, SpaceMove
  <2> QED
    BY <2>1, <2>2
<1> QED
  BY <1>1, <1>2, <1>3, <1>4, <1>5, <1>6, <1>7 DEF TenantStep, RowsMove

LEMMA WorkerRowsMove ==
  ASSUME SpaceTypeOK, NEW w \in Workers, NEW t \in Tenants,
         \/ ClaimTenantSpace(w, t) \/ ClaimTenantSpaceClose(w, t)
         \/ WorkerStep(w) \/ WorkerForgets(w)
  PROVE  RowsMove
<1>0. /\ space \in [Tenants -> SpaceRows] /\ on \subseteq Tenants
  BY DEF SpaceTypeOK, SpaceRows
<1>1. \A s \in Sandboxes : IntentMove(s)
  BY DEF ClaimTenantSpace, ClaimTenantSpaceClose, WorkerStep, WriteBackOpen, WriteBackClose,
         SpaceCallFails, WorkerForgets, rows, IntentMove
<1>2. ASSUME UNCHANGED <<space, on>>, NEW u \in Tenants PROVE SpaceMove(u) /\ OnMove(u)
  BY <1>2 DEF SpaceMove, OnMove
<1>3. ASSUME ClaimTenantSpace(w, t), NEW u \in Tenants PROVE SpaceMove(u) /\ OnMove(u)
  <2>1. space'[u] = space[u] \/ (u = t /\ space'[u] = [Row("DISPATCHING") EXCEPT !.holder = w, !.live = TRUE])
    BY <1>0, <1>3 DEF ClaimTenantSpace, SetSpace
  <2>2. SpaceMove(u)
    BY <1>3, <2>1 DEF ClaimTenantSpace, SpaceMove
  <2>3. [Row("DISPATCHING") EXCEPT !.holder = w, !.live = TRUE].state = "DISPATCHING"
    BY DEF Row
  <2>4. OnMove(u)
    BY <1>3, <2>1, <2>3 DEF ClaimTenantSpace, OnMove
  <2> QED
    BY <2>2, <2>4
<1>4. ASSUME ClaimTenantSpaceClose(w, t), NEW u \in Tenants PROVE SpaceMove(u) /\ OnMove(u)
  <2>1. OnMove(u)
    BY <1>0, <1>4 DEF ClaimTenantSpaceClose, CloseDue, OnMove, SpaceRows
  <2>2. SpaceMove(u)
    BY <1>0, <1>4 DEF ClaimTenantSpaceClose, CloseDue, SpaceMove
  <2> QED
    BY <2>1, <2>2
<1>5. ASSUME WriteBackOpen(w), NEW u \in Tenants PROVE SpaceMove(u) /\ OnMove(u)
  <2>1. worker[w].tenant \in Tenants
    BY <1>5, WorkerType DEF WriteBackOpen, CallRows
  <2>2. \/ space'[u] = space[u]
        \/ CanOpen(u, w) /\ worker[w].answer = "ready" /\ space'[u] = Row("READY")
        \/ CanOpen(u, w) /\ space'[u] = [Row("UNKNOWN") EXCEPT !.waiting = TRUE]
    BY <1>0, <1>5, <2>1 DEF WriteBackOpen, Opened, CanOpen
  <2>3. SpaceMove(u)
    BY <2>2 DEF SpaceMove
  <2>4. Row("READY").state = "READY" /\ [Row("UNKNOWN") EXCEPT !.waiting = TRUE].state = "UNKNOWN"
    BY DEF Row
  <2>5. OnMove(u)
    BY <1>5, <2>2, <2>4 DEF WriteBackOpen, OnMove
  <2> QED
    BY <2>3, <2>5
<1>6. ASSUME WriteBackClose(w), NEW u \in Tenants PROVE SpaceMove(u) /\ OnMove(u)
  <2>1. worker[w].tenant \in Tenants
    BY <1>6, WorkerType DEF WriteBackClose, CallRows
  <2>2. \/ space'[u] = space[u]
        \/ /\ space[u].state = "CLOSING" /\ space'[u] = Row("CLOSED")
           /\ worker[w].tenant = u /\ worker[w].answer = "closed"
    BY <1>0, <1>6, <2>1 DEF WriteBackClose, Shut
  <2>3. SpaceMove(u)
    BY <2>2 DEF SpaceMove
  <2>4. OnMove(u)
    BY <1>6, <2>2 DEF WriteBackClose, OnMove, Row
  <2> QED
    BY <2>3, <2>4
<1>7. ASSUME SpaceCallFails(w) \/ WorkerForgets(w) PROVE UNCHANGED <<space, on>>
  BY <1>7 DEF SpaceCallFails, WorkerForgets, rows
<1> QED
  BY <1>1, <1>2, <1>3, <1>4, <1>5, <1>6, <1>7 DEF WorkerStep, RowsMove

LEMMA SenderRowsMove ==
  ASSUME SpaceTypeOK, NEW x \in Senders, NEW s \in Sandboxes,
         SenderStarts(x, s) \/ SenderStep(x) \/ DeliveryFails(x) \/ SenderForgets(x)
  PROVE  RowsMove
<1>0. intent \in [Sandboxes -> IntentRows]
  BY DEF SpaceTypeOK, IntentRows
<1>1. \A t \in Tenants : SpaceMove(t) /\ OnMove(t)
  <2>1. UNCHANGED <<space, on>>
    BY DEF SenderStarts, RegisterSandboxCreateIntent, ReplaySandboxCreate, ClaimSandboxCreate,
           SenderStep, CommandUnverified, LookupFinds, LookupMisses, CreateCallFails, AcknowledgeSandboxCreate,
           RetrySandboxCreate, DeliveryFails, SenderForgets, rows
  <2> QED
    BY <2>1 DEF SpaceMove, OnMove
<1>2. ASSUME RegisterSandboxCreateIntent(x, s), NEW u \in Sandboxes PROVE IntentMove(u)
  BY <1>0, <1>2 DEF RegisterSandboxCreateIntent, IntentMove
<1>3. ASSUME ClaimSandboxCreate(x, s), NEW u \in Sandboxes PROVE IntentMove(u)
  <2>1. /\ x \in Couriers /\ IntentDue(s)
        /\ intent'[u] = intent[u] \/ (u = s /\ intent'[u] = [intent[u] EXCEPT !.holder = x, !.live = TRUE])
    BY <1>0, <1>3 DEF ClaimSandboxCreate
  <2> QED
    BY <2>1 DEF IntentMove
<1>4. ASSUME AcknowledgeSandboxCreate(x), NEW u \in Sandboxes PROVE IntentMove(u)
  BY <1>0, <1>4 DEF AcknowledgeSandboxCreate, At, IntentMove
<1>5. ASSUME RetrySandboxCreate(x), NEW u \in Sandboxes PROVE IntentMove(u)
  <2>1. \/ intent'[u] = intent[u]
        \/ /\ u = sender[x].box /\ intent[u].state = "pending"
           /\ intent'[u] = [intent[u] EXCEPT !.live = FALSE, !.waiting = TRUE]
    BY <1>0, <1>5 DEF RetrySandboxCreate
  <2> QED
    BY <2>1 DEF IntentMove
<1>6. ASSUME \/ ReplaySandboxCreate(x, s) \/ CommandUnverified(x) \/ LookupFinds(x) \/ LookupMisses(x)
             \/ CreateCallFails(x) \/ DeliveryFails(x) \/ SenderForgets(x),
             NEW u \in Sandboxes
      PROVE  IntentMove(u)
  BY <1>6 DEF ReplaySandboxCreate, CommandUnverified, LookupFinds, LookupMisses, CreateCallFails,
              DeliveryFails, SenderForgets, rows, IntentMove
<1> QED
  BY <1>1, <1>2, <1>3, <1>4, <1>5, <1>6 DEF SenderStarts, SenderStep, RowsMove

LEMMA RowsOnlyMove ==
  ASSUME SpaceTypeOK, SpaceNext
  PROVE  RowsMove
<1>1. ASSUME UNCHANGED rows PROVE RowsMove
  BY <1>1 DEF rows, RowsMove, SpaceMove, OnMove, IntentMove
<1>2. ASSUME NEW t \in Tenants, ResourceReady(t) \/ ResourceClosed(t) PROVE RowsMove
  BY <1>1, <1>2 DEF ResourceReady, ResourceClosed
<1>3. ASSUME NEW s \in Sandboxes, SandboxRemoved(s) PROVE RowsMove
  BY <1>1, <1>3 DEF SandboxRemoved
<1>4. ASSUME NEW m \in wire, ResourceStep(m) \/ CallLost(m) PROVE RowsMove
  BY <1>1, <1>4 DEF ResourceStep, ResourceOpens, ResourceCloses, ResourceCreates, ResourceRefuses, CallLost
<1>5. ASSUME NEW w \in Workers, WorkerStep(w) \/ WorkerForgets(w) PROVE RowsMove
  <2>1. worker[w].tenant \in Tenants
    <3>1. worker[w] # NoCall
      BY <1>5, WorkerType DEF WorkerStep, WriteBackOpen, WriteBackClose, SpaceCallFails, WorkerForgets
    <3> QED
      BY <3>1, WorkerType DEF CallRows
  <2> QED
    BY <1>5, <2>1, WorkerRowsMove
<1>6. ASSUME NEW x \in Senders, SenderStep(x) \/ DeliveryFails(x) \/ SenderForgets(x) PROVE RowsMove
  <2>1. ~At(x, "idle")
    BY <1>6 DEF SenderStep, CommandUnverified, LookupFinds, LookupMisses, CreateCallFails,
                AcknowledgeSandboxCreate, RetrySandboxCreate, DeliveryFails, SenderForgets, Verified, At
  <2>2. sender[x].box \in Sandboxes
    BY <2>1, SenderType DEF At, JobRows
  <2> QED
    BY <1>6, <2>2, SenderRowsMove
<1>7. ASSUME NEW s \in Sandboxes, IntentTimers(s) PROVE RowsMove
  <2>1. intent \in [Sandboxes -> IntentRows]
    BY DEF SpaceTypeOK, IntentRows
  <2> QED
    BY <1>7, <2>1 DEF IntentTimers, IntentLeaseEnds, IntentWaitEnds, RowsMove, SpaceMove, OnMove, IntentMove
<1> QED
  BY <1>2, <1>3, <1>4, <1>5, <1>6, <1>7, TenantRowsMove, WorkerRowsMove, SenderRowsMove DEF SpaceNext

-----------------------------------------------------------------------------
(* What a step does to Resource, to the calls and to those that wait.      *)
ResourceMove(t) ==
  \/ resource'[t] = resource[t]
  \/ resource[t] = "none" /\ resource'[t] = "open"
  \/ resource[t] = "open" /\ resource'[t] = "ready"
  \/ /\ \E m \in wire : m.op = "close" /\ m.about = t
     /\ resource'[t] = IF resource[t] = "closed" THEN "closed" ELSE "closing"
  \/ resource[t] = "closing" /\ resource'[t] = "closed"

SandboxMove(s) ==
  \/ sandbox'[s] = sandbox[s]
  \/ /\ sandbox[s] = "absent" /\ sandbox'[s] = "present"
     /\ \E m \in wire : m.op = "create" /\ m.about = s
  \/ sandbox[s] = "present" /\ sandbox'[s] = "removed"

WireMove(m) ==
  \/ m \in wire
  \/ m.op = "open"
  \/ m.op = "close" /\ space[m.about].state = "CLOSING"
  \/ m.op = "create" /\ intent'[m.about].state # "none"

WorkerMove(w) ==
  \/ worker'[w] = worker[w]
  \/ worker'[w].op # "close" /\ worker'[w].answer = "none"
  \/ worker'[w].op = "close" /\ worker'[w].answer = "none" /\ space[worker'[w].tenant].state = "CLOSING"
  \/ worker[w] \in CallRows /\ worker'[w] = [worker[w] EXCEPT !.answer = "error"]
  \/ /\ worker[w] \in CallRows
     /\ \E p \in Phases : worker'[w] = [worker[w] EXCEPT !.answer = p] /\ resource'[worker[w].tenant] = p

SenderMove(x) ==
  \/ sender'[x] \in {sender[x], NoJob}
  \/ /\ intent'[sender'[x].box].state # "none"
     /\ sender'[x].step = "ack" => sandbox'[sender'[x].box] # "absent"

CallsMove ==
  /\ \A t \in Tenants : ResourceMove(t)
  /\ \A s \in Sandboxes : SandboxMove(s)
  /\ \A m \in wire' : WireMove(m)
  /\ \A w \in Workers : WorkerMove(w)
  /\ \A x \in Senders : SenderMove(x)

LEMMA WorkerCallsMove ==
  ASSUME SpaceTypeOK, NEW w \in Workers, NEW t \in Tenants,
         \/ ClaimTenantSpace(w, t) \/ ClaimTenantSpaceClose(w, t)
         \/ WorkerStep(w) \/ WorkerForgets(w)
  PROVE  CallsMove
<1>0. worker \in [Workers -> {NoCall} \cup CallRows]
  BY DEF SpaceTypeOK, CallRows
<1>1. UNCHANGED <<remote, sender>>
  BY DEF ClaimTenantSpace, ClaimTenantSpaceClose, WorkerStep, WriteBackOpen, WriteBackClose,
         SpaceCallFails, WorkerForgets
<1>2. /\ \A u \in Tenants : ResourceMove(u)
      /\ \A s \in Sandboxes : SandboxMove(s)
      /\ \A x \in Senders : SenderMove(x)
  BY <1>1 DEF remote, ResourceMove, SandboxMove, SenderMove
<1>3. CASE ClaimTenantSpace(w, t)
  <2>1. /\ worker' = [worker EXCEPT ![w] = [op |-> "open", tenant |-> t, answer |-> "none"]]
        /\ wire' = wire \cup {[op |-> "open", about |-> t, to |-> w]}
    BY <1>3 DEF ClaimTenantSpace, CallSpace
  <2>2. \A m \in wire' : WireMove(m)
    BY <2>1 DEF WireMove
  <2>3. \A v \in Workers : WorkerMove(v)
    BY <1>0, <2>1 DEF WorkerMove
  <2> QED
    BY <1>2, <2>2, <2>3 DEF CallsMove
<1>4. CASE ClaimTenantSpaceClose(w, t)
  <2>1. /\ worker' = [worker EXCEPT ![w] = [op |-> "close", tenant |-> t, answer |-> "none"]]
        /\ wire' = wire \cup {[op |-> "close", about |-> t, to |-> w]}
        /\ space[t].state = "CLOSING"
    BY <1>4 DEF ClaimTenantSpaceClose, CallSpace, CloseDue
  <2>2. \A m \in wire' : WireMove(m)
    BY <2>1 DEF WireMove
  <2>3. \A v \in Workers : WorkerMove(v)
    BY <1>0, <2>1 DEF WorkerMove
  <2> QED
    BY <1>2, <2>2, <2>3 DEF CallsMove
<1>5. CASE WorkerStep(w) \/ WorkerForgets(w)
  <2>1. UNCHANGED wire
    BY <1>5 DEF WorkerStep, WriteBackOpen, WriteBackClose, SpaceCallFails, WorkerForgets
  <2>2. \/ worker' = [worker EXCEPT ![w] = NoCall]
        \/ worker[w] # NoCall /\ worker' = [worker EXCEPT ![w].answer = "error"]
    BY <1>5 DEF WorkerStep, WriteBackOpen, WriteBackClose, SpaceCallFails, WorkerForgets, Finish
  <2>3. \A v \in Workers : WorkerMove(v)
    BY <1>0, <2>2, WorkerType DEF WorkerMove
  <2>4. \A m \in wire' : WireMove(m)
    BY <2>1 DEF WireMove
  <2> QED
    BY <1>2, <2>3, <2>4 DEF CallsMove
<1> QED
  BY <1>3, <1>4, <1>5

LEMMA SenderCallsMove ==
  ASSUME SpaceTypeOK, SentHasIntent, RowsMove, NEW x \in Senders, NEW s \in Sandboxes,
         SenderStarts(x, s) \/ SenderStep(x) \/ DeliveryFails(x) \/ SenderForgets(x)
  PROVE  CallsMove
<1>0. /\ sender \in [Senders -> {NoJob} \cup JobRows]
      /\ intent \in [Sandboxes -> IntentRows]
      /\ sandbox \in [Sandboxes -> {"absent", "present", "removed"}]
  BY DEF SpaceTypeOK, JobRows, IntentRows
<1>1. UNCHANGED <<resource, sandbox, worker>>
  BY DEF SenderStarts, RegisterSandboxCreateIntent, ReplaySandboxCreate, ClaimSandboxCreate,
         SenderStep, CommandUnverified, LookupFinds, LookupMisses, CreateCallFails, AcknowledgeSandboxCreate,
         RetrySandboxCreate, DeliveryFails, SenderForgets, remote
<1>2. /\ \A u \in Tenants : ResourceMove(u)
      /\ \A b \in Sandboxes : SandboxMove(b)
      /\ \A w \in Workers : WorkerMove(w)
  BY <1>1 DEF ResourceMove, SandboxMove, WorkerMove
<1>3. \A b \in Sandboxes : intent[b].state # "none" => intent'[b].state # "none"
  <2> SUFFICES ASSUME NEW b \in Sandboxes, intent[b].state # "none"
               PROVE  intent'[b].state # "none"
    OBVIOUS
  <2>1. IntentMove(b) /\ intent[b] \in IntentRows
    BY <1>0 DEF RowsMove
  <2> QED
    BY <2>1 DEF IntentMove, IntentRows
<1>4. CASE SenderStarts(x, s)
  <2>1. /\ sender' = [sender EXCEPT ![x] = sender'[x]]
        /\ sender'[x].box = s /\ sender'[x].step # "ack"
        /\ wire' = wire \/ wire' = wire \cup {[op |-> "create", about |-> s, to |-> x]}
    BY <1>0, <1>4 DEF SenderStarts, RegisterSandboxCreateIntent, ReplaySandboxCreate, ClaimSandboxCreate, Send
  <2>2. intent'[s].state # "none"
    <3>1. CASE RegisterSandboxCreateIntent(x, s)
      BY <1>0, <3>1, RowType DEF RegisterSandboxCreateIntent
    <3>2. CASE intent[s].state # "none"
      BY <1>3, <3>2
    <3> QED
      BY <1>4, <3>1, <3>2 DEF SenderStarts, ReplaySandboxCreate, ClaimSandboxCreate, IntentDue
  <2>3. \A y \in Senders : SenderMove(y)
    BY <1>0, <2>1, <2>2 DEF SenderMove
  <2>4. \A m \in wire' : WireMove(m)
    BY <2>1, <2>2 DEF WireMove
  <2> QED
    BY <1>2, <2>3, <2>4 DEF CallsMove
<1>5. CASE SenderStep(x) \/ DeliveryFails(x) \/ SenderForgets(x)
  <2>1. ~At(x, "idle")
    BY <1>5 DEF SenderStep, CommandUnverified, LookupFinds, LookupMisses, CreateCallFails,
                AcknowledgeSandboxCreate, RetrySandboxCreate, DeliveryFails, SenderForgets, Verified, At
  <2>2. sender[x] \in JobRows /\ sender[x].box \in Sandboxes
    BY <2>1, SenderType DEF At, JobRows
  <2>3. intent'[sender[x].box].state # "none"
    BY <1>3, <2>1, <2>2 DEF SentHasIntent, At, NoJob
  <2>4. wire' = wire \/ wire' = wire \cup {[op |-> "create", about |-> sender[x].box, to |-> x]}
    BY <1>5 DEF SenderStep, CommandUnverified, LookupFinds, LookupMisses, CreateCallFails,
                AcknowledgeSandboxCreate, RetrySandboxCreate, DeliveryFails, SenderForgets, Send
  <2>5. \A m \in wire' : WireMove(m)
    BY <2>3, <2>4 DEF WireMove
  <2>6. CASE LookupFinds(x)
    <3>1. GoTo(x, "ack") /\ sandbox'[sender[x].box] # "absent"
      BY <1>1, <2>6 DEF LookupFinds, Found
    <3> QED
      BY <1>0, <1>2, <2>1, <2>3, <2>5, <3>1, GoToType DEF SenderMove, CallsMove
  <2>7. CASE \E l \in {"create", "relookup", "fail"} : GoTo(x, l)
    BY <1>0, <1>2, <2>1, <2>3, <2>5, <2>7, GoToType DEF SenderMove, CallsMove
  <2>8. CASE Leave(x)
    BY <1>2, <2>5, <2>8, LeaveType DEF SenderMove, CallsMove
  <2> QED
    BY <1>5, <2>6, <2>7, <2>8
       DEF SenderStep, CommandUnverified, LookupMisses, CreateCallFails, AfterError, AcknowledgeSandboxCreate,
           RetrySandboxCreate, DeliveryFails, SenderForgets
<1> QED
  BY <1>4, <1>5

LEMMA ResourceCallsMove ==
  ASSUME SpaceTypeOK, SentHasIntent, NEW m \in wire, ResourceStep(m) \/ CallLost(m)
  PROVE  CallsMove
<1>0. /\ sender \in [Senders -> {NoJob} \cup JobRows]
      /\ sandbox \in [Sandboxes -> {"absent", "present", "removed"}]
      /\ resource \in [Tenants -> Phases \cup {"none"}]
      /\ m.op \in {"open", "close"} => m.about \in Tenants
      /\ m.op = "create" => m.about \in Sandboxes /\ m.to \in Senders
      /\ UNCHANGED rows
  BY DEF SpaceTypeOK, JobRows, Calls, ResourceStep, ResourceOpens, ResourceCloses, ResourceCreates,
         ResourceRefuses, CallLost
<1>1. \A n \in wire' : WireMove(n)
  BY DEF ResourceStep, ResourceOpens, ResourceCloses, ResourceCreates, ResourceRefuses, CallLost, Answer,
         AnswerSender, WireMove
<1>2. UNCHANGED sandbox => \A s \in Sandboxes : SandboxMove(s)
  BY DEF SandboxMove
<1>3. UNCHANGED resource => \A t \in Tenants : ResourceMove(t)
  BY DEF ResourceMove
<1>4. UNCHANGED sender => \A x \in Senders : SenderMove(x)
  BY DEF SenderMove
<1>5. UNCHANGED worker => \A w \in Workers : WorkerMove(w)
  BY DEF WorkerMove
<1>6. ASSUME NEW p \in Phases, m.op \in {"open", "close"}, Answer(m, p), resource'[m.about] = p
      PROVE  \A w \in Workers : WorkerMove(w)
  <2> SUFFICES ASSUME NEW w \in Workers PROVE WorkerMove(w)
    OBVIOUS
  <2>1. \/ worker'[w] = worker[w]
        \/ /\ worker[w] \in CallRows /\ worker[w].tenant = m.about
           /\ worker'[w] = [worker[w] EXCEPT !.answer = p]
    BY <1>6, AnswerType
  <2> QED
    BY <1>6, <2>1 DEF WorkerMove
<1>7. CASE ResourceOpens(m)
  <2> DEFINE p == IF resource[m.about] = "none" THEN "open" ELSE resource[m.about]
  <2>1. p \in Phases /\ Answer(m, p) /\ resource' = [resource EXCEPT ![m.about] = p] /\ m.op = "open"
    BY <1>0, <1>7 DEF ResourceOpens, Phases
  <2>2. resource'[m.about] = p
    BY <1>0, <2>1
  <2>3. \A w \in Workers : WorkerMove(w)
    <3> HIDE DEF p
    <3> QED
      BY <1>6, <2>1, <2>2
  <2>4. \A t \in Tenants : ResourceMove(t)
    BY <1>0, <2>1 DEF ResourceMove
  <2> QED
    BY <1>1, <1>2, <1>4, <1>7, <2>3, <2>4 DEF ResourceOpens, CallsMove
<1>8. CASE ResourceCloses(m)
  <2> DEFINE p == IF resource[m.about] = "closed" THEN "closed" ELSE "closing"
  <2>1. p \in Phases /\ Answer(m, p) /\ resource' = [resource EXCEPT ![m.about] = p] /\ m.op = "close"
    BY <1>8 DEF ResourceCloses, Phases
  <2>2. resource'[m.about] = p
    BY <1>0, <2>1
  <2>3. \A w \in Workers : WorkerMove(w)
    <3> HIDE DEF p
    <3> QED
      BY <1>6, <2>1, <2>2
  <2>4. \A t \in Tenants : ResourceMove(t)
    BY <1>0, <2>1 DEF ResourceMove
  <2> QED
    BY <1>1, <1>2, <1>4, <1>8, <2>3, <2>4 DEF ResourceCloses, CallsMove
<1>9. CASE ResourceCreates(m)
  <2>1. \A s \in Sandboxes : SandboxMove(s)
    BY <1>0, <1>9 DEF ResourceCreates, SandboxMove
  <2>2. intent'[m.about].state # "none" /\ sandbox'[m.about] # "absent"
    BY <1>0, <1>9 DEF SentHasIntent, ResourceCreates, rows
  <2>3. \A x \in Senders :
          \/ sender'[x] = sender[x]
          \/ sender'[x].step = "ack" /\ sender'[x].box = m.about
    BY <1>0, <1>9 DEF ResourceCreates, AnswerSender
  <2>4. \A x \in Senders : SenderMove(x)
    BY <2>2, <2>3 DEF SenderMove
  <2> QED
    BY <1>1, <1>3, <1>5, <1>9, <2>1, <2>4 DEF ResourceCreates, CallsMove
<1>10. CASE CallLost(m)
  BY <1>1, <1>2, <1>3, <1>4, <1>5, <1>10 DEF CallLost, remote, CallsMove
<1>11. CASE ResourceRefuses(m)
  <2>1. intent'[m.about].state # "none"
    BY <1>0, <1>11 DEF SentHasIntent, ResourceRefuses, rows
  <2>2. \A x \in Senders :
          \/ sender'[x] = sender[x]
          \/ sender'[x].step = "relookup" /\ sender'[x].box = m.about
    BY <1>0, <1>11 DEF ResourceRefuses, AnswerSender, AfterError
  <2>3. \A x \in Senders : SenderMove(x)
    BY <2>1, <2>2 DEF SenderMove
  <2> QED
    BY <1>1, <1>2, <1>3, <1>5, <1>11, <2>3 DEF ResourceRefuses, CallsMove
<1> QED
  BY <1>7, <1>8, <1>9, <1>10, <1>11 DEF ResourceStep

LEMMA CallsOnlyMove ==
  ASSUME SpaceTypeOK, SentHasIntent, RowsMove, SpaceNext
  PROVE  CallsMove
<1>1. ASSUME NEW t \in Tenants, TenantStep(t) \/ SpaceTimers(t) PROVE CallsMove
  <2>1. UNCHANGED <<worker, sender, wire, remote>>
    BY <1>1 DEF TenantStep, SpaceTimers, CreateTenant, SwitchStatus, BeginTenantSpaceClose,
                CleanupTenantData, DeleteTenant, SpaceLeaseEnds, SpaceWaitEnds
  <2> QED
    BY <2>1 DEF CallsMove, ResourceMove, SandboxMove, WireMove, WorkerMove, SenderMove, remote
<1>2. ASSUME NEW t \in Tenants, ResourceReady(t) \/ ResourceClosed(t) PROVE CallsMove
  <2>1. UNCHANGED <<worker, sender, wire, sandbox>>
    BY <1>2 DEF ResourceReady, ResourceClosed
  <2>2. \A u \in Tenants : ResourceMove(u)
    BY <1>2 DEF SpaceTypeOK, ResourceReady, ResourceClosed, ResourceMove
  <2> QED
    BY <2>1, <2>2 DEF CallsMove, SandboxMove, WireMove, WorkerMove, SenderMove
<1>3. ASSUME NEW s \in Sandboxes, IntentTimers(s) \/ SandboxRemoved(s) PROVE CallsMove
  <2>1. UNCHANGED <<worker, sender, wire, resource>>
    BY <1>3 DEF IntentTimers, IntentLeaseEnds, IntentWaitEnds, SandboxRemoved, remote
  <2>2. \A b \in Sandboxes : SandboxMove(b)
    BY <1>3 DEF SpaceTypeOK, IntentTimers, IntentLeaseEnds, IntentWaitEnds, SandboxRemoved, remote, SandboxMove
  <2> QED
    BY <2>1, <2>2 DEF CallsMove, ResourceMove, WireMove, WorkerMove, SenderMove
<1>4. ASSUME NEW w \in Workers, WorkerStep(w) \/ WorkerForgets(w) PROVE CallsMove
  <2>1. worker[w].tenant \in Tenants
    <3>1. worker[w] # NoCall
      BY <1>4, WorkerType DEF WorkerStep, WriteBackOpen, WriteBackClose, SpaceCallFails, WorkerForgets
    <3> QED
      BY <3>1, WorkerType DEF CallRows
  <2> QED
    BY <1>4, <2>1, WorkerCallsMove
<1>5. ASSUME NEW x \in Senders, SenderStep(x) \/ DeliveryFails(x) \/ SenderForgets(x) PROVE CallsMove
  <2>1. ~At(x, "idle")
    BY <1>5 DEF SenderStep, CommandUnverified, LookupFinds, LookupMisses, CreateCallFails,
                AcknowledgeSandboxCreate, RetrySandboxCreate, DeliveryFails, SenderForgets, Verified, At
  <2>2. sender[x].box \in Sandboxes
    BY <2>1, SenderType DEF At, JobRows
  <2> QED
    BY <1>5, <2>2, SenderCallsMove
<1> QED
  BY <1>1, <1>2, <1>3, <1>4, <1>5, WorkerCallsMove, SenderCallsMove, ResourceCallsMove DEF SpaceNext

-----------------------------------------------------------------------------
(* What follows from the moves: closing and the acceptance of a creation   *)
(* are never undone, and a space closes only when nothing is on its way.   *)
Steps ==
  /\ SpaceInv
  /\ SpaceTypeOK'
  /\ RowsMove
  /\ CallsMove

LEMMA StepsTaken ==
  ASSUME SpaceInv, SpaceNext
  PROVE  Steps
BY TypesHold, RowsOnlyMove, CallsOnlyMove DEF SpaceInv, Steps

LEMMA RetiredForGood ==
  ASSUME Steps, NEW t \in Tenants
  PROVE  /\ space[t].state \in Retired => space'[t].state \in Retired
         /\ space[t].state \notin Retired /\ space'[t].state \in Retired =>
              Pending(t) = {} /\ UNCHANGED intent
         /\ Exists(t) => Exists(t)' \/ (Intents(t) = {} /\ UNCHANGED intent)
         /\ space[t].state = "CLOSING" => space'[t].state \in {"CLOSING", "CLOSED"}
         /\ space[t].state = "CLOSED" => space'[t].state \in {"CLOSED", "DELETED"}
         /\ space[t].state = "DELETED" => space'[t] = space[t]
<1>1. /\ space[t] \in SpaceRows /\ space'[t] \in SpaceRows /\ SpaceMove(t)
      /\ space[t].live => space[t].state = "DISPATCHING"
      /\ space[t].waiting => space[t].state \in {"UNKNOWN", "CLOSING"}
  BY DEF Steps, SpaceInv, SpaceTypeOK, SpacesShaped, SpaceRows, RowsMove
<1>2. \A w \in Workers : CanOpen(t, w) => space[t].state = "DISPATCHING"
  BY DEF CanOpen, SpaceFence
<1>3. SpaceDue(t) => space[t].state \in Opening
  BY DEF SpaceDue, Opening
<1>4. /\ \A w \in Workers : [Row("DISPATCHING") EXCEPT !.holder = w, !.live = TRUE].state = "DISPATCHING"
      /\ [Row("UNKNOWN") EXCEPT !.waiting = TRUE].state = "UNKNOWN"
  BY DEF Row
<1>5. /\ [space[t] EXCEPT !.waiting = TRUE].state = space[t].state
      /\ [space[t] EXCEPT !.waiting = FALSE].state = space[t].state
      /\ [space[t] EXCEPT !.live = FALSE].state = space[t].state
  BY <1>1 DEF SpaceRows
<1>6. \/ space'[t] = space[t]
      \/ space'[t].state = space[t].state /\ space[t].state \in {"DISPATCHING", "UNKNOWN", "CLOSING"}
      \/ space[t].state = "ABSENT" /\ space'[t].state = "QUEUED"
      \/ /\ Exists(t) /\ space[t].state \notin Retired /\ Pending(t) = {} /\ UNCHANGED intent
         /\ space'[t].state = "CLOSING"
      \/ space[t].state = "CLOSED" /\ Intents(t) = {} /\ UNCHANGED intent /\ space'[t].state = "DELETED"
      \/ space[t].state \in Opening /\ space'[t].state \in {"DISPATCHING", "READY", "UNKNOWN"}
      \/ space[t].state = "CLOSING" /\ space'[t].state = "CLOSED"
  <2>1. CASE \E w \in Workers : CanOpen(t, w) /\ space'[t] = Row("READY")
    BY <1>2, <2>1, RowType DEF Opening
  <2>2. CASE \E w \in Workers : CanOpen(t, w) /\ space'[t] = [Row("UNKNOWN") EXCEPT !.waiting = TRUE]
    BY <1>2, <1>4, <2>2 DEF Opening
  <2>3. CASE SpaceDue(t) /\ \E w \in Workers :
               space'[t] = [Row("DISPATCHING") EXCEPT !.holder = w, !.live = TRUE]
    BY <1>3, <1>4, <2>3
  <2>4. Row("QUEUED").state = "QUEUED" /\ Row("CLOSING").state = "CLOSING"
        /\ Row("DELETED").state = "DELETED" /\ Row("CLOSED").state = "CLOSED"
    BY DEF Row
  <2> QED
    BY <1>1, <1>5, <2>1, <2>2, <2>3, <2>4 DEF SpaceMove
<1>7. CASE space'[t].state = space[t].state
  BY <1>6, <1>7 DEF Exists, Opening, Retired
<1>8. CASE space'[t].state # space[t].state
  <2>1. space[t].state \in Retired => space[t].state \in {"CLOSING", "CLOSED"} /\ space'[t].state \in {"CLOSED", "DELETED"}
    BY <1>6, <1>8 DEF Opening, Retired
  <2>2. space[t].state \notin Retired /\ space'[t].state \in Retired => Pending(t) = {} /\ UNCHANGED intent
    BY <1>6, <1>8 DEF Opening, Retired
  <2>3. Exists(t) => Exists(t)' \/ (Intents(t) = {} /\ UNCHANGED intent)
    BY <1>6, <1>8 DEF Exists, Opening, Retired
  <2>4. /\ space[t].state = "CLOSING" => space'[t].state \in {"CLOSING", "CLOSED"}
        /\ space[t].state = "CLOSED" => space'[t].state \in {"CLOSED", "DELETED"}
        /\ space[t].state # "DELETED"
    BY <1>6, <1>8 DEF Opening, Retired
  <2> QED
    BY <2>1, <2>2, <2>3, <2>4 DEF Retired
<1> QED
  BY <1>7, <1>8

LEMMA IntentsForGood ==
  ASSUME Steps, NEW s \in Sandboxes
  PROVE  /\ intent[s].state # "none" => intent'[s].state # "none"
         /\ intent[s].state = "acked" => intent'[s].state = "acked"
         /\ intent'[s].state = "acked" => intent[s].state = "acked" \/ sandbox[s] # "absent"
         /\ intent[s].state = "none" /\ intent'[s].state # "none" =>
              ~Closing(TenantOf[s]) /\ UNCHANGED space
<1>1. intent[s] \in IntentRows /\ IntentMove(s)
  BY DEF Steps, SpaceInv, SpaceTypeOK, IntentRows, RowsMove
<1>2. \A x \in Senders : sender[x].step = "ack" /\ sender[x].box = s => sandbox[s] # "absent" /\ intent[s].state # "none"
  BY DEF Steps, SpaceInv, AcksTrue, SentHasIntent, NoJob
<1> QED
  BY <1>1, <1>2, RowType DEF IntentMove, IntentDue, IntentRows

LEMMA ResourceForGood ==
  ASSUME Steps
  PROVE  /\ \A t \in Tenants :
              /\ resource[t] = "closed" => resource'[t] = "closed"
              /\ resource[t] \in {"ready", "closing", "closed"} => resource'[t] \in {"ready", "closing", "closed"}
              /\ resource'[t] \in {"closing", "closed"} => space[t].state \in Retired
         /\ \A s \in Sandboxes : sandbox[s] # "absent" => sandbox'[s] # "absent"
<1>1. \A t \in Tenants : ResourceMove(t) /\ resource[t] \in Phases \cup {"none"}
  BY DEF Steps, CallsMove, SpaceInv, SpaceTypeOK
<1>2. \A t \in Tenants : /\ resource[t] \in {"closing", "closed"} => space[t].state \in Retired
                         /\ (\E m \in wire : m.op = "close" /\ m.about = t) => space[t].state \in Retired
  BY DEF Steps, SpaceInv, ClosedOnRequest
<1>3. \A s \in Sandboxes : SandboxMove(s)
  BY DEF Steps, CallsMove
<1> QED
  BY <1>1, <1>2, <1>3 DEF ResourceMove, SandboxMove, Phases

-----------------------------------------------------------------------------
(* The parts of the invariant, one lemma each.                             *)
LEMMA ShapeHolds ==
  ASSUME Steps
  PROVE  SpacesShaped'
<1> SUFFICES ASSUME NEW t \in Tenants
             PROVE  /\ space'[t].state = "DISPATCHING" <=> space'[t].holder # NoOne
                    /\ space'[t].live => space'[t].state = "DISPATCHING"
                    /\ space'[t].waiting => space'[t].state \in {"UNKNOWN", "CLOSING"}
                    /\ space'[t].state \in {"ABSENT", "DELETED"} => t \notin on'
  BY DEF SpacesShaped
<1>1. /\ space[t] \in SpaceRows /\ SpaceMove(t) /\ OnMove(t)
      /\ space[t].state = "DISPATCHING" <=> space[t].holder # NoOne
      /\ space[t].live => space[t].state = "DISPATCHING"
      /\ space[t].waiting => space[t].state \in {"UNKNOWN", "CLOSING"}
      /\ space[t].state \in {"ABSENT", "DELETED"} => t \notin on
  BY DEF Steps, SpaceInv, SpaceTypeOK, SpacesShaped, SpaceRows, RowsMove
<1>2. space'[t].state \in {"ABSENT", "DELETED"} => t \notin on'
  BY <1>1 DEF OnMove
<1> DEFINE Shaped ==
      /\ space'[t].state = "DISPATCHING" <=> space'[t].holder # NoOne
      /\ space'[t].live => space'[t].state = "DISPATCHING"
      /\ space'[t].waiting => space'[t].state \in {"UNKNOWN", "CLOSING"}
<1>3. CASE \E l \in {"QUEUED", "CLOSING", "DELETED", "READY", "CLOSED"} : space'[t] = Row(l)
  <2>1. PICK l \in {"QUEUED", "CLOSING", "DELETED", "READY", "CLOSED"} : space'[t] = Row(l)
    BY <1>3
  <2>2. /\ space'[t].state = l /\ space'[t].holder = NoOne
        /\ ~space'[t].live /\ ~space'[t].waiting
    BY <2>1, RowType DEF Opening, Retired
  <2>3. Shaped
    BY <2>2
  <2> QED
    BY <1>2, <2>3
<1>4. CASE \E w \in Workers : space'[t] = [Row("DISPATCHING") EXCEPT !.holder = w, !.live = TRUE]
  <2>1. PICK w \in Workers : space'[t] = [Row("DISPATCHING") EXCEPT !.holder = w, !.live = TRUE]
    BY <1>4
  <2>2. space'[t] = [state |-> "DISPATCHING", holder |-> w, live |-> TRUE, waiting |-> FALSE]
    BY <2>1 DEF Row
  <2>3. Shaped
    BY <2>2, SpaceAssumption
  <2> QED
    BY <1>2, <2>3
<1>5. CASE space'[t] = [Row("UNKNOWN") EXCEPT !.waiting = TRUE]
  BY <1>2, <1>5 DEF Row
<1>6. CASE \/ space[t].state = "CLOSING" /\ space'[t] = [space[t] EXCEPT !.waiting = TRUE]
           \/ space'[t] = [space[t] EXCEPT !.live = FALSE]
           \/ space'[t] = [space[t] EXCEPT !.waiting = FALSE]
  BY <1>1, <1>2, <1>6 DEF SpaceRows
<1>7. CASE space'[t] = space[t]
  BY <1>1, <1>2, <1>7
<1> QED
  BY <1>1, <1>2, <1>3, <1>4, <1>5, <1>6, <1>7 DEF SpaceMove

LEMMA IntentShapeHolds ==
  ASSUME Steps
  PROVE  IntentsShaped'
<1> SUFFICES ASSUME NEW s \in Sandboxes
             PROVE  /\ intent'[s].state = "none" => intent'[s] = NoIntent
                    /\ intent'[s].live => intent'[s].holder # NoOne
                    /\ intent'[s].state # "none" => Exists(TenantOf[s])'
  BY DEF IntentsShaped, Exists
<1>1. /\ intent[s] \in IntentRows /\ IntentMove(s) /\ TenantOf[s] \in Tenants
      /\ intent[s].state = "none" => intent[s] = NoIntent
      /\ intent[s].live => intent[s].holder # NoOne
      /\ intent[s].state # "none" => Exists(TenantOf[s])
  BY SpaceAssumption DEF Steps, SpaceInv, SpaceTypeOK, IntentsShaped, IntentRows, RowsMove
<1>2. ~NoIntent.live /\ ~NoIntent.waiting /\ NoIntent.state = "none"
  BY RowType DEF NoIntent
<1>3. \A x \in Senders : sender[x].step = "ack" /\ sender[x].box = s => intent[s].state # "none"
  BY DEF Steps, SpaceInv, SentHasIntent, NoJob
<1>4. intent'[s].state = "none" => intent'[s] = NoIntent
  BY <1>1, <1>2, <1>3, RowType DEF IntentMove, IntentDue, IntentRows
<1>5. intent'[s].live => intent'[s].holder # NoOne
  <2>1. CASE \E x \in Couriers : intent'[s] = [intent[s] EXCEPT !.holder = x, !.live = TRUE]
    BY <1>1, <2>1, SpaceAssumption DEF IntentRows
  <2>2. CASE \/ intent'[s] = intent[s] \/ intent'[s] = Row("pending")
             \/ intent'[s] = [intent[s] EXCEPT !.state = "acked"]
             \/ intent'[s] = [intent[s] EXCEPT !.live = FALSE, !.waiting = TRUE]
             \/ intent'[s] = [intent[s] EXCEPT !.live = FALSE]
             \/ intent'[s] = [intent[s] EXCEPT !.waiting = FALSE]
    BY <1>1, <2>2, RowType DEF IntentRows
  <2> QED
    BY <1>1, <2>1, <2>2 DEF IntentMove
<1>6. intent'[s].state # "none" => Exists(TenantOf[s])'
  <2>1. CASE intent[s].state = "none"
    BY <2>1, IntentsForGood DEF Closing, Exists
  <2>2. CASE intent[s].state # "none"
    <3>1. s \in Intents(TenantOf[s])
      BY <2>2 DEF Intents
    <3> QED
      BY <1>1, <2>2, <3>1, RetiredForGood
  <2> QED
    BY <2>1, <2>2
<1> QED
  BY <1>4, <1>5, <1>6

LEMMA RequestHolds ==
  ASSUME Steps
  PROVE  ClosedOnRequest' /\ AnswersTrue'
<1>1. /\ \A t \in Tenants : space[t].state \in Retired => space'[t].state \in Retired
      /\ \A t \in Tenants : resource'[t] \in {"closing", "closed"} => space[t].state \in Retired
  BY RetiredForGood, ResourceForGood
<1>2. \A m \in wire' : m.op = "close" => space'[m.about].state \in Retired
  <2> SUFFICES ASSUME NEW m \in wire', m.op = "close" PROVE space'[m.about].state \in Retired
    OBVIOUS
  <2>1. m.about \in Tenants /\ WireMove(m)
    BY DEF Steps, CallsMove, SpaceTypeOK, Calls
  <2>2. space[m.about].state \in Retired
    BY <2>1 DEF WireMove, Steps, SpaceInv, ClosedOnRequest, Retired
  <2> QED
    BY <1>1, <2>1, <2>2
<1>3. ASSUME NEW w \in Workers
      PROVE  /\ worker'[w].op = "close" => space'[worker'[w].tenant].state \in Retired
             /\ worker'[w].answer \in {"closing", "closed"} => space'[worker'[w].tenant].state \in Retired
             /\ worker'[w].answer = "ready" => resource'[worker'[w].tenant] \in {"ready", "closing", "closed"}
             /\ worker'[w].answer = "closed" => resource'[worker'[w].tenant] = "closed"
  <2>1. /\ WorkerMove(w)
        /\ worker[w].op = "close" => space[worker[w].tenant].state \in Retired
        /\ worker[w].answer \in {"closing", "closed"} => space[worker[w].tenant].state \in Retired
        /\ worker[w].answer = "ready" => resource[worker[w].tenant] \in {"ready", "closing", "closed"}
        /\ worker[w].answer = "closed" => resource[worker[w].tenant] = "closed"
    BY DEF Steps, CallsMove, SpaceInv, ClosedOnRequest, AnswersTrue
  <2>2. worker[w].op # "none" \/ worker[w].answer # "none" => worker[w] \in CallRows
    BY WorkerType DEF Steps, SpaceInv
  <2>3. CASE worker'[w] = worker[w]
    BY <1>1, <2>1, <2>2, <2>3, ResourceForGood DEF CallRows
  <2>4. CASE worker'[w].op # "close" /\ worker'[w].answer = "none"
    BY <2>4
  <2>5. CASE worker'[w].op = "close" /\ worker'[w].answer = "none" /\ space[worker'[w].tenant].state = "CLOSING"
    <3>1. worker'[w].tenant \in Tenants
      BY <2>5, WorkerType DEF Steps, SpaceTypeOK, NoCall
    <3> QED
      BY <1>1, <2>5, <3>1 DEF Retired
  <2>6. CASE worker[w] \in CallRows /\ worker'[w] = [worker[w] EXCEPT !.answer = "error"]
    <3>1. /\ worker'[w].op = worker[w].op /\ worker'[w].tenant = worker[w].tenant
          /\ worker'[w].answer = "error" /\ worker[w].tenant \in Tenants
      BY <2>6 DEF CallRows
    <3> QED
      BY <1>1, <2>1, <3>1
  <2>7. CASE /\ worker[w] \in CallRows
             /\ \E p \in Phases : worker'[w] = [worker[w] EXCEPT !.answer = p] /\ resource'[worker[w].tenant] = p
    <3>1. PICK p \in Phases : worker'[w] = [worker[w] EXCEPT !.answer = p] /\ resource'[worker[w].tenant] = p
      BY <2>7
    <3>2. /\ worker'[w].op = worker[w].op /\ worker'[w].tenant = worker[w].tenant
          /\ worker'[w].answer = p /\ worker[w].tenant \in Tenants
      BY <2>7, <3>1 DEF CallRows
    <3> QED
      BY <1>1, <2>1, <3>1, <3>2
  <2> QED
    BY <2>1, <2>3, <2>4, <2>5, <2>6, <2>7 DEF WorkerMove
<1> QED
  BY <1>1, <1>2, <1>3 DEF ClosedOnRequest, AnswersTrue

LEMMA AcksHold ==
  ASSUME Steps
  PROVE  AcksTrue' /\ SentHasIntent'
<1>1. /\ \A s \in Sandboxes : sandbox[s] # "absent" => sandbox'[s] # "absent"
      /\ \A s \in Sandboxes : intent[s].state # "none" => intent'[s].state # "none"
  BY ResourceForGood, IntentsForGood
<1>2. ASSUME NEW s \in Sandboxes, intent'[s].state = "acked" PROVE sandbox'[s] # "absent"
  BY <1>1, <1>2, IntentsForGood DEF Steps, SpaceInv, AcksTrue
<1>3. ASSUME NEW x \in Senders
      PROVE  /\ sender'[x].step = "ack" => sandbox'[sender'[x].box] # "absent"
             /\ sender'[x] # NoJob => intent'[sender'[x].box].state # "none"
  <2>1. SenderMove(x)
    BY DEF Steps, CallsMove
  <2>2. CASE sender'[x] = sender[x]
    <3>1. sender[x] # NoJob => sender[x].box \in Sandboxes
      BY SenderType DEF Steps, SpaceInv, JobRows
    <3>2. sender[x].step = "ack" => sender[x] # NoJob
      BY DEF NoJob
    <3> QED
      BY <1>1, <2>2, <3>1, <3>2 DEF Steps, SpaceInv, AcksTrue, SentHasIntent
  <2>3. CASE sender'[x] = NoJob
    BY <2>3 DEF NoJob
  <2> QED
    BY <2>1, <2>2, <2>3 DEF SenderMove
<1>4. ASSUME NEW m \in wire', m.op = "create" PROVE intent'[m.about].state # "none"
  <2>1. m.about \in Sandboxes /\ WireMove(m)
    BY <1>4 DEF Steps, CallsMove, SpaceTypeOK, Calls
  <2> QED
    BY <1>1, <1>4, <2>1 DEF WireMove, Steps, SpaceInv, SentHasIntent
<1>5. ASSUME NEW s \in Sandboxes, sandbox'[s] # "absent" PROVE intent'[s].state # "none"
  <2>1. SandboxMove(s)
    BY DEF Steps, CallsMove
  <2> QED
    BY <1>1, <1>5, <2>1 DEF SandboxMove, Steps, SpaceInv, SentHasIntent
<1> QED
  BY <1>2, <1>3, <1>4, <1>5 DEF AcksTrue, SentHasIntent

LEMMA SettledHolds ==
  ASSUME Steps
  PROVE  RetiredSettled'
<1> SUFFICES ASSUME NEW s \in Sandboxes, space'[TenantOf[s]].state \in Retired
             PROVE  intent'[s].state # "pending"
  BY DEF RetiredSettled
<1>1. TenantOf[s] \in Tenants /\ intent[s] \in IntentRows
  BY SpaceAssumption DEF Steps, SpaceInv, SpaceTypeOK, IntentRows
<1>2. CASE space[TenantOf[s]].state \in Retired
  <2>1. intent[s].state \in {"none", "acked"}
    BY <1>1, <1>2 DEF Steps, SpaceInv, RetiredSettled, IntentRows
  <2> QED
    BY <1>2, <2>1, IntentsForGood DEF Closing
<1>3. CASE space[TenantOf[s]].state \notin Retired
  <2>1. Pending(TenantOf[s]) = {} /\ UNCHANGED intent
    BY <1>1, <1>3, RetiredForGood
  <2> QED
    BY <2>1 DEF Pending, Intents
<1> QED
  BY <1>2, <1>3

LEMMA AgreementHolds ==
  ASSUME Steps
  PROVE  SpacesAgree'
<1> SUFFICES ASSUME NEW t \in Tenants
             PROVE  /\ space'[t].state = "READY" => resource'[t] = "ready"
                    /\ space'[t].state \in {"CLOSED", "DELETED"} => resource'[t] = "closed"
  BY DEF SpacesAgree
<1>1. /\ SpaceMove(t) /\ space[t] \in SpaceRows
      /\ space[t].state = "READY" => resource[t] = "ready"
      /\ space[t].state \in {"CLOSED", "DELETED"} => resource[t] = "closed"
  BY DEF Steps, RowsMove, SpaceInv, SpaceTypeOK, SpaceRows, SpacesAgree
<1>2. /\ \A w \in Workers : [Row("DISPATCHING") EXCEPT !.holder = w, !.live = TRUE].state = "DISPATCHING"
      /\ [Row("UNKNOWN") EXCEPT !.waiting = TRUE].state = "UNKNOWN"
      /\ [space[t] EXCEPT !.waiting = TRUE].state = space[t].state
      /\ [space[t] EXCEPT !.waiting = FALSE].state = space[t].state
      /\ [space[t] EXCEPT !.live = FALSE].state = space[t].state
      /\ \A l \in {"QUEUED", "CLOSING", "DELETED", "READY", "CLOSED"} : Row(l).state = l
  BY <1>1 DEF Row, SpaceRows
<1>3. ASSUME space'[t].state = "READY" PROVE resource'[t] = "ready"
  <2>1. \/ space[t].state = "READY"
        \/ \E w \in Workers : CanOpen(t, w) /\ worker[w].answer = "ready"
    BY <1>1, <1>2, <1>3 DEF SpaceMove
  <2>2. resource[t] \in {"ready", "closing", "closed"}
    BY <1>1, <2>1 DEF CanOpen, Steps, SpaceInv, AnswersTrue
  <2>3. resource'[t] \notin {"closing", "closed"}
    BY <1>3, RequestHolds DEF ClosedOnRequest, Retired
  <2> QED
    BY <2>2, <2>3, ResourceForGood
<1>4. ASSUME space'[t].state \in {"CLOSED", "DELETED"} PROVE resource'[t] = "closed"
  <2>1. \/ space[t].state \in {"CLOSED", "DELETED"}
        \/ \E w \in Workers : worker[w].tenant = t /\ worker[w].answer = "closed"
    BY <1>1, <1>2, <1>4 DEF SpaceMove
  <2>2. resource[t] = "closed"
    BY <1>1, <2>1 DEF Steps, SpaceInv, AnswersTrue
  <2> QED
    BY <2>2, ResourceForGood
<1> QED
  BY <1>3, <1>4

-----------------------------------------------------------------------------
LEMMA SpaceStutters ==
  ASSUME UNCHANGED svars
  PROVE  /\ SpaceInv => SpaceInv'
         /\ UNCHANGED <<space, sandbox>>
<1>1. UNCHANGED <<space, on, intent, worker, sender, wire, resource, sandbox, bar, faults>>
  BY DEF svars, rows, remote
<1> QED
  BY <1>1
     DEF SpaceInv, SpaceTypeOK, SpacesShaped, IntentsShaped, Exists, ClosedOnRequest, AnswersTrue,
         AcksTrue, SentHasIntent, RetiredSettled, SpacesAgree

LEMMA SpaceStarts == SpaceInit => SpaceInv
<1> SUFFICES ASSUME SpaceInit PROVE SpaceInv
  OBVIOUS
<1>1. \A t \in Tenants : space[t] \in {Row("ABSENT"), Row("LEGACY")} /\ space[t] \in SpaceRows
  BY RowType DEF SpaceInit
<1>2. /\ \A t \in Tenants : /\ space[t].state \in {"ABSENT", "LEGACY"} /\ space[t].holder = NoOne
                            /\ ~space[t].live /\ ~space[t].waiting
      /\ NoIntent.state = "none" /\ ~NoIntent.live /\ ~NoIntent.waiting /\ NoIntent \in IntentRows
  BY <1>1, RowType DEF NoIntent
<1>3. SpaceTypeOK
  BY <1>1, <1>2, SpaceAssumption DEF SpaceInit, SpaceTypeOK, SpaceRows, IntentRows, NoCall, NoJob
<1>4. SpacesShaped
  BY <1>2 DEF SpaceInit, SpacesShaped
<1>5. IntentsShaped /\ RetiredSettled
  BY <1>2 DEF SpaceInit, IntentsShaped, RetiredSettled
<1>6. ClosedOnRequest /\ AnswersTrue
  BY DEF SpaceInit, ClosedOnRequest, AnswersTrue, NoCall
<1>7. AcksTrue /\ SentHasIntent
  BY <1>2 DEF SpaceInit, AcksTrue, SentHasIntent, NoJob
<1>8. SpacesAgree
  BY <1>2 DEF SpacesAgree
<1> QED
  BY <1>3, <1>4, <1>5, <1>6, <1>7, <1>8 DEF SpaceInv

LEMMA SpaceInvHolds ==
  ASSUME SpaceInv, [SpaceNext]_svars
  PROVE  SpaceInv'
<1>1. CASE SpaceNext
  <2>1. Steps
    BY <1>1, StepsTaken
  <2> QED
    BY <2>1, ShapeHolds, IntentShapeHolds, RequestHolds, AcksHold, SettledHolds, AgreementHolds
       DEF SpaceInv, Steps
<1>2. CASE UNCHANGED svars
  BY <1>2, SpaceStutters
<1> QED
  BY <1>1, <1>2

(* Rows, intents, deliveries, calls and Resource keep to the invariant,    *)
(* for any tenants, sandboxes, processes and faults.                       *)
THEOREM SpaceInvariance == SpaceSpec => []SpaceInv
<1> QED
  BY SpaceStarts, SpaceInvHolds, PTL DEF SpaceSpec

(* What governance says of a space (READY, CLOSED, its tenant deleted)     *)
(* holds at Resource, in spite of late answers and revoked leases.         *)
THEOREM SpacesAgreed == SpaceSpec => []SpacesAgree
<1>1. SpaceInv => SpacesAgree
  BY DEF SpaceInv
<1> QED
  BY <1>1, SpaceInvariance, PTL

(* No creation of a sandbox, however late, takes effect in a space that is *)
(* being closed: registration and close meet in the tenant's row lock.     *)
THEOREM NeverLate == SpaceSpec => NoLateSandbox
<1> DEFINE OnTime == \A s \in Sandboxes :
      sandbox[s] = "absent" /\ sandbox'[s] # "absent" => space[TenantOf[s]].state \notin Retired
<1>1. ASSUME SpaceInv, [SpaceNext]_svars PROVE [OnTime]_svars
  <2>1. CASE SpaceNext
    <3> SUFFICES ASSUME NEW s \in Sandboxes, sandbox[s] = "absent", sandbox'[s] # "absent",
                        space[TenantOf[s]].state \in Retired
                 PROVE  FALSE
      OBVIOUS
    <3>1. Steps
      BY <1>1, <2>1, StepsTaken
    <3>2. \E m \in wire : m.op = "create" /\ m.about = s
      BY <3>1 DEF Steps, CallsMove, SandboxMove
    <3>3. intent[s].state # "none"
      BY <1>1, <3>2 DEF SpaceInv, SentHasIntent
    <3>4. intent[s].state # "pending"
      BY <1>1 DEF SpaceInv, RetiredSettled
    <3>5. intent[s].state = "acked"
      BY <1>1, <3>3, <3>4 DEF SpaceInv, SpaceTypeOK
    <3> QED
      BY <1>1, <3>5 DEF SpaceInv, AcksTrue
  <2>2. CASE UNCHANGED svars
    BY <2>2
  <2> QED
    BY <1>1, <2>1, <2>2
<1> QED
  BY <1>1, SpaceInvariance, PTL DEF SpaceSpec, NoLateSandbox

(* A close is one way: no worker, late or not, reopens the space.          *)
THEOREM ClosesForGood == SpaceSpec => ClosingIsFinal
<1> DEFINE Final == \A t \in Tenants :
       /\ space[t].state = "CLOSING" => space'[t].state \in {"CLOSING", "CLOSED"}
       /\ space[t].state = "CLOSED" => space'[t].state \in {"CLOSED", "DELETED"}
       /\ space[t].state = "DELETED" => space'[t] = space[t]
<1>1. ASSUME SpaceInv, [SpaceNext]_svars PROVE [Final]_svars
  <2>1. CASE SpaceNext
    BY <1>1, <2>1, StepsTaken, RetiredForGood
  <2>2. CASE UNCHANGED svars
    BY <2>2
  <2> QED
    BY <1>1, <2>1, <2>2
<1> QED
  BY <1>1, SpaceInvariance, PTL DEF SpaceSpec, ClosingIsFinal
=============================================================================
