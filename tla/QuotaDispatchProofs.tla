------------------------ MODULE QuotaDispatchProofs ------------------------
(***************************************************************************)
(* Theorems about the ledger together with its workers and the owners, for *)
(* any number of workers, faults, CREATEs and DELETEs.                     *)
(***************************************************************************)
EXTENDS QuotaDispatch, QuotaLedgerProofs

(* A worker writes an outcome back only as the ledger provides.            *)
LEMMA OutcomeIsWriteBack ==
  ASSUME DispatchInv, NEW w \in Workers, Finish(w)
  PROVE  /\ claim[w] # Idle /\ claim[w].op \in Ops /\ claim[w].gen \in Nat
         /\ WriteBackAny \/ UNCHANGED vars
<1> DEFINE o == claim[w].op
           g == claim[w].gen
<1>1. claim[w] # Idle
  BY DEF Finish, Idle
<1>2. o \in Ops /\ g \in Nat
  BY <1>1 DEF DispatchInv, DispatchTypeOK
<1>3. Outcome(o, g, claim[w].step) \/ UNCHANGED vars
  BY DEF Finish
<1>4. claim[w].step \in {"acked", "refused", "failed", "contract"}
  BY DEF Finish
<1>5. o \notin Creates => o \in Deletes
  BY <1>2 DEF Ops
<1>6. Outcome(o, g, claim[w].step) =>
        \/ AckDispatched(o, g)
        \/ \E b \in BOOLEAN : MarkUnknown(o, g, b)
        \/ o \in Creates /\ RejectInferenceImageAndClose(o, g)
        \/ o \in Deletes /\ RejectDeleteVersion(o, g)
  BY <1>4, <1>5 DEF Outcome
<1> HIDE DEF o, g
<1>7. WriteBackAny \/ UNCHANGED vars
  BY <1>2, <1>3, <1>6 DEF WriteBackAny
<1> QED
  BY <1>1, <1>2, <1>7 DEF o, g

(* Every step of the system is a step of the ledger or leaves it alone.    *)
LEMMA DispatchIsStep == DispatchInv /\ DispatchNext => Step \/ UNCHANGED vars
<1> SUFFICES ASSUME DispatchInv, DispatchNext PROVE Step \/ UNCHANGED vars
  OBVIOUS
<1>1. ASSUME NEW w \in Workers, NEW o \in Ops, Claim(w, o) PROVE Step
  BY <1>1 DEF Claim, Step
<1>2. ASSUME NEW w \in Workers, WorkerStep(w) PROVE Step \/ UNCHANGED vars
  BY <1>2, OutcomeIsWriteBack DEF WorkerStep, Send, AnswerAck, AnswerRefused, Step
<1>3. ASSUME NEW w \in Workers, WorkerFault(w) PROVE UNCHANGED vars
  BY <1>3 DEF WorkerFault, GiveUpBeforeSend, AnswerContractError, AnswerTimeout, Crash
<1>4. ASSUME NEW o \in Ops, LeaseRunsOut(o) \/ BackoffOver(o) PROVE Step
  BY <1>4 DEF LeaseRunsOut, Clock, Step
<1>5. ASSUME OwnerStep PROVE Step \/ UNCHANGED vars
  <2>1. ASSUME NEW c \in Creates, NEW e \in Events, NEW q \in Codes, NEW total \in 0 .. Units[c][q],
               OwnerShrinks(c, e, q, total)
        PROVE  Step
    BY <2>1 DEF OwnerShrinks, OwnerReport, Step
  <2>2. ASSUME NEW c \in Creates, NEW e \in Events, OwnerReleases(c, e) PROVE Step
    BY <2>2 DEF OwnerReleases, OwnerReport, Step
  <2> QED
    BY <1>5, <2>1, <2>2 DEF OwnerStep, OwnerAcceptsCreate, OwnerAcceptsDelete, OwnerRefuses, OwnerAborts
<1>6. Request => Step
  BY DEF Step
<1> QED
  BY <1>1, <1>2, <1>3, <1>4, <1>5, <1>6 DEF DispatchNext

(* Claims are counted up.                                                  *)
LEMMA AttemptsGrow ==
  ASSUME TypeOK, Step, NEW o \in Ops
  PROVE  attempts'[o] \in Nat /\ attempts'[o] >= attempts[o]
<1>1. attempts[o] \in Nat
  BY DEF TypeOK
<1>2. ASSUME NEW x \in Ops, ClaimDispatchable(x) PROVE attempts'[o] \in Nat /\ attempts'[o] >= attempts[o]
  BY <1>1, <1>2 DEF ClaimDispatchable, TypeOK
<1>3. (~\E x \in Ops : ClaimDispatchable(x)) => UNCHANGED attempts
  BY ConstantFacts DEF Step, Request, Clock, OwnerReport, WriteBackAny, SetTenantActive, ChangePlan, Occupy,
     CancelUnsent, CreateDeleteOperation, ResumeDispatch, LeaseExpires, BackoffOver, ReleaseItem,
     ReleaseComplete, AckDispatched, MarkUnknown, RejectDeleteVersion, RejectInferenceImageAndClose, delivery
<1> QED
  BY <1>1, <1>2, <1>3

-----------------------------------------------------------------------------
(* What a step does to the claims.                                         *)

(* A worker that is not idle holds a typed claim.                          *)

LEMMA BusyClaim ==
  ASSUME DispatchTypeOK, NEW w \in Workers, claim[w] # Idle
  PROVE  claim[w] \in [op : Ops, gen : Nat, step : Steps]
BY DEF DispatchTypeOK

LEMMA IdleStep ==
  ASSUME DispatchTypeOK, NEW w \in Workers
  PROVE  At(w, "idle") <=> claim[w] = Idle
BY BusyClaim DEF At, Idle, Steps

(* Every step leaves each claim as it is, forgets it, moves it one step    *)
(* on, or is the claim of a due operation under a new generation.          *)
ClaimKept(w)  == claim'[w] = claim[w]
ClaimGone(w)  == claim'[w] = Idle
ClaimMoved(w) ==
  /\ claim[w] # Idle
  /\ \E step \in Steps : claim'[w] = [claim[w] EXCEPT !.step = step]
  /\ claim'[w].step = "acked" => claim[w].op \in accepted
  /\ claim'[w].step = "refused" => claim[w].op \in refused
ClaimMade(w) ==
  \E o \in Ops :
    /\ ClaimDispatchable(o)
    /\ claim'[w] = [op |-> o, gen |-> attempts'[o], step |-> "claimed"]
    /\ \A v \in Workers \ {w} : ClaimKept(v)

LEMMA ClaimCases ==
  ASSUME DispatchInv, DispatchNext
  PROVE  /\ claim' \in [Workers -> {Idle} \cup [op : Ops, gen : Nat, step : Steps]]
         /\ \/ \E w \in Workers : ClaimMade(w)
            \/ /\ \A w \in Workers : ClaimKept(w) \/ ClaimGone(w) \/ ClaimMoved(w)
               /\ UNCHANGED attempts \/ UNCHANGED claim
<1> DEFINE Typed == claim' \in [Workers -> {Idle} \cup [op : Ops, gen : Nat, step : Steps]]
           Goal == /\ Typed
                   /\ \/ \E w \in Workers : ClaimMade(w)
                      \/ /\ \A w \in Workers : ClaimKept(w) \/ ClaimGone(w) \/ ClaimMoved(w)
                         /\ UNCHANGED attempts \/ UNCHANGED claim
<1>0. DispatchTypeOK /\ TypeOK /\ claim \in [Workers -> {Idle} \cup [op : Ops, gen : Nat, step : Steps]]
  BY DEF DispatchInv, DispatchTypeOK
<1>1. ASSUME UNCHANGED claim PROVE Goal
  BY <1>0, <1>1 DEF ClaimKept
<1>2. ASSUME NEW w \in Workers, NEW o \in Ops, Claim(w, o) PROVE Goal
  <2>1. attempts'[o] \in Nat
    BY <1>0, <1>2, AttemptsGrow DEF Claim, Step
  <2>2. claim' = [claim EXCEPT ![w] = [op |-> o, gen |-> attempts'[o], step |-> "claimed"]]
    BY <1>2 DEF Claim
  <2>3. Typed
    BY <1>0, <2>1, <2>2 DEF Steps
  <2>4. ClaimMade(w)
    BY <1>0, <1>2, <2>2 DEF ClaimMade, Claim, ClaimKept
  <2> QED
    BY <2>3, <2>4
<1>3. ASSUME NEW w \in Workers, NEW step \in Steps, MoveTo(w, step), claim[w] # Idle, UNCHANGED attempts,
             step = "acked" => claim[w].op \in accepted,
             step = "refused" => claim[w].op \in refused
      PROVE  Goal
  <2>1. claim[w] \in [op : Ops, gen : Nat, step : Steps]
    BY <1>0, <1>3, BusyClaim
  <2>2. claim' = [claim EXCEPT ![w] = [claim[w] EXCEPT !.step = step]]
    BY <1>3 DEF MoveTo
  <2>3. Typed
    BY <1>0, <2>1, <2>2
  <2>4. claim'[w] = [claim[w] EXCEPT !.step = step] /\ claim'[w].step = step
    BY <1>0, <2>1, <2>2
  <2>5. \A v \in Workers \ {w} : ClaimKept(v)
    BY <1>0, <2>2 DEF ClaimKept
  <2>6. ClaimMoved(w)
    BY <1>3, <2>4 DEF ClaimMoved
  <2> QED
    BY <1>3, <2>3, <2>5, <2>6
<1>4. ASSUME NEW w \in Workers, claim' = [claim EXCEPT ![w] = Idle], UNCHANGED attempts PROVE Goal
  BY <1>0, <1>4 DEF ClaimKept, ClaimGone
<1>5. ASSUME NEW w \in Workers, NEW step, step # "idle", At(w, step) PROVE claim[w] # Idle
  BY <1>5 DEF At, Idle
<1>6. ASSUME NEW w \in Workers, Finish(w) PROVE Goal
  <2>1. claim' = [claim EXCEPT ![w] = Idle]
    BY <1>6 DEF Finish
  <2>2. UNCHANGED attempts
    BY <1>6, OutcomeIsWriteBack DEF WriteBackAny, AckDispatched, MarkUnknown, RejectDeleteVersion,
       RejectInferenceImageAndClose, vars, delivery
  <2> QED
    BY <1>4, <2>1, <2>2
<1>7. ASSUME NEW w \in Workers, WorkerStep(w) PROVE Goal
  <2>1. CASE Send(w)
    BY <1>3, <1>5, <2>1 DEF Send, Steps, vars, delivery
  <2>2. CASE AnswerAck(w)
    BY <1>3, <1>5, <2>2 DEF AnswerAck, Steps, vars, delivery
  <2>3. CASE AnswerRefused(w)
    BY <1>3, <1>5, <2>3 DEF AnswerRefused, Steps, vars, delivery
  <2> QED
    BY <1>6, <1>7, <2>1, <2>2, <2>3 DEF WorkerStep
<1>8. ASSUME NEW w \in Workers, WorkerFault(w) PROVE Goal
  <2>1. CASE GiveUpBeforeSend(w)
    BY <1>3, <1>5, <2>1 DEF GiveUpBeforeSend, Steps, vars, delivery
  <2>2. CASE AnswerContractError(w)
    BY <1>3, <1>5, <2>2 DEF AnswerContractError, Steps, vars, delivery
  <2>3. CASE AnswerTimeout(w)
    BY <1>3, <1>5, <2>3 DEF AnswerTimeout, Steps, vars, delivery
  <2>4. CASE Crash(w)
    BY <1>4, <2>4 DEF Crash, vars, delivery
  <2> QED
    BY <1>8, <2>1, <2>2, <2>3, <2>4 DEF WorkerFault
<1>9. OwnerStep \/ (\E o \in Ops : LeaseRunsOut(o)) => UNCHANGED claim
  BY DEF OwnerStep, LeaseRunsOut, OwnerAcceptsCreate, OwnerAcceptsDelete, OwnerRefuses, OwnerAborts,
     OwnerShrinks, OwnerReleases
<1> HIDE DEF Goal
<1>10. Goal
  BY <1>1, <1>2, <1>7, <1>8, <1>9 DEF DispatchNext
<1> QED
  BY <1>10 DEF Goal

(* Commands on the wire and the owners' answers only accumulate.           *)
LEMMA WireGrows ==
  ASSUME DispatchNext
  PROVE  sent \subseteq sent' /\ accepted \subseteq accepted' /\ refused \subseteq refused'
<1>1. ASSUME NEW w \in Workers, (\E o \in Ops : Claim(w, o)) \/ WorkerStep(w) \/ WorkerFault(w)
      PROVE  sent \subseteq sent' /\ UNCHANGED ownerVars
  BY <1>1 DEF Claim, WorkerStep, WorkerFault, Send, AnswerAck, AnswerRefused, Finish, GiveUpBeforeSend,
     AnswerContractError, AnswerTimeout, Crash
<1>2. OwnerStep => sent \subseteq sent' /\ accepted \subseteq accepted' /\ refused \subseteq refused'
  BY DEF OwnerStep, OwnerAcceptsCreate, OwnerAcceptsDelete, OwnerRefuses, OwnerAborts, OwnerShrinks,
     OwnerReleases, ownerVars
<1>3. ASSUME NEW o \in Ops, LeaseRunsOut(o) PROVE UNCHANGED <<sent, ownerVars>>
  BY <1>3 DEF LeaseRunsOut
<1> QED
  BY <1>1, <1>2, <1>3 DEF DispatchNext, ownerVars

(* A claim stays in force, and a new one is the only one of its            *)
(* generation.                                                             *)
LEMMA ClaimsStep ==
  ASSUME DispatchInv, DispatchNext
  PROVE  ClaimsInForce' /\ OneWriter'
<1>0. DispatchTypeOK /\ TypeOK /\ ClaimsInForce /\ OneWriter
  BY DEF DispatchInv, DispatchTypeOK
<1>1. \A o \in Ops : attempts[o] \in Nat /\ attempts'[o] \in Nat /\ attempts'[o] >= attempts[o]
  BY <1>0, DispatchIsStep, AttemptsGrow DEF vars, delivery, TypeOK
<1>2. ASSUME NEW w \in Workers, claim[w] # Idle
      PROVE  /\ claim[w].op \in Ops /\ claim[w].gen \in Nat
             /\ claim[w].gen \in 1 .. attempts[claim[w].op]
             /\ claim[w].gen \in 1 .. attempts'[claim[w].op]
             /\ claim[w].step = "acked" => claim[w].op \in accepted'
             /\ claim[w].step = "refused" => claim[w].op \in refused'
  <2>1. claim[w].op \in Ops /\ claim[w].gen \in Nat
    BY <1>0, <1>2, BusyClaim
  <2>2. /\ claim[w].gen \in 1 .. attempts[claim[w].op]
        /\ claim[w].step = "acked" => claim[w].op \in accepted
        /\ claim[w].step = "refused" => claim[w].op \in refused
    BY <1>0, <1>2 DEF ClaimsInForce
  <2> QED
    BY <1>1, <2>1, <2>2, WireGrows
<1>3. ASSUME NEW w \in Workers, claim[w].op \in Ops PROVE claim[w] # Idle
  BY <1>3, ConstantFacts DEF Idle
<1>4. ASSUME NEW w \in Workers, ClaimMade(w) PROVE ClaimsInForce' /\ OneWriter'
  <2>1. PICK o \in Ops : /\ ClaimDispatchable(o)
                         /\ claim'[w] = [op |-> o, gen |-> attempts'[o], step |-> "claimed"]
                         /\ \A v \in Workers \ {w} : claim'[v] = claim[v]
    BY <1>4 DEF ClaimMade, ClaimKept
  <2>2. attempts'[o] = attempts[o] + 1
    BY <1>0, <2>1 DEF ClaimDispatchable, TypeOK
  <2>3. ClaimsInForce'
    BY <1>1, <1>2, <2>1, <2>2 DEF ClaimsInForce
  <2>4. ASSUME NEW v \in Workers \ {w}, claim[v].op = o PROVE claim[v].gen < attempts'[o]
    BY <1>1, <1>2, <1>3, <2>2, <2>4
  <2>5. ASSUME NEW v1 \in Workers, NEW v2 \in Workers, NEW x \in Ops,
               claim'[v1].op = x, claim'[v2].op = x, claim'[v1].gen = claim'[v2].gen
        PROVE  v1 = v2
    <3>1. CASE v1 # w /\ v2 # w
      BY <1>0, <2>1, <2>5, <3>1 DEF OneWriter
    <3>2. ASSUME v1 = w, v2 # w PROVE FALSE
      BY <1>1, <2>1, <2>4, <2>5, <3>2
    <3>3. ASSUME v2 = w, v1 # w PROVE FALSE
      BY <1>1, <2>1, <2>4, <2>5, <3>3
    <3> QED
      BY <3>1, <3>2, <3>3
  <2> QED
    BY <2>3, <2>5 DEF OneWriter
<1>5. ASSUME \A w \in Workers : ClaimKept(w) \/ ClaimGone(w) \/ ClaimMoved(w)
      PROVE  ClaimsInForce' /\ OneWriter'
  <2>1. ASSUME NEW w \in Workers, claim'[w] # Idle
        PROVE  /\ claim[w] # Idle
               /\ claim'[w].op = claim[w].op /\ claim'[w].gen = claim[w].gen
               /\ claim'[w].step = "acked" => claim'[w].op \in accepted'
               /\ claim'[w].step = "refused" => claim'[w].op \in refused'
    <3>1. CASE ClaimKept(w)
      BY <1>2, <2>1, <3>1 DEF ClaimKept
    <3>2. CASE ClaimMoved(w)
      <4>1. PICK step \in Steps : claim'[w] = [claim[w] EXCEPT !.step = step]
        BY <3>2 DEF ClaimMoved
      <4>2. claim[w] \in [op : Ops, gen : Nat, step : Steps]
        BY <1>0, <3>2, BusyClaim DEF ClaimMoved
      <4>3. claim'[w].op = claim[w].op /\ claim'[w].gen = claim[w].gen
        BY <4>1, <4>2
      <4> QED
        BY <3>2, <4>3, WireGrows DEF ClaimMoved
    <3> QED
      BY <1>5, <2>1, <3>1, <3>2 DEF ClaimGone
  <2>2. ClaimsInForce'
    BY <1>2, <2>1 DEF ClaimsInForce
  <2>3. ASSUME NEW v1 \in Workers, NEW v2 \in Workers, NEW x \in Ops,
               claim'[v1].op = x, claim'[v2].op = x, claim'[v1].gen = claim'[v2].gen
        PROVE  v1 = v2
    <3>1. claim'[v1] # Idle /\ claim'[v2] # Idle
      BY <2>3, ConstantFacts DEF Idle
    <3> QED
      BY <1>0, <2>1, <2>3, <3>1 DEF OneWriter
  <2> QED
    BY <2>2, <2>3 DEF OneWriter
<1> QED
  BY <1>4, <1>5, ClaimCases

-----------------------------------------------------------------------------
(* What a step does to the wire and to the owners.                         *)
OwnerDecides ==
  \/ \E c \in Creates : OwnerAcceptsCreate(c)
  \/ \E d \in Deletes : OwnerAcceptsDelete(d)
  \/ \E o \in Ops : OwnerRefuses(o)
  \/ \E c \in Creates : OwnerAborts(c)

LEMMA WireCases ==
  ASSUME DispatchNext
  PROVE  \/ UNCHANGED <<sent, ownerVars>>
         \/ \E w \in Workers : Send(w)
         \/ OwnerDecides
<1>1. ASSUME NEW w \in Workers, WorkerStep(w) PROVE Send(w) \/ UNCHANGED <<sent, ownerVars>>
  BY <1>1 DEF WorkerStep, AnswerAck, AnswerRefused, Finish
<1>2. ASSUME NEW w \in Workers, (\E o \in Ops : Claim(w, o)) \/ WorkerFault(w)
      PROVE  UNCHANGED <<sent, ownerVars>>
  BY <1>2 DEF Claim, WorkerFault, GiveUpBeforeSend, AnswerContractError, AnswerTimeout, Crash
<1>3. OwnerStep => OwnerDecides \/ UNCHANGED <<sent, ownerVars>>
  BY DEF OwnerStep, OwnerDecides, OwnerShrinks, OwnerReleases
<1>4. ASSUME NEW o \in Ops, LeaseRunsOut(o) PROVE UNCHANGED <<sent, ownerVars>>
  BY <1>4 DEF LeaseRunsOut
<1> QED
  BY <1>1, <1>2, <1>3, <1>4 DEF DispatchNext

(* A resource that is gone does not come back.                             *)
LEMMA GoneForGood ==
  ASSUME DispatchInv, DispatchNext, NEW c \in Creates, resource[c] = "gone"
  PROVE  resource'[c] = "gone"
<1>1. resource \in [Creates -> {"none", "live", "gone"}]
  BY DEF DispatchInv, DispatchTypeOK
<1>2. UNCHANGED resource => resource'[c] = "gone"
  OBVIOUS
<1>3. ASSUME OwnerDecides PROVE resource'[c] = "gone"
  BY <1>1, <1>3 DEF OwnerDecides, OwnerAcceptsCreate, OwnerAcceptsDelete, OwnerRefuses, OwnerAborts
<1> QED
  BY <1>2, <1>3, WireCases DEF Send, ownerVars

(* Only the write-back of an owner's answer makes an operation ACKED or a  *)
(* DELETE REJECTED.                                                        *)
LEMMA DecidedStep ==
  ASSUME DispatchInv, DispatchNext, NEW o \in Ops
  PROVE  /\ state'[o] = "ACKED" => state[o] = "ACKED" \/ o \in accepted
         /\ o \in Deletes /\ state'[o] = "REJECTED" => state[o] = "REJECTED" \/ o \in refused
<1> DEFINE Goal == /\ state'[o] = "ACKED" => state[o] = "ACKED" \/ o \in accepted
                   /\ o \in Deletes /\ state'[o] = "REJECTED" => state[o] = "REJECTED" \/ o \in refused
<1>0. TypeOK /\ ClaimsInForce
  BY DEF DispatchInv, DispatchTypeOK
<1>1. UNCHANGED state => Goal
  OBVIOUS
<1>2. ASSUME NEW w \in Workers, Finish(w) PROVE Goal
  <2> DEFINE x == claim[w].op
             g == claim[w].gen
  <2>1. claim[w] # Idle /\ x \in Ops
    BY <1>2, OutcomeIsWriteBack
  <2>2. /\ claim[w].step = "acked" => x \in accepted
        /\ claim[w].step = "refused" => x \in refused
    BY <1>0, <2>1 DEF ClaimsInForce
  <2>3. ASSUME claim[w].step = "acked", AckDispatched(x, g) PROVE Goal
    BY <1>0, <2>1, <2>2, <2>3 DEF AckDispatched, TypeOK
  <2>4. ASSUME claim[w].step = "refused", x \in Creates, RejectInferenceImageAndClose(x, g) PROVE Goal
    BY <1>0, <2>4, ConstantFacts DEF RejectInferenceImageAndClose, TypeOK
  <2>5. ASSUME claim[w].step = "refused", RejectDeleteVersion(x, g) PROVE Goal
    BY <1>0, <2>1, <2>2, <2>5 DEF RejectDeleteVersion, TypeOK
  <2>6. ASSUME NEW b \in BOOLEAN, MarkUnknown(x, g, b) PROVE Goal
    BY <1>0, <2>1, <2>6 DEF MarkUnknown, TypeOK
  <2>7. /\ claim[w].step \in {"acked", "refused", "failed", "contract"}
        /\ Outcome(x, g, claim[w].step) \/ UNCHANGED vars
    BY <1>2 DEF Finish
  <2> HIDE DEF x, g, Goal
  <2> QED
    BY <1>1, <2>3, <2>4, <2>5, <2>6, <2>7 DEF Outcome, vars, delivery, Goal
<1>3. ASSUME NEW w \in Workers, NEW x \in Ops, Claim(w, x) PROVE Goal
  BY <1>0, <1>3 DEF Claim, ClaimDispatchable, TypeOK
<1>4. ASSUME NEW w \in Workers, WorkerStep(w) PROVE Finish(w) \/ UNCHANGED state
  BY <1>4 DEF WorkerStep, Send, AnswerAck, AnswerRefused, vars, delivery
<1>5. ASSUME NEW w \in Workers, WorkerFault(w) PROVE UNCHANGED state
  BY <1>5 DEF WorkerFault, GiveUpBeforeSend, AnswerContractError, AnswerTimeout, Crash, vars, delivery
<1>6. ASSUME NEW x \in Ops, LeaseRunsOut(x) \/ BackoffOver(x) PROVE UNCHANGED state
  BY <1>6 DEF LeaseRunsOut, LeaseExpires, BackoffOver
<1>7. ASSUME OwnerStep PROVE UNCHANGED state
  <2>1. ASSUME NEW c \in Creates, OwnerAcceptsCreate(c) \/ OwnerAborts(c) PROVE UNCHANGED state
    BY <2>1 DEF OwnerAcceptsCreate, OwnerAborts, vars, delivery
  <2>2. ASSUME NEW x \in Ops, OwnerAcceptsDelete(x) \/ OwnerRefuses(x) PROVE UNCHANGED state
    BY <2>2 DEF OwnerAcceptsDelete, OwnerRefuses, vars, delivery
  <2>3. ASSUME NEW c \in Creates, NEW e \in Events, NEW q \in Codes, NEW total \in 0 .. Units[c][q],
               OwnerShrinks(c, e, q, total)
        PROVE  UNCHANGED state
    BY <2>3 DEF OwnerShrinks, ReleaseItem, delivery
  <2>4. ASSUME NEW c \in Creates, NEW e \in Events, OwnerReleases(c, e) PROVE UNCHANGED state
    BY <2>4 DEF OwnerReleases, ReleaseComplete, delivery
  <2>5. Deletes \subseteq Ops
    BY DEF Ops
  <2> QED
    BY <1>7, <2>1, <2>2, <2>3, <2>4, <2>5 DEF OwnerStep
<1>8. ASSUME Request PROVE Goal
  <2>1. ASSUME NEW c \in Creates, Occupy(c) \/ CancelUnsent(c) PROVE Goal
    BY <1>0, <2>1, ConstantFacts DEF Occupy, CancelUnsent, TypeOK
  <2>2. ASSUME NEW c \in Creates, NEW d \in Deletes, CreateDeleteOperation(c, d) PROVE Goal
    BY <1>0, <2>2, ConstantFacts DEF CreateDeleteOperation, TypeOK
  <2>3. ASSUME NEW t \in Tenants, (\E on \in BOOLEAN : SetTenantActive(t, on)) \/ (\E p \in Plans : ChangePlan(t, p))
        PROVE  UNCHANGED state
    BY <2>3 DEF SetTenantActive, ChangePlan, delivery
  <2>4. ASSUME NEW x \in Ops, ResumeDispatch(x) PROVE UNCHANGED state
    BY <2>4 DEF ResumeDispatch
  <2> HIDE DEF Goal
  <2> QED
    BY <1>1, <1>8, <2>1, <2>2, <2>3, <2>4 DEF Request, UserDeletes
<1> HIDE DEF Goal
<1>9. Goal
  BY <1>1, <1>2, <1>3, <1>4, <1>5, <1>6, <1>7, <1>8 DEF DispatchNext
<1> QED
  BY <1>9 DEF Goal

(* A DELETE is claimed only after its CREATE was.                          *)
LEMMA DeleteFollowsCreate ==
  ASSUME DispatchInv, NEW d \in Deletes, attempts[d] > 0
  PROVE  origin[d] \in Creates /\ attempts[origin[d]] > 0
<1>1. TypeOK /\ CommandShape /\ attempts[d] \in Nat
  BY ConstantFacts DEF DispatchInv, LedgerInv, TypeOK
<1>2. state[d] \notin {"absent", "QUEUED", "CANCELED_UNSENT"} /\ origin[d] # None
  BY <1>1, ConstantFacts DEF CommandShape
<1>3. origin[d] \in Creates
  BY <1>1, <1>2 DEF TypeOK
<1>4. state[origin[d]] \notin {"absent", "QUEUED", "CANCELED_UNSENT"}
  BY <1>1, <1>2, <1>3 DEF CommandShape
<1>5. attempts[origin[d]] \in Nat /\ attempts[origin[d]] # 0
  BY <1>1, <1>3, <1>4, ConstantFacts DEF CommandShape, TypeOK
<1> QED
  BY <1>3, <1>5

(* Every command on the wire was claimed, and the owners answer only what  *)
(* is on the wire.                                                         *)
LEMMA OwnersStep ==
  ASSUME DispatchInv, DispatchNext
  PROVE  OwnersConsistent'
<1>0. /\ DispatchTypeOK /\ TypeOK /\ OwnersConsistent /\ ClaimsInForce /\ LedgerInv /\ CommandShape
      /\ resource \in [Creates -> {"none", "live", "gone"}]
  BY DEF DispatchInv, DispatchTypeOK, LedgerInv
<1>1. \A o \in Ops : attempts[o] \in Nat /\ attempts'[o] \in Nat /\ attempts'[o] >= attempts[o]
  BY <1>0, DispatchIsStep, AttemptsGrow DEF vars, delivery, TypeOK
<1>2. /\ sent \subseteq Ops /\ accepted \subseteq Ops /\ refused \subseteq Ops
      /\ sent \subseteq sent' /\ accepted \subseteq accepted' /\ refused \subseteq refused'
  BY <1>0, WireGrows DEF DispatchTypeOK
<1>3. ASSUME NEW o \in sent' PROVE attempts'[o] > 0
  <2>1. CASE o \in sent
    BY <1>0, <1>1, <1>2, <2>1 DEF OwnersConsistent
  <2>2. CASE o \notin sent
    <3>1. PICK w \in Workers : Send(w)
      BY <1>3, <2>2, WireCases DEF OwnerDecides, OwnerAcceptsCreate, OwnerAcceptsDelete, OwnerRefuses,
         OwnerAborts
    <3>2. o = claim[w].op /\ claim[w] # Idle
      BY <1>3, <2>2, <3>1 DEF Send, At, Idle
    <3>3. o \in Ops /\ claim[w].gen \in Nat /\ claim[w].gen \in 1 .. attempts[o]
      BY <1>0, <3>2, BusyClaim DEF ClaimsInForce
    <3> QED
      BY <1>1, <3>3
  <2> QED
    BY <2>1, <2>2
<1>4. ASSUME NEW d \in Deletes, d \in sent PROVE origin'[d] = origin[d] /\ origin[d] # None
  <2>1. attempts[d] > 0 /\ attempts[d] \in Nat
    BY <1>0, <1>1, <1>4, ConstantFacts DEF OwnersConsistent
  <2>2. origin[d] # None
    BY <1>0, <2>1, ConstantFacts DEF CommandShape
  <2> QED
    BY <1>0, <2>2, DispatchIsStep, OriginStep DEF vars, delivery
<1>5. ASSUME UNCHANGED <<sent, ownerVars>>
      PROVE  /\ accepted' \cup refused' \subseteq sent'
             /\ \A o \in refused' : o \in Deletes => o \notin accepted' /\ Guarded(origin'[o])
             /\ \A o \in refused' : o \in Creates => Kind[o] = "inference"
             /\ \A c \in Creates : resource'[c] = "live" => c \in accepted'
  BY <1>0, <1>2, <1>4, <1>5 DEF OwnersConsistent, ownerVars
<1>6. ASSUME NEW w \in Workers, Send(w)
      PROVE  /\ accepted' \cup refused' \subseteq sent'
             /\ \A o \in refused' : o \in Deletes => o \notin accepted' /\ Guarded(origin'[o])
             /\ \A o \in refused' : o \in Creates => Kind[o] = "inference"
             /\ \A c \in Creates : resource'[c] = "live" => c \in accepted'
  BY <1>0, <1>2, <1>4, <1>6 DEF OwnersConsistent, Send, ownerVars
<1>7. ASSUME OwnerDecides
      PROVE  /\ accepted' \cup refused' \subseteq sent'
             /\ \A o \in refused' : o \in Deletes => o \notin accepted' /\ Guarded(origin'[o])
             /\ \A o \in refused' : o \in Creates => Kind[o] = "inference"
             /\ \A c \in Creates : resource'[c] = "live" => c \in accepted'
  <2> USE ConstantFacts
  <2> DEFINE Goal == /\ accepted' \cup refused' \subseteq sent'
                     /\ \A o \in refused' : o \in Deletes => o \notin accepted' /\ Guarded(origin'[o])
                     /\ \A o \in refused' : o \in Creates => Kind[o] = "inference"
                     /\ \A c \in Creates : resource'[c] = "live" => c \in accepted'
  <2>1. ASSUME NEW c \in Creates, OwnerAcceptsCreate(c) PROVE Goal
    BY <1>0, <1>2, <1>4, <2>1 DEF OwnersConsistent, OwnerAcceptsCreate, vars, delivery
  <2>2. ASSUME NEW d \in Deletes, OwnerAcceptsDelete(d) PROVE Goal
    BY <1>0, <1>2, <1>4, <2>2 DEF OwnersConsistent, OwnerAcceptsDelete, vars, delivery
  <2>3. ASSUME NEW o \in Ops, OwnerRefuses(o) PROVE Goal
    BY <1>0, <1>2, <1>4, <2>3 DEF OwnersConsistent, OwnerRefuses, vars, delivery
  <2>4. ASSUME NEW c \in Creates, OwnerAborts(c) PROVE Goal
    BY <1>0, <1>2, <1>4, <2>4 DEF OwnersConsistent, OwnerAborts, vars, delivery
  <2> HIDE DEF Goal
  <2>5. Goal
    BY <1>7, <2>1, <2>2, <2>3, <2>4 DEF OwnerDecides
  <2> QED
    BY <2>5 DEF Goal
<1>8. ASSUME NEW d \in Deletes, state'[d] = "REJECTED" PROVE d \in refused'
  BY <1>0, <1>2, <1>8, DecidedStep, ConstantFacts DEF OwnersConsistent
<1>9. ASSUME NEW c \in Creates, resource'[c] # "none" PROVE attempts'[c] > 0
  <2> USE ConstantFacts
  <2>1. CASE resource[c] # "none"
    BY <1>0, <1>1, <2>1 DEF OwnersConsistent
  <2>2. CASE resource[c] = "none"
    <3>1. OwnerDecides
      BY <1>9, <2>2, WireCases DEF Send, ownerVars
    <3>2. ASSUME NEW x \in Creates, OwnerAcceptsCreate(x) PROVE attempts[c] > 0
      BY <1>0, <1>9, <2>2, <3>2 DEF OwnerAcceptsCreate, OwnersConsistent
    <3>3. ASSUME NEW d \in Deletes, OwnerAcceptsDelete(d) PROVE attempts[c] > 0
      <4>1. attempts[d] > 0
        BY <1>0, <3>3 DEF OwnerAcceptsDelete, OwnersConsistent
      <4>2. origin[d] \in Creates /\ attempts[origin[d]] > 0
        BY <4>1, DeleteFollowsCreate
      <4>3. c = origin[d]
        BY <1>0, <1>9, <2>2, <3>3, <4>2 DEF OwnerAcceptsDelete
      <4> QED
        BY <4>2, <4>3
    <3>4. ASSUME NEW o \in Ops, OwnerRefuses(o) PROVE FALSE
      BY <1>9, <2>2, <3>4 DEF OwnerRefuses
    <3>5. ASSUME NEW x \in Creates, OwnerAborts(x) PROVE FALSE
      BY <1>0, <1>9, <2>2, <3>5 DEF OwnerAborts
    <3>6. attempts[c] > 0
      BY <3>1, <3>2, <3>3, <3>4, <3>5 DEF OwnerDecides
    <3> QED
      BY <1>1, <3>6
  <2> QED
    BY <2>1, <2>2
<1> QED
  BY <1>3, <1>5, <1>6, <1>7, <1>8, <1>9, WireCases DEF OwnersConsistent, Guarded

(* The ledger's decisions stay the owners'.                                *)
LEMMA DecisionsStep ==
  ASSUME DispatchInv, DispatchNext
  PROVE  DecisionsAreTheOwners'
<1>1. DecisionsAreTheOwners /\ OwnersConsistent'
  BY OwnersStep DEF DispatchInv
<1>2. ASSUME NEW o \in Ops, state'[o] = "ACKED" PROVE o \in accepted'
  BY <1>1, <1>2, DecidedStep, WireGrows DEF DecisionsAreTheOwners
<1>3. ASSUME NEW d \in Deletes, state'[d] = "REJECTED" PROVE d \notin accepted'
  BY <1>1, <1>3 DEF OwnersConsistent
<1> QED
  BY <1>2, <1>3 DEF DecisionsAreTheOwners

(* A full refund comes with the cancellation of an unsent CREATE, or after *)
(* the resource is gone.                                                   *)
LEMMA ChargedStep ==
  ASSUME DispatchInv, DispatchNext
  PROVE  ChargedUntilGone'
<1>0. /\ TypeOK /\ LedgerInv /\ CommandShape /\ ChargedUntilGone /\ ChargesBounded
      /\ released \in [Creates -> [Codes -> Nat]] /\ state \in [Ops -> States \cup {"absent"}]
  BY DEF DispatchInv, DispatchTypeOK, LedgerInv, TypeOK
<1> SUFFICES ASSUME NEW c \in Creates, resource'[c] # "gone", state'[c] # "CANCELED_UNSENT",
                    NEW q \in Charged(c)
             PROVE  released'[c][q] < Units[c][q]
  BY DEF ChargedUntilGone, Charged
<1>1. resource[c] # "gone"
  BY GoneForGood
<1>2. state[c] # "CANCELED_UNSENT"
  BY <1>0, DispatchIsStep, FinalStep, ConstantFacts DEF vars, delivery, Final
<1>3. q \in Codes /\ released[c][q] < Units[c][q] /\ Units[c][q] \in Nat
  BY <1>0, <1>1, <1>2, ConstantFacts DEF ChargedUntilGone, Charged
<1>4. UNCHANGED released => released'[c][q] < Units[c][q]
  BY <1>3
<1>5. ASSUME NEW x \in Creates, NEW totals, x # c, Refund(x, totals) PROVE released'[c][q] < Units[c][q]
  BY <1>0, <1>3, <1>5 DEF Refund
<1>6. ASSUME NEW x \in Creates, NEW e \in Events, OwnerReleases(x, e) PROVE released'[c][q] < Units[c][q]
  <2>1. x # c
    BY <1>1, <1>6 DEF OwnerReleases
  <2> QED
    BY <1>5, <1>6, <2>1 DEF OwnerReleases, ReleaseComplete
<1>7. ASSUME NEW x \in Creates, NEW e \in Events, NEW p \in Codes, NEW total \in 0 .. Units[x][p],
             OwnerShrinks(x, e, p, total)
      PROVE  released'[c][q] < Units[c][q]
  <2> DEFINE totals == [released[x] EXCEPT ![p] = IF total > @ THEN total ELSE @]
  <2>1. Refund(x, totals) /\ total < Units[x][p]
    BY <1>7 DEF OwnerShrinks, ReleaseItem
  <2>2. released' = [released EXCEPT ![x] = totals]
    BY <2>1 DEF Refund
  <2>3. CASE x # c
    BY <1>5, <2>1, <2>3
  <2>4. CASE x = c
    <3>1. released'[c] = [released[c] EXCEPT ![p] = IF total > @ THEN total ELSE @]
      BY <1>0, <2>2, <2>4
    <3>2. released[c] \in [Codes -> Nat]
      BY <1>0
    <3> QED
      BY <1>3, <2>1, <2>4, <3>1, <3>2
  <2> QED
    BY <2>3, <2>4
<1>8. ASSUME NEW x \in Creates, CancelUnsent(x) PROVE released'[c][q] < Units[c][q]
  <2>1. x # c /\ Refund(x, Units[x])
    BY <1>0, <1>8, ConstantFacts DEF CancelUnsent, CancelLocked, Unsent, Settled
  <2> QED
    BY <1>5, <2>1
<1>9. ASSUME NEW x \in Creates, NEW d \in Deletes, CreateDeleteOperation(x, d)
      PROVE  released'[c][q] < Units[c][q]
  <2>1. UNCHANGED released \/ (Refund(x, Units[x]) /\ state' = [state EXCEPT ![x] = "CANCELED_UNSENT",
                                                                         ![d] = "CANCELED_UNSENT"])
    BY <1>9 DEF CreateDeleteOperation, CancelLocked
  <2>2. ASSUME state' = [state EXCEPT ![x] = "CANCELED_UNSENT", ![d] = "CANCELED_UNSENT"]
        PROVE  x # c
    BY <1>0, <2>2, ConstantFacts
  <2> QED
    BY <1>4, <1>5, <2>1, <2>2
<1>10. ASSUME Request PROVE released'[c][q] < Units[c][q]
  <2>1. ASSUME NEW t \in Tenants, (\E on \in BOOLEAN : SetTenantActive(t, on)) \/ (\E p \in Plans : ChangePlan(t, p))
        PROVE  UNCHANGED released
    BY <2>1 DEF SetTenantActive, ChangePlan, accounts
  <2>2. ASSUME NEW x \in Ops, ResumeDispatch(x) PROVE UNCHANGED released
    BY <2>2 DEF ResumeDispatch, accounts
  <2>3. ASSUME NEW x \in Creates, Occupy(x) PROVE UNCHANGED released
    BY <2>3 DEF Occupy
  <2> QED
    BY <1>4, <1>8, <1>9, <1>10, <2>1, <2>2, <2>3 DEF Request, UserDeletes
<1>11. ASSUME OwnerStep PROVE released'[c][q] < Units[c][q]
  BY <1>4, <1>6, <1>7, <1>11 DEF OwnerStep, OwnerAcceptsCreate, OwnerAcceptsDelete, OwnerRefuses,
     OwnerAborts, vars, accounts
<1>12. ASSUME NEW w \in Workers, (\E o \in Ops : Claim(w, o)) \/ WorkerFault(w)
       PROVE  UNCHANGED released
  BY <1>12 DEF Claim, ClaimDispatchable, WorkerFault, GiveUpBeforeSend, AnswerContractError,
     AnswerTimeout, Crash, vars, accounts
<1>13. ASSUME NEW w \in Workers, WorkerStep(w) PROVE UNCHANGED released
  <2>1. Finish(w) => UNCHANGED released
    BY OutcomeIsWriteBack DEF WriteBackAny, AckDispatched, MarkUnknown, RejectDeleteVersion,
       RejectInferenceImageAndClose, vars, accounts
  <2> QED
    BY <1>13, <2>1 DEF WorkerStep, Send, AnswerAck, AnswerRefused, vars, accounts
<1>14. ASSUME NEW o \in Ops, LeaseRunsOut(o) \/ BackoffOver(o) PROVE UNCHANGED released
  BY <1>14 DEF LeaseRunsOut, LeaseExpires, BackoffOver, accounts
<1> QED
  BY <1>4, <1>10, <1>11, <1>12, <1>13, <1>14 DEF DispatchNext

(* Types of the wire and of the owners.                                    *)
LEMMA DispatchTypeStep ==
  ASSUME DispatchInv, DispatchNext
  PROVE  DispatchTypeOK'
<1>0. DispatchTypeOK /\ TypeOK
  BY DEF DispatchInv, DispatchTypeOK
<1>1. TypeOK'
  BY <1>0, DispatchIsStep, StepType
<1>2. claim' \in [Workers -> {Idle} \cup [op : Ops, gen : Nat, step : Steps]]
  BY ClaimCases
<1>3. sent' \subseteq Ops
  <2>1. ASSUME NEW w \in Workers, Send(w) PROVE sent' \subseteq Ops
    <3>1. claim[w] # Idle
      BY <2>1 DEF Send, At, Idle
    <3>2. claim[w].op \in Ops
      BY <1>0, <3>1, BusyClaim
    <3> QED
      BY <1>0, <2>1, <3>2 DEF DispatchTypeOK, Send
  <2>2. OwnerDecides \/ UNCHANGED <<sent, ownerVars>> => UNCHANGED sent
    BY DEF OwnerDecides, OwnerAcceptsCreate, OwnerAcceptsDelete, OwnerRefuses, OwnerAborts
  <2> QED
    BY <1>0, <2>1, <2>2, WireCases DEF DispatchTypeOK
<1>4. /\ accepted' \subseteq Ops /\ refused' \subseteq Ops
      /\ resource' \in [Creates -> {"none", "live", "gone"}]
  <2>1. ASSUME OwnerDecides
        PROVE  /\ accepted' \subseteq Ops /\ refused' \subseteq Ops
               /\ resource' \in [Creates -> {"none", "live", "gone"}]
    BY <1>0, <2>1, ConstantFacts DEF DispatchTypeOK, OwnerDecides, OwnerAcceptsCreate, OwnerAcceptsDelete,
       OwnerRefuses, OwnerAborts
  <2> QED
    BY <1>0, <2>1, WireCases DEF DispatchTypeOK, Send, ownerVars
<1>5. faults' \in 0 .. MaxFaults
  <2>1. Fault => faults' \in 0 .. MaxFaults
    BY <1>0, DispatchAssumption DEF Fault, DispatchTypeOK
  <2>2. ASSUME NEW w \in Workers, (\E o \in Ops : Claim(w, o)) \/ WorkerStep(w) \/ WorkerFault(w)
        PROVE  Fault \/ UNCHANGED faults
    BY <2>2 DEF Claim, WorkerStep, WorkerFault, Send, AnswerAck, AnswerRefused, Finish, GiveUpBeforeSend,
       AnswerContractError, AnswerTimeout, Crash
  <2>3. OwnerStep => UNCHANGED faults
    BY DEF OwnerStep, OwnerAcceptsCreate, OwnerAcceptsDelete, OwnerRefuses, OwnerAborts, OwnerShrinks,
       OwnerReleases
  <2>4. ASSUME NEW o \in Ops, LeaseRunsOut(o) PROVE Fault \/ UNCHANGED faults
    BY <2>4 DEF LeaseRunsOut
  <2>5. Fault \/ UNCHANGED faults
    BY <2>2, <2>3, <2>4 DEF DispatchNext
  <2> QED
    BY <1>0, <2>1, <2>5 DEF DispatchTypeOK
<1> QED
  BY <1>1, <1>2, <1>3, <1>4, <1>5 DEF DispatchTypeOK

-----------------------------------------------------------------------------
LEMMA DispatchInitInv == DispatchInit => DispatchInv
<1> SUFFICES ASSUME DispatchInit PROVE DispatchInv
  OBVIOUS
<1>1. LedgerInv /\ TypeOK
  BY InitInv DEF DispatchInit, LedgerInv
<1>2. DispatchTypeOK
  BY <1>1, DispatchAssumption DEF DispatchInit, DispatchTypeOK
<1>3. ClaimsInForce /\ OwnersConsistent
  BY ConstantFacts DEF DispatchInit, LedgerInit, ClaimsInForce, OwnersConsistent
<1>4. OneWriter
  BY ConstantFacts DEF DispatchInit, OneWriter, Idle
<1>5. DecisionsAreTheOwners
  BY DEF DispatchInit, LedgerInit, DecisionsAreTheOwners
<1>6. ChargedUntilGone
  BY ConstantFacts DEF DispatchInit, LedgerInit, ChargedUntilGone, Charged
<1> QED
  BY <1>1, <1>2, <1>3, <1>4, <1>5, <1>6 DEF DispatchInv

LEMMA DispatchStepInv == DispatchInv /\ [DispatchNext]_dvars => DispatchInv'
<1>1. ASSUME DispatchInv, DispatchNext PROVE DispatchInv'
  <2>1. LedgerInv'
    BY <1>1, DispatchIsStep, StepInv, StutterInv DEF DispatchInv
  <2> QED
    BY <1>1, <2>1, DispatchTypeStep, ClaimsStep, OwnersStep, DecisionsStep, ChargedStep DEF DispatchInv
<1>2. ASSUME DispatchInv, UNCHANGED dvars PROVE DispatchInv'
  <2>1. LedgerInv' /\ TypeOK'
    BY <1>2, StutterInv DEF DispatchInv, dvars, LedgerInv
  <2>2. UNCHANGED <<claim, sent, accepted, refused, resource, faults, state, origin, attempts, released>>
    BY <1>2 DEF dvars, ownerVars, vars, accounts, delivery
  <2>3. DispatchTypeOK' /\ ClaimsInForce' /\ OneWriter'
    BY <1>2, <2>1, <2>2 DEF DispatchInv, DispatchTypeOK, ClaimsInForce, OneWriter
  <2>4. OwnersConsistent' /\ DecisionsAreTheOwners' /\ ChargedUntilGone'
    BY <1>2, <2>2 DEF DispatchInv, OwnersConsistent, DecisionsAreTheOwners, ChargedUntilGone
  <2> QED
    BY <2>1, <2>3, <2>4 DEF DispatchInv
<1> QED
  BY <1>1, <1>2

(* The invariant of ledger, workers and owners, for any number of workers, *)
(* timeouts, crashes, overrun leases and late deliveries.                  *)
THEOREM DispatchInvariant == DispatchSpec => []DispatchInv
BY DispatchInitInv, DispatchStepInv, PTL DEF DispatchSpec

(* The owner never runs a resource whose CREATE was refunded in full or    *)
(* canceled.                                                               *)
THEOREM LiveResourcesCharged == DispatchSpec => []LiveIsCharged
<1>1. DispatchInv => LiveIsCharged
  <2> SUFFICES ASSUME DispatchInv, NEW c \in Creates, resource[c] = "live"
               PROVE  /\ state[c] # "CANCELED_UNSENT"
                      /\ \A q \in Charged(c) : released[c][q] < Units[c][q]
    BY DEF LiveIsCharged
  <2>1. OwnersConsistent /\ CanceledIsSettled /\ ChargedUntilGone
    BY DEF DispatchInv, LedgerInv
  <2>2. attempts[c] > 0
    BY <2>1 DEF OwnersConsistent
  <2>3. state[c] # "CANCELED_UNSENT"
    BY <2>1, <2>2 DEF CanceledIsSettled
  <2> QED
    BY <2>1, <2>3 DEF ChargedUntilGone
<1> QED
  BY <1>1, DispatchInvariant, PTL

(* A command canceled as unsent is in no worker's hands and was never on   *)
(* the wire.                                                               *)
THEOREM CanceledNeverReachesOwner == DispatchSpec => []CanceledNeverSent
<1>1. DispatchInv => CanceledNeverSent
  <2> SUFFICES ASSUME DispatchInv, NEW o \in Ops, state[o] = "CANCELED_UNSENT"
               PROVE  o \notin sent /\ \A w \in Workers : claim[w].op # o
    BY DEF CanceledNeverSent
  <2>1. OwnersConsistent /\ ClaimsInForce /\ CommandShape
    BY DEF DispatchInv, LedgerInv
  <2>2. attempts[o] = 0
    BY <2>1 DEF CommandShape
  <2>3. o \notin sent
    BY <2>1, <2>2 DEF OwnersConsistent
  <2>4. ASSUME NEW w \in Workers, claim[w].op = o PROVE FALSE
    <3>1. claim[w] # Idle
      BY <2>4, ConstantFacts DEF Idle
    <3>2. claim[w].gen \in 1 .. 0
      BY <2>1, <2>2, <2>4, <3>1 DEF ClaimsInForce
    <3> QED
      BY <3>2
  <2> QED
    BY <2>3, <2>4
<1> QED
  BY <1>1, DispatchInvariant, PTL

(* Of all workers that hold an operation, one can write it back.           *)
THEOREM WritersExcluded == DispatchSpec => []OneWriter
<1>1. DispatchInv => OneWriter
  BY DEF DispatchInv
<1> QED
  BY <1>1, DispatchInvariant, PTL

(* What the ledger records as decided is what the owner decided.           *)
THEOREM DecisionsAgree == DispatchSpec => []DecisionsAreTheOwners
<1>1. DispatchInv => DecisionsAreTheOwners
  BY DEF DispatchInv
<1> QED
  BY <1>1, DispatchInvariant, PTL

-----------------------------------------------------------------------------
(* The ledger in the whole system.                                         *)

(* Workers, wire and owners only ever do to the ledger what the ledger     *)
(* itself allows, under whatever generation a worker believes in: the      *)
(* system implements the ledger with any steps at all.                     *)
THEOREM DispatchKeepsLedger == DispatchSpec => StepSpec
<1>1. DispatchInit => LedgerInit
  BY DEF DispatchInit
<1>2. DispatchInv /\ [DispatchNext]_dvars => [Step]_vars
  <2>1. UNCHANGED dvars => UNCHANGED vars
    BY DEF dvars
  <2> QED
    BY <2>1, DispatchIsStep
<1> QED
  BY <1>1, <1>2, DispatchInvariant, PTL DEF DispatchSpec, StepSpec

(* With any number of workers, crashes, overrun leases and late answers    *)
(* the accounts still add up, a VM or container instance never has two     *)
(* DELETEs its owner may execute, no rejected CREATE is without its close, *)
(* and refunds are what the receipts of release events report.             *)
THEOREM DispatchBooksBalance ==
  DispatchSpec => [](Balanced /\ SingleActiveDelete /\ RejectedHasClose /\ RefundsFollowReceipts)
<1>1. LedgerInv => SingleActiveDelete /\ RejectedHasClose
  BY DEF LedgerInv
<1> QED
  BY <1>1, DispatchKeepsLedger, StepsKeepInvariant, StepsBalance, StepsFollowReceipts, PTL

(* Nothing a worker writes back late takes back a refund or a decision.    *)
THEOREM DispatchIrrevocable == DispatchSpec => NothingTakenBack
BY DispatchKeepsLedger, StepsIrrevocable

(* The whole system implements the abstract accounting.                    *)
THEOREM DispatchImplementsAccounting == DispatchSpec => ImplementsAccounting
BY DispatchKeepsLedger, StepsImplementAccounting

-----------------------------------------------------------------------------
(* What quota is for: what runs is what is charged, and what is charged is *)
(* within a plan.                                                          *)

(* The resources of a tenant that its owners run and that were charged q.  *)
Running(t, q) == {c \in Creates : TenantOf[c] = t /\ resource[c] = "live" /\ q \in Charged(c)}

RunningIsCounted ==
  \A t \in Tenants : \A q \in Codes : Cardinality(Running(t, q)) <= occupied[t][q]

RunningWithinSomePlan ==
  \A t \in Tenants : \A q \in Codes : \E p \in Plans : Cardinality(Running(t, q)) <= p[q]

(* The GPUs of a tenant that are running, counted in units.                *)
GpusRunning(t, q) == SumOver([c \in Creates |-> Units[c][q]], Running(t, q))

GpusWithinSomePlan ==
  \A t \in Tenants : \A q \in GpuCodes :
    GpusRunning(t, q) <= occupied[t][q] /\ \E p \in Plans : GpusRunning(t, q) <= p[q]

(* A running resource belongs to an admitted CREATE that still owes part   *)
(* of each of its charges.                                                 *)
LEMMA RunningOwes ==
  ASSUME DispatchInv, NEW t \in Tenants, NEW q \in Codes
  PROVE  /\ IsFiniteSet(Running(t, q)) /\ Running(t, q) \subseteq Mine(t)
         /\ \A c \in Running(t, q) : /\ released[c][q] < Units[c][q]
                                      /\ Owed(q)[c] \in Nat /\ Owed(q)[c] >= 1
<1>1. /\ TypeOK /\ CommandShape /\ CanceledIsSettled /\ OwnersConsistent /\ ChargedUntilGone
      /\ OwedUnits
  BY OwedFacts DEF DispatchInv, LedgerInv
<1>2. ASSUME NEW c \in Running(t, q)
      PROVE  /\ c \in Mine(t) /\ released[c][q] < Units[c][q]
             /\ Owed(q)[c] \in Nat /\ Owed(q)[c] >= 1
  <2>1. c \in Creates /\ TenantOf[c] = t /\ resource[c] = "live" /\ q \in Charged(c)
    BY DEF Running
  <2>2. attempts[c] > 0
    BY <1>1, <2>1 DEF OwnersConsistent
  <2>3. state[c] \notin {"absent", "CANCELED_UNSENT"}
    BY <1>1, <2>1, <2>2, ConstantFacts DEF CommandShape
  <2>4. released[c][q] < Units[c][q]
    BY <1>1, <2>1, <2>3 DEF ChargedUntilGone
  <2>5. released[c][q] \in Nat /\ Units[c][q] \in Nat
    BY <1>1, <2>1, ConstantFacts DEF TypeOK
  <2>6. Owed(q)[c] = Units[c][q] - released[c][q] /\ Owed(q)[c] \in Nat
    BY <1>1, <2>1 DEF OwedUnits
  <2> QED
    BY <2>1, <2>3, <2>4, <2>5, <2>6 DEF Mine
<1>3. Running(t, q) \subseteq Mine(t) /\ IsFiniteSet(Mine(t))
  BY <1>2, MineFinite
<1> QED
  BY <1>2, <1>3, FS_Subset

(* What the running resources of a tenant owe is in its account.           *)
LEMMA RunningIsOwed ==
  ASSUME DispatchInv, Balanced, NEW t \in Tenants, NEW q \in Codes
  PROVE  SumOver(Owed(q), Running(t, q)) <= occupied[t][q]
<1>1. occupied[t][q] = SumOver(Owed(q), Mine(t))
  BY BalancedIsSum DEF InBalance
<1>2. \A c \in Mine(t) : Owed(q)[c] \in Nat
  BY MineFinite, OwedFacts DEF OwedUnits, DispatchInv
<1>3. IsFiniteSet(Mine(t)) /\ Running(t, q) \in SUBSET Mine(t)
  BY MineFinite, RunningOwes
<1> QED
  BY <1>1, <1>2, <1>3, SumSubset

LEMMA RunningCounted ==
  ASSUME DispatchInv, Balanced, NEW t \in Tenants, NEW q \in Codes
  PROVE  Cardinality(Running(t, q)) <= occupied[t][q]
<1>1. Cardinality(Running(t, q)) <= SumOver(Owed(q), Running(t, q))
  BY RunningOwes, SumCounts
<1>2. SumOver(Owed(q), Running(t, q)) <= occupied[t][q]
  BY RunningIsOwed
<1>3. /\ Cardinality(Running(t, q)) \in Nat /\ SumOver(Owed(q), Running(t, q)) \in Nat
      /\ occupied[t][q] \in Nat
  BY RunningOwes, FS_CardinalityType, SumType DEF DispatchInv, LedgerInv, TypeOK
<1> QED
  BY <1>1, <1>2, <1>3

(* No owner runs more of a tenant's resources than the tenant's account    *)
(* counts units, and never more than some plan allows: across admission,   *)
(* delivery, lease takeovers, crashes, releases and cancellation, and      *)
(* however plans are changed under live charges.                           *)
THEOREM RunningIsWithinQuota == DispatchSpec => [](RunningIsCounted /\ RunningWithinSomePlan)
<1>1. DispatchInv /\ Balanced /\ WithinSomePlan => RunningIsCounted /\ RunningWithinSomePlan
  <2> SUFFICES ASSUME DispatchInv, Balanced, WithinSomePlan, NEW t \in Tenants, NEW q \in Codes
               PROVE  /\ Cardinality(Running(t, q)) <= occupied[t][q]
                      /\ \E p \in Plans : Cardinality(Running(t, q)) <= p[q]
    BY DEF RunningIsCounted, RunningWithinSomePlan
  <2>1. Cardinality(Running(t, q)) <= occupied[t][q]
    BY RunningCounted
  <2>2. PICK p \in Plans : occupied[t][q] <= p[q]
    BY DEF WithinSomePlan
  <2>3. p[q] \in Nat /\ occupied[t][q] \in Nat /\ Cardinality(Running(t, q)) \in Nat
    BY ConstantsAssumption, RunningOwes, FS_CardinalityType DEF DispatchInv, LedgerInv, TypeOK
  <2> QED
    BY <2>1, <2>2, <2>3
<1> QED
  BY <1>1, DispatchInvariant, DispatchKeepsLedger, StepsBalance, StepsStayWithinPlans, PTL

(* No tenant ever has more GPUs running, over all its resources, than its  *)
(* account holds and than some plan allows: the charge of a GPU is given   *)
(* back as a whole, and only when the resource is gone.                    *)
THEOREM GpusAreWithinQuota == DispatchSpec => []GpusWithinSomePlan
<1>1. DispatchInv /\ Balanced /\ WithinSomePlan /\ GpuWhole => GpusWithinSomePlan
  <2> SUFFICES ASSUME DispatchInv, Balanced, WithinSomePlan, GpuWhole,
                      NEW t \in Tenants, NEW q \in GpuCodes
               PROVE  /\ GpusRunning(t, q) <= occupied[t][q]
                      /\ \E p \in Plans : GpusRunning(t, q) <= p[q]
    BY DEF GpusWithinSomePlan
  <2>1. q \in Codes
    BY ConstantsAssumption
  <2>2. \A c \in Running(t, q) : /\ c \in Creates /\ Units[c][q] \in Nat
                                 /\ [x \in Creates |-> Units[x][q]][c] = Owed(q)[c]
    <3> SUFFICES ASSUME NEW c \in Running(t, q)
                 PROVE  c \in Creates /\ Units[c][q] \in Nat /\ Units[c][q] = Owed(q)[c]
      BY DEF Running
    <3>1. c \in Creates /\ Units[c][q] \in Nat
      BY <2>1, ConstantFacts DEF Running
    <3>2. released[c][q] = 0
      BY <2>1, <3>1, RunningOwes DEF GpuWhole
    <3>3. Owed(q)[c] = Units[c][q] - released[c][q]
      BY <2>1, <3>1, OwedFacts DEF OwedUnits, DispatchInv
    <3> QED
      BY <3>1, <3>2, <3>3
  <2>3. GpusRunning(t, q) = SumOver(Owed(q), Running(t, q))
    BY <2>1, <2>2, RunningOwes, SumSame DEF GpusRunning
  <2>4. GpusRunning(t, q) <= occupied[t][q]
    BY <2>1, <2>3, RunningIsOwed
  <2>5. PICK p \in Plans : occupied[t][q] <= p[q]
    BY <2>1 DEF WithinSomePlan
  <2>6. p[q] \in Nat /\ occupied[t][q] \in Nat /\ GpusRunning(t, q) \in Nat
    BY <2>1, <2>3, ConstantsAssumption, RunningOwes, SumType DEF DispatchInv, LedgerInv, TypeOK
  <2> QED
    BY <2>4, <2>5, <2>6
<1> QED
  BY <1>1, DispatchInvariant, DispatchKeepsLedger, StepsBalance, StepsStayWithinPlans,
     StepsRefundGpuWhole, PTL

-----------------------------------------------------------------------------
(* Refinement: what the GPU usage projection takes for granted.            *)

usage    == [c \in GpuCreates |-> UsageFact(c)]
deletion == {c \in GpuCreates : \E d \in Deletes : origin[d] = c}

(* The usage of a CREATE never claimed has not ended.                      *)
LEMMA UnsentIsAccepted ==
  ASSUME DispatchInv, NEW c \in GpuCreates, Unsent(c)
  PROVE  UsageFact(c) = "accepted"
<1>1. c \in Creates /\ Charged(c) \cap GpuCodes # {}
  BY DEF GpuCreates
<1>2. resource[c] = "none"
  <2>1. OwnersConsistent /\ attempts[c] = 0
    BY DEF DispatchInv, Unsent
  <2> QED
    BY <1>1, <2>1 DEF OwnersConsistent
<1>3. \A q \in Charged(c) : released[c][q] < Units[c][q]
  BY <1>1, <1>2 DEF DispatchInv, ChargedUntilGone, Unsent
<1>4. \A q \in Charged(c) : released[c][q] \in Nat /\ Units[c][q] \in Nat
  BY <1>1, ConstantFacts DEF DispatchInv, LedgerInv, TypeOK, Charged
<1>5. ~\A q \in Charged(c) \cap GpuCodes : released[c][q] = Units[c][q]
  BY <1>1, <1>3, <1>4
<1> QED
  BY <1>5 DEF UsageFact, Unsent

(* Steps that leave rows and charges alone are invisible to the usage.     *)
LEMMA UsageKept ==
  ASSUME UNCHANGED <<origin, released>>,
         \A c \in Creates : \/ state'[c] = state[c]
                           \/ /\ state[c] \notin {"absent", "CANCELED_UNSENT"}
                              /\ state'[c] \notin {"absent", "CANCELED_UNSENT"}
  PROVE  UNCHANGED <<usage, deletion>>
<1>1. \A c \in GpuCreates : UsageFact(c)' = UsageFact(c)
  BY DEF UsageFact, GpuCreates
<1>2. UNCHANGED usage
  BY <1>1 DEF usage
<1> QED
  BY <1>2 DEF deletion

(* A DELETE row is added to a CREATE whose usage stays the same.           *)
LEMMA DeletePersisted ==
  ASSUME DispatchInv, NEW c \in Creates, NEW d \in Deletes, state[c] # "absent",
         origin' = [origin EXCEPT ![d] = c], origin[d] = None,
         UNCHANGED usage
  PROVE  [Source!Next]_<<usage, deletion>>
<1>1. origin \in [Deletes -> Creates \cup {None}]
  BY DEF DispatchInv, LedgerInv, TypeOK
<1>2. CASE c \notin GpuCreates
  <2>1. UNCHANGED deletion
    BY <1>1, <1>2, ConstantFacts DEF deletion, GpuCreates
  <2> QED
    BY <2>1
<1>3. CASE c \in GpuCreates
  <2>1. deletion' = deletion \cup {c}
    BY <1>1, <1>3, ConstantFacts DEF deletion, GpuCreates
  <2>2. usage[c] # "absent"
    BY <1>3 DEF usage, UsageFact
  <2>3. Source!PersistDelete(c)
    BY <2>1, <2>2 DEF Source!PersistDelete, usage, deletion
  <2> QED
    BY <1>3, <2>3 DEF Source!Next
<1> QED
  BY <1>2, <1>3

(* The cancellation of an unsent CREATE, with or without a DELETE row.     *)
LEMMA CancellationEnds ==
  ASSUME DispatchInv, NEW c \in Creates, Unsent(c), Refund(c, Units[c]),
         \A x \in Creates \ {c} : state'[x] = state[x],
         state'[c] = "CANCELED_UNSENT",
         deletion' \in {deletion, deletion \cup ({c} \cap GpuCreates)}
  PROVE  [Source!Next]_<<usage, deletion>>
<1>1. released' = [released EXCEPT ![c] = Units[c]] /\ released \in [Creates -> [Codes -> Nat]]
  BY DEF Refund, DispatchInv, LedgerInv, TypeOK
<1>2. \A x \in GpuCreates \ {c} : UsageFact(x)' = UsageFact(x)
  BY <1>1 DEF UsageFact, GpuCreates
<1>3. CASE c \notin GpuCreates
  <2>1. UNCHANGED usage
    BY <1>2, <1>3 DEF usage
  <2> QED
    BY <1>3, <2>1
<1>4. CASE c \in GpuCreates
  <2>1. usage[c] = "accepted"
    BY <1>4, UnsentIsAccepted DEF usage
  <2>2. usage' = [usage EXCEPT ![c] = "canceled-unsent"]
    BY <1>2, <1>4 DEF usage, UsageFact
  <2>3. deletion' \in {deletion, deletion \cup {c}}
    BY <1>4
  <2>4. Source!CancelUnsent(c)
    BY <2>1, <2>2, <2>3 DEF Source!CancelUnsent, usage, deletion
  <2> QED
    BY <1>4, <2>4 DEF Source!Next
<1> QED
  BY <1>3, <1>4

LEMMA SourceRequest ==
  ASSUME DispatchInv, Request
  PROVE  [Source!Next]_<<usage, deletion>>
<1> USE ConstantFacts
<1> DEFINE Goal == [Source!Next]_<<usage, deletion>>
<1>0. /\ TypeOK /\ CommandShape
      /\ state \in [Ops -> States \cup {"absent"}]
      /\ origin \in [Deletes -> Creates \cup {None}]
  BY DEF DispatchInv, LedgerInv, TypeOK
<1>1. ASSUME NEW c \in Creates, Occupy(c) PROVE Goal
  <2>1. state[c] = "absent" /\ state' = [state EXCEPT ![c] = "QUEUED"] /\ UNCHANGED <<released, origin>>
    BY <1>1 DEF Occupy
  <2>2. \A x \in GpuCreates \ {c} : UsageFact(x)' = UsageFact(x)
    BY <1>0, <2>1 DEF UsageFact, GpuCreates
  <2>3. UNCHANGED deletion
    BY <2>1 DEF deletion
  <2>4. CASE c \notin GpuCreates
    BY <2>2, <2>3, <2>4 DEF usage
  <2>5. CASE c \in GpuCreates
    <3>1. \E q \in Charged(c) \cap GpuCodes : released'[c][q] = 0 /\ Units[c][q] > 0
      BY <2>1, <2>5 DEF GpuCreates, Charged, DispatchInv, LedgerInv, ChargesBounded
    <3>2. state'[c] = "QUEUED"
      BY <1>0, <2>1
    <3>3. UsageFact(c) = "absent" /\ UsageFact(c)' = "accepted"
      BY <2>1, <3>1, <3>2 DEF UsageFact
    <3>4. usage[c] = "absent" /\ usage' = [usage EXCEPT ![c] = "accepted"]
      BY <2>2, <2>5, <3>3 DEF usage
    <3>5. Source!Accept(c)
      BY <2>3, <3>4 DEF Source!Accept, usage, deletion
    <3> QED
      BY <2>5, <3>5 DEF Source!Next
  <2> QED
    BY <2>4, <2>5
<1>2. ASSUME NEW c \in Creates, CancelUnsent(c) PROVE Goal
  <2>1. /\ Unsent(c) /\ Refund(c, Units[c]) /\ UNCHANGED origin
        /\ state' = [state EXCEPT ![c] = "CANCELED_UNSENT"]
    BY <1>2 DEF CancelUnsent, CancelLocked, Unsent, Settled
  <2>2. UNCHANGED deletion
    BY <2>1 DEF deletion
  <2>3. state'[c] = "CANCELED_UNSENT" /\ \A x \in Creates \ {c} : state'[x] = state[x]
    BY <1>0, <2>1
  <2> QED
    BY <2>1, <2>2, <2>3, CancellationEnds
<1>3. ASSUME NEW c \in Creates, NEW d \in Deletes, CreateDeleteOperation(c, d) PROVE Goal
  <2>1. origin[d] = None /\ state[c] # "absent" /\ origin' = [origin EXCEPT ![d] = c]
    BY <1>3 DEF CreateDeleteOperation
  <2>2. ASSUME state[c] = "CANCELED_UNSENT" \/ Unsent(c), CancelLocked(c),
               state' = [state EXCEPT ![c] = "CANCELED_UNSENT", ![d] = "CANCELED_UNSENT"]
        PROVE  Goal
    <3>1. state'[c] = "CANCELED_UNSENT" /\ \A x \in Creates \ {c} : state'[x] = state[x]
      BY <1>0, <2>2
    <3>2. CASE Unsent(c)
      <4>1. Refund(c, Units[c])
        BY <2>2, <3>2 DEF CancelLocked, Settled, Unsent
      <4>2. deletion' = deletion \cup ({c} \cap GpuCreates)
        BY <1>0, <2>1 DEF deletion, GpuCreates
      <4> QED
        BY <3>1, <3>2, <4>1, <4>2, CancellationEnds
    <3>3. CASE ~Unsent(c)
      <4>1. state[c] = "CANCELED_UNSENT" /\ UNCHANGED released
        BY <2>2, <3>3 DEF CancelLocked
      <4>2. \A x \in GpuCreates : UsageFact(x)' = UsageFact(x)
        BY <3>1, <4>1 DEF UsageFact, GpuCreates
      <4>3. UNCHANGED usage
        BY <4>2 DEF usage
      <4> QED
        BY <2>1, <4>3, DeletePersisted
    <3> QED
      BY <3>2, <3>3
  <2>3. ASSUME state' = [state EXCEPT ![d] = "QUEUED"], UNCHANGED released PROVE Goal
    <3>1. \A x \in GpuCreates : UsageFact(x)' = UsageFact(x)
      BY <1>0, <2>3 DEF UsageFact, GpuCreates
    <3>2. UNCHANGED usage
      BY <3>1 DEF usage
    <3> QED
      BY <2>1, <3>2, DeletePersisted
  <2> QED
    BY <1>3, <2>2, <2>3 DEF CreateDeleteOperation
<1>4. ASSUME NEW t \in Tenants, (\E on \in BOOLEAN : SetTenantActive(t, on)) \/ (\E p \in Plans : ChangePlan(t, p))
      PROVE  Goal
  BY <1>4, UsageKept DEF SetTenantActive, ChangePlan, accounts, delivery
<1>5. ASSUME NEW o \in Ops, ResumeDispatch(o) PROVE Goal
  BY <1>5, UsageKept DEF ResumeDispatch, accounts
<1> HIDE DEF Goal
<1>6. Goal
  BY <1>1, <1>2, <1>3, <1>4, <1>5 DEF Request, UserDeletes
<1> QED
  BY <1>6 DEF Goal

LEMMA SourceWriteBack ==
  ASSUME DispatchInv, WriteBackAny \/ \E o \in Ops : ClaimDispatchable(o)
  PROVE  [Source!Next]_<<usage, deletion>>
<1> USE ConstantFacts
<1> DEFINE Goal == [Source!Next]_<<usage, deletion>>
<1>0. /\ TypeOK /\ state \in [Ops -> States \cup {"absent"}]
      /\ origin \in [Deletes -> Creates \cup {None}]
  BY DEF DispatchInv, LedgerInv, TypeOK
<1>1. ASSUME NEW o \in Ops, NEW s \in {"DISPATCHING", "ACKED", "UNKNOWN", "REJECTED"},
             state' = [state EXCEPT ![o] = s], state[o] \in {"QUEUED", "UNKNOWN", "DISPATCHING"},
             UNCHANGED <<origin, released>>
      PROVE  Goal
  BY <1>0, <1>1, UsageKept
<1>2. ASSUME NEW o \in Ops, ClaimDispatchable(o) PROVE Goal
  BY <1>1, <1>2 DEF ClaimDispatchable, DispatchDue, accounts
<1>3. ASSUME NEW o \in Ops, NEW g \in Nat, AckDispatched(o, g) PROVE Goal
  BY <1>1, <1>3 DEF AckDispatched, Fence, accounts
<1>4. ASSUME NEW o \in Ops, NEW g \in Nat, NEW b \in BOOLEAN, MarkUnknown(o, g, b) PROVE Goal
  BY <1>1, <1>4 DEF MarkUnknown, Fence, accounts
<1>5. ASSUME NEW d \in Deletes, NEW g \in Nat, RejectDeleteVersion(d, g) PROVE Goal
  BY <1>1, <1>5 DEF RejectDeleteVersion, Fence, accounts
<1>6. ASSUME NEW c \in Creates, NEW g \in Nat, RejectInferenceImageAndClose(c, g) PROVE Goal
  <2>1. state[c] = "DISPATCHING" /\ UNCHANGED released
    BY <1>6 DEF RejectInferenceImageAndClose, Fence, accounts
  <2>2. CASE state' = [state EXCEPT ![c] = "REJECTED"] /\ UNCHANGED origin
    BY <1>1, <2>1, <2>2
  <2>3. CASE /\ origin[AutoClose[c]] = None
             /\ state' = [state EXCEPT ![c] = "REJECTED", ![AutoClose[c]] = "QUEUED"]
             /\ origin' = [origin EXCEPT ![AutoClose[c]] = c]
    <3>1. state'[c] = "REJECTED" /\ \A x \in Creates \ {c} : state'[x] = state[x]
      BY <1>0, <2>3
    <3>2. \A x \in GpuCreates : UsageFact(x)' = UsageFact(x)
      BY <2>1, <3>1 DEF UsageFact, GpuCreates
    <3>3. UNCHANGED usage
      BY <3>2 DEF usage
    <3> QED
      BY <2>1, <2>3, <3>3, DeletePersisted
  <2> QED
    BY <1>6, <2>2, <2>3 DEF RejectInferenceImageAndClose
<1> HIDE DEF Goal
<1>7. Goal
  BY <1>2, <1>3, <1>4, <1>5, <1>6 DEF WriteBackAny
<1> QED
  BY <1>7 DEF Goal

LEMMA SourceOwner ==
  ASSUME DispatchInv, OwnerStep
  PROVE  [Source!Next]_<<usage, deletion>>
<1> USE ConstantFacts
<1> DEFINE Goal == [Source!Next]_<<usage, deletion>>
<1>0. TypeOK /\ released \in [Creates -> [Codes -> Nat]]
  BY DEF DispatchInv, LedgerInv, TypeOK
<1>1. UNCHANGED vars => Goal
  BY UsageKept DEF vars, delivery, accounts
<1>2. ASSUME NEW c \in Creates, NEW e \in Events, NEW q \in Codes, NEW total \in 0 .. Units[c][q],
             OwnerShrinks(c, e, q, total)
      PROVE  Goal
  <2> DEFINE totals == [released[c] EXCEPT ![q] = IF total > @ THEN total ELSE @]
  <2>1. q \notin GpuCodes /\ released' = [released EXCEPT ![c] = totals] /\ UNCHANGED <<state, origin>>
    BY <1>2 DEF OwnerShrinks, ReleaseItem, Refund, delivery
  <2>2. \A x \in Creates : \A p \in GpuCodes \cap Codes : released'[x][p] = released[x][p]
    BY <1>0, <2>1
  <2>3. \A x \in GpuCreates : UsageFact(x)' = UsageFact(x)
    BY <2>1, <2>2 DEF UsageFact, GpuCreates, Charged
  <2> QED
    BY <2>1, <2>3 DEF usage, deletion
<1>3. ASSUME NEW c \in Creates, NEW e \in Events, OwnerReleases(c, e) PROVE Goal
  <2>1. released' = [released EXCEPT ![c] = Units[c]] /\ UNCHANGED <<state, origin>> /\ state[c] # "absent"
    BY <1>3 DEF OwnerReleases, ReleaseComplete, Refund, delivery
  <2>2. \A x \in GpuCreates \ {c} : UsageFact(x)' = UsageFact(x)
    BY <1>0, <2>1 DEF UsageFact, GpuCreates
  <2>3. UNCHANGED deletion
    BY <2>1 DEF deletion
  <2>4. CASE c \notin GpuCreates \/ UsageFact(c)' = UsageFact(c)
    BY <2>2, <2>3, <2>4 DEF usage
  <2>5. CASE c \in GpuCreates /\ UsageFact(c)' # UsageFact(c)
    <3>1. released'[c] = Units[c]
      BY <1>0, <2>1
    <3>2. UsageFact(c) = "accepted" /\ UsageFact(c)' = "gpu-fully-released"
      BY <2>1, <2>5, <3>1 DEF UsageFact
    <3>3. usage[c] = "accepted" /\ usage' = [usage EXCEPT ![c] = "gpu-fully-released"]
      BY <2>2, <2>5, <3>2 DEF usage
    <3>4. Source!ReleaseGpu(c)
      BY <2>3, <3>3 DEF Source!ReleaseGpu, usage, deletion
    <3> QED
      BY <2>5, <3>4 DEF Source!Next
  <2> QED
    BY <2>4, <2>5
<1> HIDE DEF Goal
<1>4. Goal
  BY <1>1, <1>2, <1>3 DEF OwnerStep, OwnerAcceptsCreate, OwnerAcceptsDelete, OwnerRefuses, OwnerAborts
<1> QED
  BY <1>4 DEF Goal

LEMMA SourceStep ==
  ASSUME DispatchInv, DispatchNext
  PROVE  [Source!Next]_<<usage, deletion>>
<1> DEFINE Goal == [Source!Next]_<<usage, deletion>>
<1>1. UNCHANGED vars => Goal
  BY UsageKept DEF vars, delivery, accounts
<1>2. ASSUME NEW w \in Workers, NEW o \in Ops, Claim(w, o) PROVE Goal
  BY <1>2, SourceWriteBack DEF Claim
<1>3. ASSUME NEW w \in Workers, WorkerStep(w) PROVE Goal
  BY <1>1, <1>3, OutcomeIsWriteBack, SourceWriteBack DEF WorkerStep, Send, AnswerAck, AnswerRefused
<1>4. ASSUME NEW w \in Workers, WorkerFault(w) PROVE UNCHANGED vars
  BY <1>4 DEF WorkerFault, GiveUpBeforeSend, AnswerContractError, AnswerTimeout, Crash
<1>5. ASSUME NEW o \in Ops, LeaseRunsOut(o) \/ BackoffOver(o) PROVE Goal
  BY <1>5, UsageKept DEF LeaseRunsOut, LeaseExpires, BackoffOver, accounts
<1> HIDE DEF Goal
<1>6. Request \/ OwnerStep => Goal
  BY SourceRequest, SourceOwner DEF Goal
<1>7. Goal
  BY <1>1, <1>2, <1>3, <1>4, <1>5, <1>6 DEF DispatchNext
<1> QED
  BY <1>7 DEF Goal

(* The usage of every CREATE with a GPU charge ends at most once, canceled *)
(* or released, and never changes afterwards.                              *)
THEOREM UsageSourceImplemented == DispatchSpec => ImplementsUsageSource
<1>1. DispatchInit => Source!Init
  BY ConstantFacts DEF DispatchInit, LedgerInit, Source!Init, UsageFact, GpuCreates
<1>2. DispatchInv /\ UNCHANGED dvars => UNCHANGED <<usage, deletion>>
  BY UsageKept DEF dvars, vars, accounts, delivery
<1>3. DispatchInv /\ [DispatchNext]_dvars => [Source!Next]_Source!svars
  BY <1>2, SourceStep DEF usage, deletion, Source!svars
<1> QED
  BY <1>1, <1>3, DispatchInvariant, PTL DEF DispatchSpec, ImplementsUsageSource, Source!Spec

(* The usage of a GPU ends only when the GPU is not in use: what the       *)
(* projection may report as ended, no owner runs.                          *)
EndedIsNotLive == \A c \in GpuCreates : usage[c] \in Source!Ended => resource[c] # "live"

THEOREM UsageEndsAfterUse == DispatchSpec => []EndedIsNotLive
<1>1. LiveIsCharged => EndedIsNotLive
  <2> SUFFICES ASSUME LiveIsCharged, NEW c \in GpuCreates, resource[c] = "live",
                      usage[c] \in Source!Ended
               PROVE  FALSE
    BY DEF EndedIsNotLive
  <2>1. c \in Creates /\ \E q \in Charged(c) : q \in GpuCodes
    BY DEF GpuCreates
  <2>2. PICK q \in Charged(c) : q \in GpuCodes
    BY <2>1
  <2>3. state[c] # "CANCELED_UNSENT" /\ released[c][q] < Units[c][q]
    BY <2>1 DEF LiveIsCharged
  <2>4. Units[c][q] \in Nat
    BY <2>1, ConstantFacts DEF Charged
  <2>5. released[c][q] # Units[c][q]
    BY <2>3, <2>4
  <2>6. UsageFact(c) \in {"canceled-unsent", "gpu-fully-released"}
    BY DEF usage, Source!Ended
  <2> QED
    BY <2>2, <2>3, <2>5, <2>6 DEF UsageFact
<1> QED
  BY <1>1, LiveResourcesCharged, PTL

-----------------------------------------------------------------------------
(* The GPU usage projection beside the system it reads: the conjunction of *)
(* the two specifications over the facts they share, with the workers,     *)
(* rows and receiver of the projection as variables of their own.          *)
CONSTANTS SyncWorkers, Id, PageSize, NoCreate, MaxSyncFaults
VARIABLES row, task, page, full, cursor, wire, applied, syncFaults

Sync == INSTANCE GpuUsageSyncProofs WITH
  Creates   <- GpuCreates,
  fact      <- usage,
  deleted   <- deletion,
  MaxFaults <- MaxSyncFaults,
  faults    <- syncFaults

(* No usage is applied by the receiver, or acknowledged in a row, as ended *)
(* while an owner still runs the resource: from the admission over the     *)
(* dispatch, the owner's release and the projection's scan to its          *)
(* delivery, whatever is retried, taken over or delivered late.            *)
NotReportedWhileLive ==
  \A c \in GpuCreates : applied[c] = 2 \/ row[c].acked = 2 => resource[c] # "live"

THEOREM UsageReportedAfterUse ==
  ASSUME Sync!SyncAssumption
  PROVE  DispatchSpec /\ Sync!SyncSpec => []NotReportedWhileLive
<1>1. Sync!SyncInv /\ EndedIsNotLive => NotReportedWhileLive
  <2> SUFFICES ASSUME Sync!SyncInv, EndedIsNotLive, NEW c \in GpuCreates,
                      applied[c] = 2 \/ row[c].acked = 2
               PROVE  resource[c] # "live"
    BY DEF NotReportedWhileLive
  <2>1. applied[c] \in 0 .. 2 /\ row[c].acked \in 0 .. 2 /\ usage[c] \in Source!Facts
    BY DEF Sync!SyncInv, Sync!SyncTypeOK, Sync!Rows, Source!Facts, Sync!Facts, Source!Ended, Sync!Ended
  <2>2. row[c].acked <= applied[c] /\ applied[c] <= Sync!Rev(usage[c])
    BY DEF Sync!SyncInv, Sync!AckedIsApplied, Sync!AppliedIsFact
  <2>3. Sync!Rev(usage[c]) = 2
    BY <2>1, <2>2 DEF Sync!Rev
  <2>4. usage[c] \in Source!Ended
    BY <2>1, <2>3 DEF Sync!Rev, Source!Facts
  <2> QED
    BY <2>4 DEF EndedIsNotLive
<1>2. Sync!SyncSpec => []Sync!SyncInv
  BY Sync!SyncInvariant
<1> QED
  BY <1>1, <1>2, UsageEndsAfterUse, PTL
=============================================================================
