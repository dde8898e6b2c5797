------------------------- MODULE QuotaLedgerProofs -------------------------
(***************************************************************************)
(* Theorems about QuotaLedger for any tenants, codes, CREATEs, DELETEs,    *)
(* events, charge vectors and plans.                                       *)
(*                                                                         *)
(* Step is Next without its bound on claims and with write-backs under     *)
(* any generation at all, so that what is proved of Step also holds of the *)
(* ledger under the dispatch workers.                                      *)
(***************************************************************************)
EXTENDS QuotaLedger, SumTheorems, TLAPS

WriteBackAny ==
  \/ \E o \in Ops : \E g \in Nat : AckDispatched(o, g)
  \/ \E o \in Ops : \E g \in Nat : \E b \in BOOLEAN : MarkUnknown(o, g, b)
  \/ \E d \in Deletes : \E g \in Nat : RejectDeleteVersion(d, g)
  \/ \E c \in Creates : \E g \in Nat : RejectInferenceImageAndClose(c, g)

Step ==
  \/ Request
  \/ Clock
  \/ OwnerReport
  \/ \E o \in Ops : ClaimDispatchable(o)
  \/ WriteBackAny

StepSpec == LedgerInit /\ [][Step]_vars

(* Every step of the specification is one of these.                        *)
LEMMA NextIsStep == TypeOK /\ Next => Step
<1> SUFFICES ASSUME TypeOK, Next PROVE Step
  OBVIOUS
<1>1. ASSUME NEW o \in Ops PROVE 1 .. attempts[o] \subseteq Nat
  BY DEF TypeOK
<1>2. CASE WriteBack
  <2>1. \A o \in Ops : 1 .. attempts[o] \subseteq Nat
    BY <1>1
  <2>2. Creates \subseteq Ops /\ Deletes \subseteq Ops
    BY DEF Ops
  <2> QED
    BY <1>2, <2>1, <2>2, Zenon DEF WriteBack, WriteBackAny, Step
<1> QED
  BY <1>2 DEF Next, Step

-----------------------------------------------------------------------------
(* Facts about the constants and the charge vectors.                       *)
LEMMA ConstantFacts ==
  /\ \A c \in Creates : TenantOf[c] \in Tenants /\ Units[c] \in [Codes -> Nat]
  /\ \A c \in Creates : AutoClose[c] \in Deletes /\ Kind[c] \in Kinds
  /\ \A c \in Creates : \A q \in Codes : Units[c][q] \in Nat
  /\ Creates \subseteq Ops /\ Deletes \subseteq Ops /\ Creates \cap Deletes = {}
  /\ None \notin Creates /\ None \notin Deletes /\ None \notin Ops
BY ConstantsAssumption DEF Ops

-----------------------------------------------------------------------------
(* Types.                                                                  *)

(* The account of a tenant stays a natural number through a refund.        *)
LEMMA RefundType ==
  ASSUME TypeOK, NEW c \in Creates, NEW totals \in [Codes -> Nat], Refund(c, totals)
  PROVE  occupied' \in [Tenants -> [Codes -> Nat]] /\ released' \in [Creates -> [Codes -> Nat]]
<1>1. TenantOf[c] \in Tenants
  BY ConstantFacts
<1>2. ASSUME NEW q \in Codes
      PROVE  occupied[TenantOf[c]][q] - (totals[q] - released[c][q]) \in Nat
  <2>1. occupied[TenantOf[c]][q] \in Nat /\ released[c][q] \in Nat /\ totals[q] \in Nat
    BY <1>1 DEF TypeOK
  <2>2. occupied[TenantOf[c]][q] >= totals[q] - released[c][q]
    BY DEF Refund
  <2> QED
    BY <2>1, <2>2
<1>3. occupied' = [occupied EXCEPT ![TenantOf[c]] =
                     [q \in Codes |-> occupied[TenantOf[c]][q] - (totals[q] - released[c][q])]]
  BY <1>1 DEF Refund, TypeOK
<1>4. occupied' \in [Tenants -> [Codes -> Nat]]
  BY <1>2, <1>3 DEF TypeOK
<1>5. released' \in [Creates -> [Codes -> Nat]]
  BY DEF Refund, TypeOK
<1> QED
  BY <1>4, <1>5

(* A release leaves the columns of the ledger well typed.                  *)
LEMMA ReleaseType ==
  ASSUME TypeOK, NEW c \in Creates, NEW e \in Events, NEW totals \in [Codes -> Nat],
         NEW payload \in Payloads,
         Refund(c, totals), receipts' = receipts \cup {Receipt(c, e, payload)},
         UNCHANGED <<admission, delivery>>
  PROVE  TypeOK'
<1>1. occupied' \in [Tenants -> [Codes -> Nat]] /\ released' \in [Creates -> [Codes -> Nat]]
  BY RefundType
<1>2. Receipt(c, e, payload) \in Receipts
  <2>1. Owner(c) \in {"resource", "inference", "modeldev"}
    BY ConstantFacts DEF Owner, Kinds
  <2> QED
    BY <2>1, ConstantFacts DEF Receipt, Receipts
<1>3. receipts' \subseteq Receipts
  BY <1>2 DEF TypeOK
<1> QED
  BY <1>1, <1>3 DEF TypeOK, admission, delivery

(* Requests of users and administrators.                                   *)
LEMMA RequestType == TypeOK /\ Request => TypeOK'
<1> SUFFICES ASSUME TypeOK, Request PROVE TypeOK'
  OBVIOUS
<1> USE ConstantFacts
<1>1. ASSUME NEW t \in Tenants, NEW on \in BOOLEAN, SetTenantActive(t, on) PROVE TypeOK'
  BY <1>1 DEF TypeOK, SetTenantActive, accounts, delivery
<1>2. ASSUME NEW t \in Tenants, NEW p \in Plans, ChangePlan(t, p) PROVE TypeOK'
  BY <1>2 DEF TypeOK, ChangePlan, accounts, delivery
<1>3. ASSUME NEW c \in Creates, Occupy(c) PROVE TypeOK'
  <2>1. occupied' = [occupied EXCEPT ![TenantOf[c]] =
                       [q \in Codes |-> occupied[TenantOf[c]][q] + Units[c][q]]]
    BY <1>3 DEF Occupy, TypeOK
  <2>2. [q \in Codes |-> occupied[TenantOf[c]][q] + Units[c][q]] \in [Codes -> Nat]
    BY DEF TypeOK
  <2>3. occupied' \in [Tenants -> [Codes -> Nat]]
    BY <2>1, <2>2 DEF TypeOK
  <2> QED
    BY <1>3, <2>3 DEF TypeOK, Occupy, admission, States
<1>4. ASSUME NEW c \in Creates, CancelLocked(c)
      PROVE  occupied' \in [Tenants -> [Codes -> Nat]] /\ released' \in [Creates -> [Codes -> Nat]]
  BY <1>4, RefundType DEF CancelLocked, TypeOK
<1>5. ASSUME NEW c \in Creates, CancelUnsent(c) PROVE TypeOK'
  BY <1>4, <1>5 DEF TypeOK, CancelUnsent, admission, States
<1>6. ASSUME NEW c \in Creates, NEW d \in UserDeletes, CreateDeleteOperation(c, d) PROVE TypeOK'
  <2>1. d \in Deletes
    BY DEF UserDeletes
  <2>2. occupied' \in [Tenants -> [Codes -> Nat]] /\ released' \in [Creates -> [Codes -> Nat]]
    BY <1>4, <1>6 DEF CreateDeleteOperation, TypeOK
  <2>3. state' \in [Ops -> States \cup {"absent"}]
    BY <1>6 DEF CreateDeleteOperation, TypeOK, States
  <2> QED
    BY <1>6, <2>1, <2>2, <2>3 DEF TypeOK, CreateDeleteOperation, admission
<1>7. ASSUME NEW o \in Ops, ResumeDispatch(o) PROVE TypeOK'
  BY <1>7 DEF TypeOK, ResumeDispatch, admission, accounts
<1> QED
  BY <1>1, <1>2, <1>3, <1>5, <1>6, <1>7 DEF Request

(* What the owners report.                                                 *)
LEMMA OwnerReportType == TypeOK /\ OwnerReport => TypeOK'
<1> SUFFICES ASSUME TypeOK, OwnerReport PROVE TypeOK'
  OBVIOUS
<1>1. ASSUME NEW c \in Creates, NEW e \in Events, NEW q \in Codes,
             NEW total \in 0 .. Units[c][q], ReleaseItem(c, e, q, total)
      PROVE  TypeOK'
  <2>1. total \in Nat
    BY ConstantFacts
  <2>2. [released[c] EXCEPT ![q] = IF total > @ THEN total ELSE @] \in [Codes -> Nat]
    BY <2>1 DEF TypeOK
  <2>3. [kind |-> "items", create |-> c, code |-> q, total |-> total] \in Payloads
    BY <2>1 DEF Payloads
  <2> QED
    BY <1>1, <2>2, <2>3, ReleaseType DEF ReleaseItem
<1>2. ASSUME NEW c \in Creates, NEW e \in Events, ReleaseComplete(c, e) PROVE TypeOK'
  <2>1. Units[c] \in [Codes -> Nat]
    BY ConstantFacts
  <2>2. [kind |-> "complete", create |-> c] \in Payloads
    BY DEF Payloads
  <2> QED
    BY <1>2, <2>1, <2>2, ReleaseType DEF ReleaseComplete
<1> QED
  BY <1>1, <1>2 DEF OwnerReport

(* Claims, write-backs and the clock only touch the command columns.       *)
LEMMA DeliveryType ==
  TypeOK /\ (Clock \/ WriteBackAny \/ \E o \in Ops : ClaimDispatchable(o)) => TypeOK'
<1> SUFFICES ASSUME TypeOK, Clock \/ WriteBackAny \/ \E o \in Ops : ClaimDispatchable(o)
             PROVE  TypeOK'
  OBVIOUS
<1> USE ConstantFacts
<1>1. ASSUME NEW o \in Ops, LeaseExpires(o) \/ BackoffOver(o) PROVE TypeOK'
  BY <1>1 DEF TypeOK, LeaseExpires, BackoffOver, admission, accounts
<1>2. ASSUME NEW o \in Ops, ClaimDispatchable(o) PROVE TypeOK'
  BY <1>2 DEF TypeOK, ClaimDispatchable, admission, accounts, States
<1>3. ASSUME NEW o \in Ops, NEW g \in Nat, AckDispatched(o, g) PROVE TypeOK'
  BY <1>3 DEF TypeOK, AckDispatched, admission, accounts, States
<1>4. ASSUME NEW o \in Ops, NEW g \in Nat, NEW b \in BOOLEAN, MarkUnknown(o, g, b) PROVE TypeOK'
  BY <1>4 DEF TypeOK, MarkUnknown, admission, accounts, States
<1>5. ASSUME NEW d \in Deletes, NEW g \in Nat, RejectDeleteVersion(d, g) PROVE TypeOK'
  BY <1>5 DEF TypeOK, RejectDeleteVersion, admission, accounts, States
<1>6. ASSUME NEW c \in Creates, NEW g \in Nat, RejectInferenceImageAndClose(c, g) PROVE TypeOK'
  <2>1. ASSUME NEW d \in Ops PROVE [ackJson EXCEPT ![c] = d] \in [Ops -> Ops \cup {None}]
    BY DEF TypeOK
  <2>2. ackJson' \in [Ops -> Ops \cup {None}]
    BY <1>6, <2>1 DEF RejectInferenceImageAndClose, AttachedClose
  <2>3. state' \in [Ops -> States \cup {"absent"}]
    BY <1>6 DEF RejectInferenceImageAndClose, TypeOK, States
  <2>4. origin' \in [Deletes -> Creates \cup {None}]
    BY <1>6 DEF RejectInferenceImageAndClose, TypeOK
  <2> QED
    BY <1>6, <2>2, <2>3, <2>4 DEF TypeOK, RejectInferenceImageAndClose, admission, accounts
<1> QED
  BY <1>1, <1>2, <1>3, <1>4, <1>5, <1>6 DEF Clock, WriteBackAny

LEMMA InitType == LedgerInit => TypeOK
BY ConstantFacts DEF LedgerInit, TypeOK

LEMMA StepType == TypeOK /\ [Step]_vars => TypeOK'
<1>1. TypeOK /\ UNCHANGED vars => TypeOK'
  BY DEF TypeOK, vars, admission, accounts, delivery
<1> QED
  BY <1>1, RequestType, OwnerReportType, DeliveryType DEF Step

(* Every column keeps its type; in particular no account ever goes below   *)
(* zero (quotaAccountNonnegative), whatever is released in which order.    *)
THEOREM TypeCorrect == Spec => []TypeOK
<1>1. TypeOK /\ [Next]_vars => TypeOK'
  BY StepType, NextIsStep
<1> QED
  BY <1>1, InitType, PTL DEF Spec

-----------------------------------------------------------------------------
(* Charges.                                                                *)

LEMMA RefundGrows ==
  ASSUME TypeOK, ChargesBounded, NEW c \in Creates, NEW totals \in [Codes -> Nat],
         \A q \in Codes : totals[q] \in released[c][q] .. Units[c][q],
         Refund(c, totals)
  PROVE  \A x \in Creates : \A q \in Codes :
           released[x][q] <= released'[x][q] /\ released'[x][q] <= Units[x][q]
<1>1. \A x \in Creates : \A q \in Codes :
        released[x][q] \in Nat /\ Units[x][q] \in Nat /\ released[x][q] <= Units[x][q]
  BY ConstantFacts DEF TypeOK, ChargesBounded
<1>2. \A x \in Creates : x # c => released'[x] = released[x]
  BY DEF Refund, TypeOK
<1>3. released'[c] = totals
  BY DEF Refund, TypeOK
<1> QED
  BY <1>1, <1>2, <1>3

(* Only an operation that exists is refunded, and never beyond its charge. *)
LEMMA ReleasedGrows ==
  ASSUME TypeOK, ChargesBounded, Step
  PROVE  \A x \in Creates : \A q \in Codes :
           released[x][q] <= released'[x][q] /\ released'[x][q] <= Units[x][q]
<1> DEFINE Grows == \A x \in Creates : \A q \in Codes :
                      released[x][q] <= released'[x][q] /\ released'[x][q] <= Units[x][q]
<1>1. ASSUME UNCHANGED released PROVE Grows
  <2>1. \A x \in Creates : \A q \in Codes : released[x][q] \in Nat
    BY DEF TypeOK
  <2> QED
    BY <1>1, <2>1 DEF ChargesBounded
<1>2. ASSUME NEW c \in Creates, Refund(c, Units[c]) PROVE Grows
  <2>1. Units[c] \in [Codes -> Nat]
    BY ConstantFacts
  <2>2. \A q \in Codes : Units[c][q] \in released[c][q] .. Units[c][q]
    BY ConstantFacts DEF TypeOK, ChargesBounded
  <2> QED
    BY <1>2, <2>1, <2>2, RefundGrows
<1>3. ASSUME NEW c \in Creates, NEW e \in Events, NEW q \in Codes,
             NEW total \in 0 .. Units[c][q], ReleaseItem(c, e, q, total)
      PROVE  Grows
  <2> DEFINE totals == [released[c] EXCEPT ![q] = IF total > @ THEN total ELSE @]
  <2>1. total \in Nat /\ total <= Units[c][q]
    BY ConstantFacts
  <2>2. \A p \in Codes : released[c][p] \in Nat /\ released[c][p] <= Units[c][p] /\ Units[c][p] \in Nat
    BY ConstantFacts DEF TypeOK, ChargesBounded
  <2>3. released[c] \in [Codes -> Nat]
    BY DEF TypeOK
  <2>4. totals \in [Codes -> Nat]
    BY <2>1, <2>3
  <2>5. \A p \in Codes : totals[p] \in released[c][p] .. Units[c][p]
    BY <2>1, <2>2, <2>3
  <2>6. Refund(c, totals)
    BY <1>3 DEF ReleaseItem
  <2> HIDE DEF totals
  <2> QED
    BY <2>4, <2>5, <2>6, RefundGrows
<1>4. ASSUME NEW c \in Creates, NEW e \in Events, ReleaseComplete(c, e) PROVE Grows
  BY <1>2, <1>4 DEF ReleaseComplete
<1>5. ASSUME NEW c \in Creates, CancelLocked(c) PROVE Grows
  BY <1>1, <1>2, <1>5 DEF CancelLocked
<1>6. CASE Request
  BY <1>1, <1>5, <1>6 DEF Request, UserDeletes, SetTenantActive, ChangePlan, Occupy, CancelUnsent,
       CreateDeleteOperation, ResumeDispatch, accounts
<1>7. CASE OwnerReport
  BY <1>3, <1>4, <1>7 DEF OwnerReport
<1>8. CASE Clock \/ WriteBackAny \/ \E o \in Ops : ClaimDispatchable(o)
  BY <1>1, <1>8 DEF Clock, WriteBackAny, LeaseExpires, BackoffOver, ClaimDispatchable, AckDispatched,
       MarkUnknown, RejectDeleteVersion, RejectInferenceImageAndClose, accounts
<1> QED
  BY <1>6, <1>7, <1>8 DEF Step

-----------------------------------------------------------------------------
(* Commands.                                                               *)

(* Of all steps only these touch what the invariants say of commands.      *)
Quiet == UNCHANGED <<state, origin, attempts, ackJson>>

CommandStep ==
  \/ \E c \in Creates : Occupy(c) \/ CancelUnsent(c)
  \/ \E c \in Creates : \E d \in Deletes : CreateDeleteOperation(c, d)
  \/ \E o \in Ops : ClaimDispatchable(o)
  \/ WriteBackAny

LEMMA StepCases == Step => Quiet \/ CommandStep
<1> SUFFICES ASSUME Step PROVE Quiet \/ CommandStep
  OBVIOUS
<1>1. CASE Request
  BY <1>1 DEF Request, UserDeletes, CommandStep, Quiet, SetTenantActive, ChangePlan, ResumeDispatch,
       delivery
<1>2. CASE OwnerReport
  <2>1. ASSUME NEW c \in Creates, NEW e \in Events, NEW q \in Codes, NEW total \in 0 .. Units[c][q],
               ReleaseItem(c, e, q, total)
        PROVE  Quiet
    BY <2>1 DEF ReleaseItem, Quiet, delivery
  <2>2. ASSUME NEW c \in Creates, NEW e \in Events, ReleaseComplete(c, e)
        PROVE  Quiet
    BY <2>2 DEF ReleaseComplete, Quiet, delivery
  <2> QED
    BY <1>2, <2>1, <2>2 DEF OwnerReport
<1>3. CASE Clock
  BY <1>3 DEF Clock, LeaseExpires, BackoffOver, Quiet
<1> QED
  BY <1>1, <1>2, <1>3 DEF Step, CommandStep

LEMMA BoundedStep ==
  ASSUME TypeOK, ChargesBounded, CommandShape, Step
  PROVE  ChargesBounded'
<1>1. \A c \in Creates : \A q \in Codes : released'[c][q] <= Units[c][q]
  BY ReleasedGrows
<1>2. \A c \in Creates : state'[c] = "absent" => state[c] = "absent" /\ released'[c] = released[c]
  <2> USE ConstantFacts
  <2> SUFFICES ASSUME NEW c \in Creates, state'[c] = "absent"
               PROVE  state[c] = "absent" /\ released'[c] = released[c]
    OBVIOUS
  <2>1. CASE Request
    <3>1. ASSUME NEW x \in Creates, Occupy(x) PROVE state[c] = "absent" /\ released'[c] = released[c]
      BY <3>1 DEF Occupy, TypeOK
    <3>2. ASSUME NEW x \in Creates, CancelUnsent(x)
          PROVE  state[c] = "absent" /\ released'[c] = released[c]
      BY <3>2 DEF CancelUnsent, CancelLocked, Refund, TypeOK
    <3>3. ASSUME NEW x \in Creates, NEW d \in UserDeletes, CreateDeleteOperation(x, d)
          PROVE  state[c] = "absent" /\ released'[c] = released[c]
      <4>1. d \in Ops /\ d # c
        BY DEF UserDeletes
      <4>2. x # c => released'[c] = released[c]
        BY <3>3 DEF CreateDeleteOperation, CancelLocked, Refund, TypeOK
      <4>3. state[c] = state'[c] /\ x # c
        BY <3>3, <4>1 DEF CreateDeleteOperation, TypeOK
      <4> QED
        BY <4>2, <4>3
    <3> QED
      BY <2>1, <3>1, <3>2, <3>3 DEF Request, SetTenantActive, ChangePlan, ResumeDispatch, accounts, delivery
  <2>2. CASE OwnerReport
    <3>1. ASSUME NEW x \in Creates, NEW totals, state[x] # "absent", Refund(x, totals),
                 UNCHANGED state
          PROVE  state[c] = "absent" /\ released'[c] = released[c]
      BY <3>1 DEF Refund, TypeOK
    <3> QED
      BY <2>2, <3>1 DEF OwnerReport, ReleaseItem, ReleaseComplete, delivery
  <2>3. CASE Clock \/ WriteBackAny \/ \E o \in Ops : ClaimDispatchable(o)
    <3>1. UNCHANGED released
      BY <2>3 DEF Clock, WriteBackAny, LeaseExpires, BackoffOver, ClaimDispatchable, AckDispatched,
           MarkUnknown, RejectDeleteVersion, RejectInferenceImageAndClose, accounts
    <3>2. ASSUME NEW o \in Ops, ClaimDispatchable(o) PROVE state[c] = "absent"
      BY <3>2 DEF ClaimDispatchable, TypeOK
    <3>3. ASSUME Clock PROVE state[c] = "absent"
      BY <3>3 DEF Clock, LeaseExpires, BackoffOver
    <3>4. ASSUME WriteBackAny PROVE state[c] = "absent"
      <4>1. ASSUME NEW o \in Ops, NEW g \in Nat, AckDispatched(o, g) PROVE state[c] = "absent"
        BY <4>1 DEF AckDispatched, TypeOK
      <4>2. ASSUME NEW o \in Ops, NEW g \in Nat, NEW b \in BOOLEAN, MarkUnknown(o, g, b)
            PROVE  state[c] = "absent"
        BY <4>2 DEF MarkUnknown, TypeOK
      <4>3. ASSUME NEW d \in Deletes, NEW g \in Nat, RejectDeleteVersion(d, g) PROVE state[c] = "absent"
        BY <4>3 DEF RejectDeleteVersion, TypeOK
      <4>4. ASSUME NEW x \in Creates, NEW g \in Nat, RejectInferenceImageAndClose(x, g)
            PROVE  state[c] = "absent"
        BY <4>4 DEF RejectInferenceImageAndClose, TypeOK
      <4> QED
        BY <3>4, <4>1, <4>2, <4>3, <4>4 DEF WriteBackAny
    <3> QED
      BY <2>3, <3>1, <3>2, <3>3, <3>4
  <2> QED
    BY <2>1, <2>2, <2>3 DEF Step
<1> QED
  BY <1>1, <1>2 DEF ChargesBounded

LEMMA ShapeStep ==
  ASSUME TypeOK, CommandShape, Step
  PROVE  CommandShape'
<1> USE ConstantFacts
<1>1. CASE Quiet
  BY <1>1 DEF Quiet, CommandShape
<1>2. ASSUME NEW c \in Creates, Occupy(c) PROVE CommandShape'
  BY <1>2 DEF Occupy, CommandShape, TypeOK
<1>3. ASSUME NEW c \in Creates, CancelUnsent(c) PROVE CommandShape'
  BY <1>3 DEF CancelUnsent, Unsent, CommandShape, TypeOK
<1>4. ASSUME NEW c \in Creates, NEW d \in Deletes, CreateDeleteOperation(c, d) PROVE CommandShape'
  <2>1. origin[d] = None /\ state[d] = "absent" /\ attempts[d] = 0 /\ UNCHANGED attempts
    BY <1>4 DEF CreateDeleteOperation, CommandShape
  <2>2. origin' = [origin EXCEPT ![d] = c]
    BY <1>4 DEF CreateDeleteOperation
  <2>3. CASE state[c] = "CANCELED_UNSENT" \/ Unsent(c)
    <3>1. state' = [state EXCEPT ![c] = "CANCELED_UNSENT", ![d] = "CANCELED_UNSENT"] /\ attempts[c] = 0
      BY <1>4, <2>3 DEF CreateDeleteOperation, CommandShape, Unsent
    <3> QED
      BY <2>1, <2>2, <2>3, <3>1 DEF CommandShape, TypeOK, Unsent
  <2>4. CASE ~(state[c] = "CANCELED_UNSENT" \/ Unsent(c))
    <3>1. state' = [state EXCEPT ![d] = "QUEUED"] /\ state[c] \notin {"absent", "CANCELED_UNSENT", "QUEUED"}
      BY <1>4, <2>4 DEF CreateDeleteOperation, CommandShape, Unsent
    <3> QED
      BY <2>1, <2>2, <3>1 DEF CommandShape, TypeOK
  <2> QED
    BY <2>3, <2>4
<1>5. ASSUME NEW o \in Ops, ClaimDispatchable(o) PROVE CommandShape'
  <2>1. state[o] \in {"QUEUED", "UNKNOWN", "DISPATCHING"} /\ attempts[o] + 1 \in Nat \ {0}
    BY <1>5 DEF ClaimDispatchable, DispatchDue, TypeOK
  <2> QED
    BY <1>5, <2>1 DEF ClaimDispatchable, CommandShape, TypeOK
<1>6. ASSUME NEW o \in Ops, NEW g \in Nat, AckDispatched(o, g) PROVE CommandShape'
  BY <1>6 DEF AckDispatched, Fence, CommandShape, TypeOK
<1>7. ASSUME NEW o \in Ops, NEW g \in Nat, NEW b \in BOOLEAN, MarkUnknown(o, g, b) PROVE CommandShape'
  BY <1>7 DEF MarkUnknown, Fence, CommandShape, TypeOK
<1>8. ASSUME NEW d \in Deletes, NEW g \in Nat, RejectDeleteVersion(d, g) PROVE CommandShape'
  BY <1>8 DEF RejectDeleteVersion, Fence, CommandShape, TypeOK
<1>9. ASSUME NEW c \in Creates, NEW g \in Nat, RejectInferenceImageAndClose(c, g) PROVE CommandShape'
  <2>1. Kind[c] = "inference" /\ state[c] = "DISPATCHING" /\ UNCHANGED attempts
    BY <1>9 DEF RejectInferenceImageAndClose, Fence
  <2>2. CASE state' = [state EXCEPT ![c] = "REJECTED"] /\ UNCHANGED origin
    BY <2>1, <2>2 DEF CommandShape, TypeOK
  <2>3. CASE /\ origin[AutoClose[c]] = None
             /\ state' = [state EXCEPT ![c] = "REJECTED", ![AutoClose[c]] = "QUEUED"]
             /\ origin' = [origin EXCEPT ![AutoClose[c]] = c]
    <3> DEFINE d == AutoClose[c]
    <3>1. d \in Deletes /\ d \in Ops /\ d # c /\ state[d] = "absent" /\ attempts[d] = 0
      BY <2>3 DEF CommandShape
    <3>2. \A x \in Deletes : origin'[x] = IF x = d THEN c ELSE origin[x]
      BY <2>3, <3>1 DEF TypeOK
    <3>3. \A o \in Ops : state'[o] = CASE o = d -> "QUEUED" [] o = c -> "REJECTED" [] OTHER -> state[o]
      BY <2>3, <3>1 DEF TypeOK
    <3> HIDE DEF d
    <3> QED
      BY <2>1, <3>1, <3>2, <3>3 DEF CommandShape
  <2> QED
    BY <1>9, <2>2, <2>3 DEF RejectInferenceImageAndClose
<1> QED
  BY StepCases, <1>1, <1>2, <1>3, <1>4, <1>5, <1>6, <1>7, <1>8, <1>9 DEF CommandStep, WriteBackAny

(* A canceled CREATE stays canceled with all of its charge given back.     *)
LEMMA SettledStep ==
  ASSUME TypeOK, ChargesBounded, CommandShape, CanceledIsSettled, Step
  PROVE  CanceledIsSettled'
<1> USE ConstantFacts
<1>1. CommandShape' /\ TypeOK'
  BY ShapeStep, RequestType, OwnerReportType, DeliveryType DEF Step
<1>2. ASSUME NEW c \in Creates, released[c] = Units[c] PROVE released'[c] = Units[c]
  <2>1. \A q \in Codes : released[c][q] <= released'[c][q] /\ released'[c][q] <= Units[c][q]
    BY ReleasedGrows
  <2>2. \A q \in Codes : released'[c][q] \in Nat /\ Units[c][q] \in Nat
    BY <1>1 DEF TypeOK
  <2>3. \A q \in Codes : released'[c][q] = Units[c][q]
    BY <1>2, <2>1, <2>2
  <2> QED
    BY <1>1, <2>3 DEF TypeOK
<1>3. ASSUME NEW c \in Creates, CancelLocked(c) PROVE released'[c] = Units[c]
  BY <1>3 DEF CancelLocked, Settled, Refund, TypeOK
<1>4. ASSUME NEW c \in Creates, state'[c] = "CANCELED_UNSENT" PROVE released'[c] = Units[c]
  <2>1. CASE state[c] = "CANCELED_UNSENT"
    BY <1>2, <2>1 DEF CanceledIsSettled
  <2>2. CASE state[c] # "CANCELED_UNSENT"
    <3>1. CASE Quiet
      BY <1>4, <2>2, <3>1 DEF Quiet
    <3>2. ASSUME NEW x \in Creates, Occupy(x) PROVE FALSE
      BY <1>4, <2>2, <3>2 DEF Occupy, TypeOK
    <3>3. ASSUME NEW x \in Creates, CancelUnsent(x) PROVE released'[c] = Units[c]
      <4>1. x = c
        BY <1>4, <2>2, <3>3 DEF CancelUnsent, TypeOK
      <4> QED
        BY <1>3, <3>3, <4>1 DEF CancelUnsent
    <3>4. ASSUME NEW x \in Creates, NEW d \in Deletes, CreateDeleteOperation(x, d)
          PROVE  released'[c] = Units[c]
      <4>1. d # c /\ d \in Ops /\ x \in Ops
        OBVIOUS
      <4>2. state' # [state EXCEPT ![d] = "QUEUED"] /\ x = c
        BY <1>4, <2>2, <3>4, <4>1 DEF CreateDeleteOperation, TypeOK
      <4> QED
        BY <1>3, <3>4, <4>2 DEF CreateDeleteOperation
    <3>5. ASSUME NEW o \in Ops, ClaimDispatchable(o) PROVE FALSE
      BY <1>4, <2>2, <3>5 DEF ClaimDispatchable, TypeOK
    <3>6. ASSUME WriteBackAny PROVE FALSE
      BY <1>4, <2>2, <3>6 DEF WriteBackAny, AckDispatched, MarkUnknown, RejectDeleteVersion,
           RejectInferenceImageAndClose, TypeOK
    <3> QED
      BY StepCases, <3>1, <3>2, <3>3, <3>4, <3>5, <3>6 DEF CommandStep
  <2> QED
    BY <2>1, <2>2
<1> QED
  BY <1>1, <1>4 DEF CanceledIsSettled, CommandShape

(* What a step may do to an operation that is decided: nothing.            *)
LEMMA FinalStep ==
  ASSUME TypeOK, CommandShape, Step, NEW o \in Ops, state[o] \in Final
  PROVE  state'[o] = state[o]
<1> USE ConstantFacts DEF Final
<1>1. CASE Quiet
  BY <1>1 DEF Quiet
<1>2. ASSUME NEW c \in Creates, Occupy(c) \/ CancelUnsent(c) PROVE state'[o] = state[o]
  BY <1>2 DEF Occupy, CancelUnsent, Unsent, TypeOK
<1>3. ASSUME NEW c \in Creates, NEW d \in Deletes, CreateDeleteOperation(c, d)
      PROVE  state'[o] = state[o]
  <2>1. o # d
    BY <1>3 DEF CreateDeleteOperation, CommandShape
  <2> QED
    BY <1>3, <2>1 DEF CreateDeleteOperation, Unsent, TypeOK
<1>4. ASSUME NEW x \in Ops, ClaimDispatchable(x) PROVE state'[o] = state[o]
  BY <1>4 DEF ClaimDispatchable, DispatchDue, TypeOK
<1>5. ASSUME NEW c \in Creates, NEW g \in Nat, RejectInferenceImageAndClose(c, g)
      PROVE  state'[o] = state[o]
  <2>1. o # c
    BY <1>5 DEF RejectInferenceImageAndClose, Fence
  <2>2. origin[AutoClose[c]] = None => o # AutoClose[c]
    BY DEF CommandShape
  <2> QED
    BY <1>5, <2>1, <2>2 DEF RejectInferenceImageAndClose, TypeOK
<1>6. ASSUME NEW x \in Ops, NEW g \in Nat, AckDispatched(x, g) \/ (\E b \in BOOLEAN : MarkUnknown(x, g, b))
      PROVE  state'[o] = state[o]
  BY <1>6 DEF AckDispatched, MarkUnknown, Fence, TypeOK
<1>7. ASSUME NEW d \in Deletes, NEW g \in Nat, RejectDeleteVersion(d, g) PROVE state'[o] = state[o]
  BY <1>7 DEF RejectDeleteVersion, Fence, TypeOK
<1>8. CASE WriteBackAny
  BY <1>5, <1>6, <1>7, <1>8 DEF WriteBackAny
<1> QED
  BY StepCases, <1>1, <1>2, <1>3, <1>4, <1>8 DEF CommandStep

(* An origin is written once.                                              *)
LEMMA OriginStep ==
  ASSUME TypeOK, Step, NEW d \in Deletes, origin[d] # None
  PROVE  origin'[d] = origin[d]
<1> USE ConstantFacts
<1>1. CASE Quiet
  BY <1>1 DEF Quiet
<1>2. ASSUME NEW c \in Creates, NEW x \in Deletes, CreateDeleteOperation(c, x)
      PROVE  origin'[d] = origin[d]
  BY <1>2 DEF CreateDeleteOperation, TypeOK
<1>3. ASSUME NEW c \in Creates, NEW g \in Nat, RejectInferenceImageAndClose(c, g)
      PROVE  origin'[d] = origin[d]
  BY <1>3 DEF RejectInferenceImageAndClose, TypeOK
<1>4. CASE CommandStep
  BY <1>2, <1>3, <1>4 DEF CommandStep, WriteBackAny, Occupy, CancelUnsent, ClaimDispatchable,
       AckDispatched, MarkUnknown, RejectDeleteVersion
<1> QED
  BY StepCases, <1>1, <1>4

(* The close a rejected CREATE names is never canceled and never refused.  *)
LEMMA RejectedStep ==
  ASSUME TypeOK, CommandShape, RejectedHasClose, Step
  PROVE  RejectedHasClose'
<1> USE ConstantFacts
<1> DEFINE Good(c) == /\ ackJson[c] \in Deletes
                      /\ origin[ackJson[c]] = c
                      /\ state[ackJson[c]] \in {"QUEUED", "DISPATCHING", "UNKNOWN", "ACKED"}
<1> SUFFICES ASSUME NEW c \in Creates, state'[c] = "REJECTED" PROVE Good(c)'
  BY DEF RejectedHasClose
<1>1. CASE Quiet
  BY <1>1 DEF Quiet, RejectedHasClose
<1>2. CASE state[c] = "REJECTED"
  <2> DEFINE d == ackJson[c]
  <2>1. d \in Deletes /\ d \in Ops /\ d # c /\ origin[d] = c /\ Kind[c] = "inference"
    BY <1>2 DEF RejectedHasClose, CommandShape
  <2>2. state[d] \in {"QUEUED", "DISPATCHING", "UNKNOWN", "ACKED"}
    BY <1>2 DEF RejectedHasClose
  <2>3. origin'[d] = c
    BY <2>1, OriginStep
  <2> SUFFICES ackJson'[c] = d /\ state'[d] \in {"QUEUED", "DISPATCHING", "UNKNOWN", "ACKED"}
    BY <2>1, <2>3
  <2> HIDE DEF d
  <2> USE <1>2, <2>1, <2>2
  <2>4. ASSUME NEW x \in Creates, Occupy(x) \/ CancelUnsent(x)
        PROVE  ackJson'[c] = ackJson[c] /\ state'[d] = state[d]
    BY <2>4 DEF Occupy, CancelUnsent, TypeOK
  <2>5. ASSUME NEW x \in Creates, NEW e \in Deletes, CreateDeleteOperation(x, e)
        PROVE  ackJson'[c] = ackJson[c] /\ state'[d] = state[d]
    <3>1. e # d
      BY <2>5 DEF CreateDeleteOperation
    <3> QED
      BY <2>5, <3>1 DEF CreateDeleteOperation, TypeOK
  <2>6. ASSUME NEW o \in Ops, ClaimDispatchable(o)
        PROVE  ackJson'[c] = ackJson[c] /\ state'[d] \in {"QUEUED", "DISPATCHING", "UNKNOWN", "ACKED"}
    BY <2>6 DEF ClaimDispatchable, TypeOK
  <2>7. ASSUME NEW o \in Ops, NEW g \in Nat, AckDispatched(o, g)
        PROVE  ackJson'[c] = ackJson[c] /\ state'[d] \in {"QUEUED", "DISPATCHING", "UNKNOWN", "ACKED"}
    BY <2>7 DEF AckDispatched, Fence, TypeOK
  <2>8. ASSUME NEW o \in Ops, NEW g \in Nat, NEW b \in BOOLEAN, MarkUnknown(o, g, b)
        PROVE  ackJson'[c] = ackJson[c] /\ state'[d] \in {"QUEUED", "DISPATCHING", "UNKNOWN", "ACKED"}
    BY <2>8 DEF MarkUnknown, TypeOK
  <2>9. ASSUME NEW e \in Deletes, NEW g \in Nat, RejectDeleteVersion(e, g)
        PROVE  ackJson'[c] = ackJson[c] /\ state'[d] = state[d]
    <3>1. e # d
      BY <2>9 DEF RejectDeleteVersion, Guarded
    <3> QED
      BY <2>9, <3>1 DEF RejectDeleteVersion, TypeOK
  <2>10. ASSUME NEW x \in Creates, NEW g \in Nat, RejectInferenceImageAndClose(x, g)
         PROVE  ackJson'[c] = ackJson[c] /\ state'[d] = state[d]
    <3>1. x # c
      BY <2>10 DEF RejectInferenceImageAndClose, Fence
    <3>2. origin[AutoClose[x]] = None => AutoClose[x] # d
      OBVIOUS
    <3> QED
      BY <2>10, <3>1, <3>2 DEF RejectInferenceImageAndClose, TypeOK
  <2>11. ackJson[c] = d
    BY DEF d
  <2> QED
    BY <1>1, <2>4, <2>5, <2>6, <2>7, <2>8, <2>9, <2>10, <2>11, StepCases DEF CommandStep, WriteBackAny, Quiet
<1>3. CASE state[c] # "REJECTED" /\ CommandStep
  <2>1. ASSUME NEW o \in Ops, NEW g \in Nat,
               AckDispatched(o, g) \/ (\E b \in BOOLEAN : MarkUnknown(o, g, b))
        PROVE  FALSE
    BY <1>3, <2>1 DEF AckDispatched, MarkUnknown, TypeOK
  <2>2. ASSUME NEW d \in Deletes, NEW g \in Nat, RejectDeleteVersion(d, g) PROVE FALSE
    BY <1>3, <2>2 DEF RejectDeleteVersion, TypeOK
  <2>3. ASSUME NEW x \in Creates, NEW g \in Nat, RejectInferenceImageAndClose(x, g) PROVE Good(c)'
    <3>1. x = c /\ state[c] = "DISPATCHING"
      BY <1>3, <2>3 DEF RejectInferenceImageAndClose, Fence, TypeOK
    <3>2. CASE /\ \E d \in AttachedClose(c) : ackJson' = [ackJson EXCEPT ![c] = d]
               /\ state' = [state EXCEPT ![c] = "REJECTED"]
               /\ UNCHANGED origin
      <4>1. PICK d \in AttachedClose(c) : ackJson' = [ackJson EXCEPT ![c] = d]
        BY <3>2
      <4>2. d \in Deletes /\ d \in Ops /\ d # c /\ origin[d] = c /\ ackJson'[c] = d
        BY <4>1 DEF AttachedClose, ActiveDelete, TypeOK
      <4>3. state[d] \in {"QUEUED", "DISPATCHING", "UNKNOWN", "ACKED"}
        BY <3>1, <4>1, <4>2 DEF AttachedClose, ActiveDelete, CommandShape, TypeOK, States
      <4> QED
        BY <3>2, <4>2, <4>3 DEF TypeOK
    <3>3. CASE /\ ackJson' = [ackJson EXCEPT ![c] = AutoClose[c]]
               /\ state' = [state EXCEPT ![c] = "REJECTED", ![AutoClose[c]] = "QUEUED"]
               /\ origin' = [origin EXCEPT ![AutoClose[c]] = c]
      BY <3>3 DEF TypeOK
    <3> QED
      BY <2>3, <3>1, <3>2, <3>3 DEF RejectInferenceImageAndClose
  <2>4. ASSUME NEW x \in Creates, NEW d \in Deletes,
               Occupy(x) \/ CancelUnsent(x) \/ CreateDeleteOperation(x, d)
        PROVE  FALSE
    BY <1>3, <2>4 DEF Occupy, CancelUnsent, CreateDeleteOperation, TypeOK
  <2>5. ASSUME NEW o \in Ops, ClaimDispatchable(o) PROVE FALSE
    BY <1>3, <2>5 DEF ClaimDispatchable, TypeOK
  <2> QED
    BY <1>3, <2>1, <2>2, <2>3, <2>4, <2>5 DEF CommandStep, WriteBackAny
<1> QED
  BY <1>1, <1>2, <1>3, StepCases

(* A new DELETE of a guarded resource finds no other one that is active.   *)
LEMMA SingleStep ==
  ASSUME TypeOK, CommandShape, SingleActiveDelete, Step
  PROVE  SingleActiveDelete'
<1> USE ConstantFacts
<1> SUFFICES ASSUME NEW c \in Creates, Guarded(c), NEW d1 \in Deletes, NEW d2 \in Deletes,
                    ActiveDelete(c, d1)', ActiveDelete(c, d2)'
             PROVE  d1 = d2
  BY DEF SingleActiveDelete, Guarded
<1>1. ASSUME NEW d \in Deletes, ActiveDelete(c, d)', origin[d] # None PROVE ActiveDelete(c, d)
  <2>1. origin[d] = c
    BY <1>1, OriginStep DEF ActiveDelete
  <2>2. state[d] # "REJECTED"
    BY <1>1, FinalStep DEF ActiveDelete, Final
  <2> QED
    BY <2>1, <2>2 DEF ActiveDelete
<1>2. ASSUME NEW d \in Deletes, ActiveDelete(c, d)', origin[d] = None
      PROVE  /\ \A x \in Deletes : ~ActiveDelete(c, x)
             /\ \A x \in Deletes \ {d} : origin'[x] = origin[x]
  <2>1. origin'[d] = c /\ ~Quiet
    BY <1>2 DEF ActiveDelete, Quiet
  <2>2. ASSUME NEW x \in Creates, NEW g \in Nat, RejectInferenceImageAndClose(x, g) PROVE FALSE
    <3>1. x # c
      BY <2>2 DEF RejectInferenceImageAndClose, Guarded
    <3> QED
      BY <1>2, <2>1, <2>2, <3>1 DEF RejectInferenceImageAndClose, TypeOK
  <2>3. PICK x \in Creates, e \in Deletes : CreateDeleteOperation(x, e)
    BY <1>2, <2>1, <2>2, StepCases DEF CommandStep, WriteBackAny, Occupy, CancelUnsent, ClaimDispatchable,
         AckDispatched, MarkUnknown, RejectDeleteVersion
  <2>4. x = c /\ e = d
    BY <1>2, <2>1, <2>3 DEF CreateDeleteOperation, TypeOK
  <2> QED
    BY <2>3, <2>4 DEF CreateDeleteOperation, TypeOK
<1>3. ASSUME NEW d \in Deletes, NEW e \in Deletes, ActiveDelete(c, d)', ActiveDelete(c, e)',
             origin[d] = None, d # e
      PROVE  FALSE
  <2>1. origin'[e] = origin[e]
    BY <1>2, <1>3
  <2>2. origin[e] # None
    BY <1>3, <2>1 DEF ActiveDelete
  <2> QED
    BY <1>1, <1>2, <1>3, <2>2
<1> QED
  BY <1>1, <1>3 DEF SingleActiveDelete

-----------------------------------------------------------------------------
(* Theorems.                                                               *)

LEMMA InitInv == LedgerInit => LedgerInv
BY InitType, ConstantFacts DEF LedgerInit, LedgerInv, ChargesBounded, CommandShape, CanceledIsSettled,
   RejectedHasClose, SingleActiveDelete, ActiveDelete

LEMMA StepInv == LedgerInv /\ Step => LedgerInv'
<1> SUFFICES ASSUME LedgerInv, Step PROVE LedgerInv'
  OBVIOUS
<1>1. TypeOK'
  BY StepType DEF LedgerInv
<1> QED
  BY <1>1, BoundedStep, ShapeStep, SettledStep, RejectedStep, SingleStep DEF LedgerInv

LEMMA StutterInv == LedgerInv /\ UNCHANGED vars => LedgerInv'
BY DEF vars, admission, accounts, delivery, LedgerInv, TypeOK, ChargesBounded, CommandShape,
   CanceledIsSettled, RejectedHasClose, SingleActiveDelete, ActiveDelete

LEMMA StepsKeepInvariant == StepSpec => []LedgerInv
<1>1. LedgerInv /\ [Step]_vars => LedgerInv'
  BY StepInv, StutterInv
<1> QED
  BY <1>1, InitInv, PTL DEF StepSpec

LEMMA SpecIsStepSpec == Spec => StepSpec
<1>1. TypeOK /\ [Next]_vars => [Step]_vars
  BY NextIsStep
<1> QED
  BY <1>1, TypeCorrect, PTL DEF Spec, StepSpec

(* The inductive invariant holds in every reachable state of the ledger.   *)
THEOREM LedgerInvariant == Spec => []LedgerInv
BY StepsKeepInvariant, SpecIsStepSpec

(* A canceled CREATE was never claimed and is refunded in full, and its    *)
(* DELETEs are canceled with it.                                           *)
THEOREM CancellationSettled == Spec => []CanceledIsSettled
<1>1. LedgerInv => CanceledIsSettled
  BY DEF LedgerInv
<1> QED
  BY <1>1, LedgerInvariant, PTL

(* No rejected inference CREATE is without its close.                      *)
THEOREM RejectionClosed == Spec => []RejectedHasClose
<1>1. LedgerInv => RejectedHasClose
  BY DEF LedgerInv
<1> QED
  BY <1>1, LedgerInvariant, PTL

(* A VM or container instance never has two active DELETEs.                *)
THEOREM OneActiveDelete == Spec => []SingleActiveDelete
<1>1. LedgerInv => SingleActiveDelete
  BY DEF LedgerInv
<1> QED
  BY <1>1, LedgerInvariant, PTL

LEMMA StepsIrrevocable == StepSpec => NothingTakenBack
<1> DEFINE Kept == /\ \A c \in Creates : \A q \in Codes : released'[c][q] >= released[c][q]
                   /\ \A o \in Ops : state[o] \in Final => state'[o] = state[o]
<1>1. LedgerInv /\ Step => Kept
  <2> SUFFICES ASSUME LedgerInv, Step PROVE Kept
    OBVIOUS
  <2>1. TypeOK /\ TypeOK' /\ ChargesBounded /\ CommandShape
    BY StepInv DEF LedgerInv
  <2>2. \A c \in Creates : \A q \in Codes : released'[c][q] >= released[c][q]
    <3>1. \A c \in Creates : \A q \in Codes : released'[c][q] \in Nat /\ released[c][q] \in Nat
      BY <2>1 DEF TypeOK
    <3> QED
      BY <2>1, <3>1, ReleasedGrows
  <2> QED
    BY <2>1, <2>2, FinalStep
<1>2. LedgerInv /\ [Step]_vars => [Kept]_vars
  BY <1>1
<1> QED
  BY <1>2, StepsKeepInvariant, PTL DEF StepSpec, NothingTakenBack

(* Refunds and decisions are never taken back.                             *)
THEOREM Irrevocable == Spec => NothingTakenBack
BY StepsIrrevocable, SpecIsStepSpec

-----------------------------------------------------------------------------
(* Accounting.                                                             *)

(* The only steps that move an account: an admission, or a refund that     *)
(* raises released units of an operation that exists.                      *)
Refunding(c, totals) ==
  /\ state[c] # "absent" /\ state'[c] # "absent"
  /\ totals \in [Codes -> Nat]
  /\ \A q \in Codes : totals[q] \in released[c][q] .. Units[c][q]
  /\ Refund(c, totals)
  /\ \A x \in Creates \ {c} : state'[x] = "absent" <=> state[x] = "absent"

AccountsKept ==
  /\ UNCHANGED <<occupied, released>>
  /\ \A x \in Creates : state'[x] = "absent" <=> state[x] = "absent"

LEMMA AccountCases ==
  ASSUME LedgerInv, Step
  PROVE  \/ AccountsKept
         \/ \E c \in Creates : Occupy(c)
         \/ \E c \in Creates : \E totals \in [Codes -> Nat] : Refunding(c, totals)
<1> USE ConstantFacts
<1> USE DEF LedgerInv
<1> DEFINE Goal == \/ AccountsKept
                   \/ \E c \in Creates : Occupy(c)
                   \/ \E c \in Creates : \E totals \in [Codes -> Nat] : Refunding(c, totals)
<1>1. ASSUME NEW c \in Creates PROVE /\ Units[c] \in [Codes -> Nat]
                                    /\ \A q \in Codes : Units[c][q] \in released[c][q] .. Units[c][q]
  BY DEF TypeOK, ChargesBounded
<1>2. ASSUME NEW c \in Creates, NEW e \in Events, ReleaseComplete(c, e) PROVE Refunding(c, Units[c])
  BY <1>1, <1>2 DEF ReleaseComplete, Refunding, delivery
<1>3. ASSUME NEW c \in Creates, NEW e \in Events, NEW q \in Codes,
             NEW total \in 0 .. Units[c][q], ReleaseItem(c, e, q, total)
      PROVE  \E totals \in [Codes -> Nat] : Refunding(c, totals)
  <2> DEFINE totals == [released[c] EXCEPT ![q] = IF total > @ THEN total ELSE @]
  <2>1. total \in Nat /\ total <= Units[c][q]
    OBVIOUS
  <2>2. \A p \in Codes : released[c][p] \in Nat /\ released[c][p] <= Units[c][p] /\ Units[c][p] \in Nat
    BY DEF TypeOK, ChargesBounded
  <2>3. released[c] \in [Codes -> Nat]
    BY DEF TypeOK
  <2>4. totals \in [Codes -> Nat]
    BY <2>1, <2>3
  <2>5. \A p \in Codes : totals[p] \in released[c][p] .. Units[c][p]
    BY <2>1, <2>2, <2>3
  <2>6. Refund(c, totals)
    BY <1>3 DEF ReleaseItem
  <2>7. state[c] # "absent" /\ UNCHANGED state
    BY <1>3 DEF ReleaseItem, delivery
  <2> HIDE DEF totals
  <2> QED
    BY <2>4, <2>5, <2>6, <2>7 DEF Refunding
<1>4. ASSUME NEW c \in Creates, CancelUnsent(c) PROVE Refunding(c, Units[c])
  <2>1. Refund(c, Units[c]) /\ state[c] = "QUEUED" /\ state' = [state EXCEPT ![c] = "CANCELED_UNSENT"]
    BY <1>4 DEF CancelUnsent, CancelLocked, Settled, Unsent
  <2> QED
    BY <1>1, <2>1 DEF Refunding, TypeOK
<1>5. ASSUME NEW c \in Creates, NEW d \in Deletes, CreateDeleteOperation(c, d)
      PROVE  Goal
  <2>1. state[c] # "absent" /\ d \in Ops /\ c \in Ops /\ d # c
    BY <1>5 DEF CreateDeleteOperation
  <2>2. CASE state' = [state EXCEPT ![d] = "QUEUED"] /\ UNCHANGED <<occupied, released>>
    BY <2>1, <2>2 DEF AccountsKept, TypeOK
  <2>3. CASE /\ state' = [state EXCEPT ![c] = "CANCELED_UNSENT", ![d] = "CANCELED_UNSENT"]
             /\ UNCHANGED <<occupied, released>>
    BY <2>1, <2>3 DEF AccountsKept, TypeOK
  <2>4. CASE /\ state' = [state EXCEPT ![c] = "CANCELED_UNSENT", ![d] = "CANCELED_UNSENT"]
             /\ Refund(c, Units[c])
    <3>1. state'[c] # "absent" /\ \A x \in Creates \ {c} : state'[x] = "absent" <=> state[x] = "absent"
      BY <2>1, <2>4 DEF TypeOK
    <3> QED
      BY <1>1, <2>1, <2>4, <3>1 DEF Refunding
  <2> QED
    BY <1>5, <2>2, <2>3, <2>4 DEF CreateDeleteOperation, CancelLocked
<1>6. CASE Request
  <2>1. ASSUME NEW t \in Tenants, NEW on \in BOOLEAN, SetTenantActive(t, on) PROVE AccountsKept
    BY <2>1 DEF SetTenantActive, AccountsKept, accounts, delivery
  <2>2. ASSUME NEW t \in Tenants, NEW p \in Plans, ChangePlan(t, p) PROVE AccountsKept
    BY <2>2 DEF ChangePlan, AccountsKept, accounts, delivery
  <2>3. ASSUME NEW o \in Ops, ResumeDispatch(o) PROVE AccountsKept
    BY <2>3 DEF ResumeDispatch, AccountsKept, accounts
  <2> QED
    BY <1>1, <1>4, <1>5, <1>6, <2>1, <2>2, <2>3 DEF Request, UserDeletes
<1>7. CASE OwnerReport
  BY <1>1, <1>2, <1>3, <1>7 DEF OwnerReport
<1>8. CASE Clock \/ WriteBackAny \/ \E o \in Ops : ClaimDispatchable(o)
  <2>1. UNCHANGED <<occupied, released>>
    BY <1>8 DEF Clock, WriteBackAny, LeaseExpires, BackoffOver, ClaimDispatchable, AckDispatched,
         MarkUnknown, RejectDeleteVersion, RejectInferenceImageAndClose, accounts
  <2>2. ASSUME NEW o \in Ops, ClaimDispatchable(o)
        PROVE  \A x \in Creates : state'[x] = "absent" <=> state[x] = "absent"
    BY <2>2 DEF ClaimDispatchable, DispatchDue, TypeOK
  <2>3. ASSUME NEW o \in Ops, NEW g \in Nat,
               AckDispatched(o, g) \/ (\E b \in BOOLEAN : MarkUnknown(o, g, b))
        PROVE  \A x \in Creates : state'[x] = "absent" <=> state[x] = "absent"
    BY <2>3 DEF AckDispatched, MarkUnknown, Fence, TypeOK
  <2>4. ASSUME NEW d \in Deletes, NEW g \in Nat, RejectDeleteVersion(d, g)
        PROVE  \A x \in Creates : state'[x] = "absent" <=> state[x] = "absent"
    BY <2>4 DEF RejectDeleteVersion, Fence, TypeOK
  <2>5. ASSUME NEW c \in Creates, NEW g \in Nat, RejectInferenceImageAndClose(c, g)
        PROVE  \A x \in Creates : state'[x] = "absent" <=> state[x] = "absent"
    <3>1. state[c] = "DISPATCHING" /\ AutoClose[c] \notin Creates
      BY <2>5 DEF RejectInferenceImageAndClose, Fence
    <3> QED
      BY <2>5, <3>1 DEF RejectInferenceImageAndClose, TypeOK
  <2>6. Clock => UNCHANGED state
    BY DEF Clock, LeaseExpires, BackoffOver
  <2> QED
    BY <1>8, <2>1, <2>2, <2>3, <2>4, <2>5, <2>6 DEF WriteBackAny, AccountsKept
<1> QED
  BY <1>6, <1>7, <1>8 DEF Step

LEMMA GrowthIsWithinPlan ==
  ASSUME LedgerInv, Step, NEW t \in Tenants, NEW q \in Codes, occupied'[t][q] > occupied[t][q]
  PROVE  active[t] /\ occupied'[t][q] <= plan[t][q]
<1>1. TypeOK /\ occupied[t][q] \in Nat /\ plan[t][q] \in Nat
  BY ConstantsAssumption DEF LedgerInv, TypeOK
<1>2. ~ AccountsKept
  BY <1>1 DEF AccountsKept
<1>3. ASSUME NEW c \in Creates, NEW totals \in [Codes -> Nat], Refunding(c, totals) PROVE FALSE
  <2>1. totals[q] \in Nat /\ released[c][q] \in Nat /\ totals[q] >= released[c][q]
    BY <1>1, <1>3, ConstantFacts DEF Refunding, TypeOK
  <2>2. occupied'[t][q] = IF t = TenantOf[c] THEN occupied[t][q] - (totals[q] - released[c][q])
                                             ELSE occupied[t][q]
    BY <1>1, <1>3 DEF Refunding, Refund, TypeOK
  <2> QED
    BY <1>1, <2>1, <2>2
<1>4. PICK c \in Creates : Occupy(c)
  BY <1>2, <1>3, AccountCases
<1>5. Units[c][q] \in Nat /\ TenantOf[c] \in Tenants
  BY ConstantFacts
<1>6. occupied'[t][q] = IF t = TenantOf[c] THEN occupied[t][q] + Units[c][q] ELSE occupied[t][q]
  BY <1>1, <1>4 DEF Occupy, TypeOK
<1>7. t = TenantOf[c] /\ q \in Charged(c)
  BY <1>1, <1>5, <1>6 DEF Charged
<1> QED
  BY <1>1, <1>4, <1>5, <1>6, <1>7 DEF Occupy, Fits

LEMMA StepsAdmitWithinPlan == StepSpec => AdmissionWithinPlan
<1> DEFINE Within == \A t \in Tenants : \A q \in Codes :
                       occupied'[t][q] > occupied[t][q] =>
                         active[t] /\ occupied'[t][q] <= plan[t][q]
<1>1. LedgerInv /\ Step => Within
  BY GrowthIsWithinPlan
<1>2. LedgerInv /\ [Step]_vars => [Within]_vars
  BY <1>1
<1> QED
  BY <1>2, StepsKeepInvariant, PTL DEF StepSpec, AdmissionWithinPlan

(* An account grows only by an admission within the plan in force.         *)
THEOREM AdmissionBounded == Spec => AdmissionWithinPlan
BY StepsAdmitWithinPlan, SpecIsStepSpec

(* How refunds and receipts change together: not at all, by a local        *)
(* cancellation, or by a report of the owner.                              *)
Withdrawing(c) ==
  /\ UNCHANGED receipts
  /\ released' = [released EXCEPT ![c] = Units[c]]
  /\ state'[c] = "CANCELED_UNSENT"

LEMMA ReceiptCases ==
  ASSUME TypeOK, Step
  PROVE  \/ UNCHANGED <<receipts, released>>
         \/ \E c \in Creates : Withdrawing(c)
         \/ OwnerReport
<1> USE ConstantFacts
<1>1. ASSUME NEW c \in Creates, CancelUnsent(c) PROVE Withdrawing(c)
  BY <1>1 DEF CancelUnsent, CancelLocked, Unsent, Settled, Refund, Withdrawing, TypeOK
<1>2. ASSUME NEW c \in Creates, NEW d \in Deletes, CreateDeleteOperation(c, d)
      PROVE  UNCHANGED <<receipts, released>> \/ Withdrawing(c)
  <2>1. c # d /\ UNCHANGED receipts
    BY <1>2 DEF CreateDeleteOperation
  <2>2. CASE CancelLocked(c) /\ state' = [state EXCEPT ![c] = "CANCELED_UNSENT", ![d] = "CANCELED_UNSENT"]
    BY <2>1, <2>2 DEF CancelLocked, Refund, Withdrawing, TypeOK
  <2> QED
    BY <1>2, <2>1, <2>2 DEF CreateDeleteOperation
<1>3. CASE Request
  BY <1>1, <1>2, <1>3 DEF Request, UserDeletes, SetTenantActive, ChangePlan, Occupy, ResumeDispatch,
     accounts
<1>4. CASE Clock \/ WriteBackAny \/ \E o \in Ops : ClaimDispatchable(o)
  BY <1>4 DEF Clock, WriteBackAny, LeaseExpires, BackoffOver, ClaimDispatchable, AckDispatched,
     MarkUnknown, RejectDeleteVersion, RejectInferenceImageAndClose, accounts
<1> QED
  BY <1>3, <1>4 DEF Step

(* What a receipt reports is a number, and is of one of the CREATEs.       *)
LEMMA ReportedFacts ==
  ASSUME TypeOK, NEW r \in receipts
  PROVE  /\ r.payload.create \in Creates
         /\ \A q \in Codes : Reported(r, q) \in Nat
<1>1. r \in Receipts /\ r.payload \in Payloads
  BY DEF TypeOK, Receipts
<1>2. CASE r.payload \in [kind : {"complete"}, create : Creates]
  BY <1>2, ConstantFacts DEF Reported
<1>3. CASE r.payload \in [kind : {"items"}, create : Creates, code : Codes, total : Nat]
  BY <1>3 DEF Reported
<1> QED
  BY <1>1, <1>2, <1>3 DEF Payloads

(* The two reports in the terms of the property: one receipt is added, and *)
(* the charges it names rise to what it reports, or stand above it.        *)
Reporting(c, r) ==
  /\ r.payload.create = c
  /\ receipts' = receipts \cup {r}
  /\ UNCHANGED state
  /\ \A x \in receipts : ~SameEvent(x, r) /\ ~SameEvent(r, x)
  /\ \A x \in Creates \ {c} : released'[x] = released[x]
  /\ \A q \in Codes :
       /\ Reported(r, q) <= released'[c][q]
       /\ released'[c][q] \in {released[c][q], Reported(r, q)}

LEMMA ReportCases ==
  ASSUME LedgerInv, OwnerReport
  PROVE  \E c \in Creates : \E r : Reporting(c, r)
<1> USE ConstantFacts
<1>1. TypeOK /\ ChargesBounded
  BY DEF LedgerInv
<1>2. \A c \in Creates : \A q \in Codes : released[c][q] \in Nat /\ released[c][q] <= Units[c][q]
  BY <1>1 DEF TypeOK, ChargesBounded
<1>3. ASSUME NEW c \in Creates, NEW e \in Events, NEW q \in Codes, NEW total \in 0 .. Units[c][q],
             ReleaseItem(c, e, q, total)
      PROVE  \E r : Reporting(c, r)
  <2> DEFINE payload == [kind |-> "items", create |-> c, code |-> q, total |-> total]
             r == Receipt(c, e, payload)
             totals == [released[c] EXCEPT ![q] = IF total > @ THEN total ELSE @]
  <2>1. total \in Nat /\ released[c] \in [Codes -> Nat]
    BY <1>1 DEF TypeOK
  <2>2. receipts' = receipts \cup {r} /\ UNCHANGED state /\ released' = [released EXCEPT ![c] = totals]
    BY <1>3 DEF ReleaseItem, Refund, delivery
  <2>3. \A p \in Codes : Reported(r, p) = IF p = q THEN total ELSE 0
    BY DEF Reported, Receipt
  <2>4. \A x \in receipts : ~SameEvent(x, r) /\ ~SameEvent(r, x)
    BY <1>3 DEF ReleaseItem, EventUsed, SameEvent, Receipt
  <2>5. released'[c] = totals /\ \A x \in Creates \ {c} : released'[x] = released[x]
    BY <1>1, <2>2 DEF TypeOK
  <2>6. \A p \in Codes : totals[p] = IF p = q /\ total > released[c][q] THEN total ELSE released[c][p]
    BY <2>1
  <2>7. \A p \in Codes : /\ Reported(r, p) <= released'[c][p]
                         /\ released'[c][p] \in {released[c][p], Reported(r, p)}
    BY <1>2, <2>1, <2>3, <2>5, <2>6
  <2>8. r.payload.create = c
    BY DEF Receipt
  <2> QED
    BY <2>2, <2>4, <2>5, <2>7, <2>8 DEF Reporting
<1>4. ASSUME NEW c \in Creates, NEW e \in Events, ReleaseComplete(c, e)
      PROVE  \E r : Reporting(c, r)
  <2> DEFINE r == Receipt(c, e, [kind |-> "complete", create |-> c])
  <2>1. receipts' = receipts \cup {r} /\ UNCHANGED state /\ released' = [released EXCEPT ![c] = Units[c]]
    BY <1>4 DEF ReleaseComplete, Refund, delivery
  <2>2. r.payload.create = c /\ \A p \in Codes : Reported(r, p) = Units[c][p]
    BY DEF Reported, Receipt
  <2>3. \A x \in receipts : ~SameEvent(x, r) /\ ~SameEvent(r, x)
    BY <1>4 DEF ReleaseComplete, EventUsed, SameEvent, Receipt
  <2>4. released'[c] = Units[c] /\ \A x \in Creates \ {c} : released'[x] = released[x]
    BY <1>1, <2>1 DEF TypeOK
  <2>5. \A p \in Codes : Reported(r, p) <= released'[c][p] /\ released'[c][p] = Reported(r, p)
    BY <2>2, <2>4
  <2> QED
    BY <2>1, <2>2, <2>3, <2>4, <2>5 DEF Reporting
<1> QED
  BY <1>3, <1>4 DEF OwnerReport

(* No charge is lowered, so that what was reported stays covered.          *)
LEMMA TotalsStep ==
  ASSUME LedgerInv, TotalsKept, Step
  PROVE  TotalsKept'
<1>1. TypeOK /\ TypeOK' /\ ChargesBounded
  BY StepInv DEF LedgerInv
<1>2. \A c \in Creates : \A q \in Codes : /\ released[c][q] \in Nat /\ released'[c][q] \in Nat
                                          /\ released[c][q] <= released'[c][q]
  BY <1>1, ReleasedGrows DEF TypeOK
<1>3. ASSUME NEW r \in receipts, NEW q \in Codes
      PROVE  Reported(r, q) <= released'[r.payload.create][q]
  <2>1. /\ r.payload.create \in Creates /\ Reported(r, q) \in Nat
        /\ Reported(r, q) <= released[r.payload.create][q]
    BY <1>1, ReportedFacts DEF TotalsKept
  <2> QED
    BY <1>2, <2>1
<1>4. ASSUME UNCHANGED receipts PROVE TotalsKept'
  BY <1>3, <1>4 DEF TotalsKept, Reported
<1>5. ASSUME NEW c \in Creates, NEW r, Reporting(c, r) PROVE TotalsKept'
  BY <1>3, <1>5 DEF TotalsKept, Reported, Reporting
<1> QED
  BY <1>1, <1>4, <1>5, ReceiptCases, ReportCases DEF Withdrawing

(* A canceled CREATE stays canceled, and a report explains what it raises. *)
LEMMA ReportedStep ==
  ASSUME LedgerInv, RefundsReported, Step
  PROVE  RefundsReported'
<1>1. TypeOK /\ CommandShape
  BY DEF LedgerInv
<1>2. ASSUME NEW c \in Creates, state'[c] # "CANCELED_UNSENT" PROVE state[c] # "CANCELED_UNSENT"
  <2>1. c \in Ops
    BY ConstantFacts
  <2> QED
    BY <1>1, <1>2, <2>1, FinalStep DEF Final
<1> SUFFICES ASSUME NEW c \in Creates, NEW q \in Codes,
                    released'[c][q] > 0, state'[c] # "CANCELED_UNSENT"
             PROVE  \E r \in receipts' : r.payload.create = c /\ Reported(r, q) = released'[c][q]
  BY DEF RefundsReported, Reported
<1>3. ASSUME released'[c][q] = released[c][q], receipts \subseteq receipts'
      PROVE  \E r \in receipts' : r.payload.create = c /\ Reported(r, q) = released'[c][q]
  BY <1>2, <1>3 DEF RefundsReported
<1>4. ASSUME NEW x \in Creates, Withdrawing(x)
      PROVE  released'[c][q] = released[c][q] /\ receipts \subseteq receipts'
  BY <1>1, <1>4 DEF Withdrawing, TypeOK
<1>5. ASSUME NEW x \in Creates, NEW r, Reporting(x, r)
      PROVE  \E y \in receipts' : y.payload.create = c /\ Reported(y, q) = released'[c][q]
  BY <1>3, <1>5 DEF Reporting
<1> QED
  BY <1>1, <1>3, <1>4, <1>5, ReceiptCases, ReportCases

LEMMA DistinctStep ==
  ASSUME LedgerInv, EventsDistinct, Step
  PROVE  EventsDistinct'
<1>1. ASSUME UNCHANGED receipts PROVE EventsDistinct'
  BY <1>1 DEF EventsDistinct, SameEvent
<1>2. ASSUME NEW c \in Creates, NEW r, Reporting(c, r) PROVE EventsDistinct'
  BY <1>2 DEF EventsDistinct, Reporting, SameEvent
<1> QED
  BY <1>1, <1>2, ReceiptCases, ReportCases DEF LedgerInv, Withdrawing

LEMMA StepsFollowReceipts == StepSpec => []RefundsFollowReceipts
<1>1. LedgerInit => RefundsFollowReceipts
  <2>1. LedgerInit => TotalsKept /\ EventsDistinct
    BY DEF LedgerInit, TotalsKept, EventsDistinct
  <2>2. LedgerInit => RefundsReported
    BY DEF LedgerInit, RefundsReported
  <2> QED
    BY <2>1, <2>2 DEF RefundsFollowReceipts
<1>2. LedgerInv /\ RefundsFollowReceipts /\ Step => RefundsFollowReceipts'
  BY TotalsStep, ReportedStep, DistinctStep DEF RefundsFollowReceipts
<1>3. RefundsFollowReceipts /\ UNCHANGED vars => RefundsFollowReceipts'
  BY DEF RefundsFollowReceipts, TotalsKept, RefundsReported, EventsDistinct, SameEvent, Reported, vars,
     accounts, delivery
<1> QED
  BY <1>1, <1>2, <1>3, StepsKeepInvariant, PTL DEF StepSpec

(* What a charge has given back is what the receipts of its CREATE report. *)
THEOREM RefundsAreReceipted == Spec => []RefundsFollowReceipts
BY StepsFollowReceipts, SpecIsStepSpec

(* The other side of it: a step that raises a refund without canceling the *)
(* CREATE takes an event in that no receipt had, so that a report which is *)
(* repeated, or comes again with other content, refunds nothing.           *)
RefundsNeedNewEvents ==
  [][\A c \in Creates : released'[c] # released[c] /\ state'[c] # "CANCELED_UNSENT" =>
       \E r \in receipts' : \A x \in receipts : ~SameEvent(x, r)]_vars

LEMMA StepsNeedNewEvents == StepSpec => RefundsNeedNewEvents
<1> DEFINE New == \A c \in Creates : released'[c] # released[c] /\ state'[c] # "CANCELED_UNSENT" =>
                    \E r \in receipts' : \A x \in receipts : ~SameEvent(x, r)
<1>1. ASSUME LedgerInv, Step PROVE New
  <2>1. TypeOK
    BY <1>1 DEF LedgerInv
  <2>2. ASSUME NEW x \in Creates, Withdrawing(x) PROVE New
    BY <2>1, <2>2 DEF Withdrawing, TypeOK
  <2>3. ASSUME NEW x \in Creates, NEW r, Reporting(x, r) PROVE New
    BY <2>3 DEF Reporting
  <2>4. ASSUME UNCHANGED released PROVE New
    BY <2>4
  <2> HIDE DEF New
  <2> QED
    BY <1>1, <2>1, <2>2, <2>3, <2>4, ReceiptCases, ReportCases
<1>2. LedgerInv /\ [Step]_vars => [New]_vars
  BY <1>1
<1> QED
  BY <1>2, StepsKeepInvariant, PTL DEF StepSpec, RefundsNeedNewEvents

THEOREM RepeatsRefundNothing == Spec => RefundsNeedNewEvents
BY StepsNeedNewEvents, SpecIsStepSpec

-----------------------------------------------------------------------------
(* The books balance.                                                      *)

(* What each CREATE has not given back of a code, and the CREATEs of a     *)
(* tenant that were admitted.                                              *)
Owed(q) == [c \in Creates |-> Remaining(c)[q]]
Mine(t) == {c \in Creates : TenantOf[c] = t /\ state[c] # "absent"}

(* Balanced with its sum as that of a function.                            *)
InBalance == \A t \in Tenants : \A q \in Codes : occupied[t][q] = SumOver(Owed(q), Mine(t))

LEMMA BalancedIsSum == Balanced <=> InBalance
<1>1. ASSUME NEW t \in Tenants, NEW q \in Codes
      PROVE  MapThenSumSet(LAMBDA c : Remaining(c)[q],
                           {c \in Creates : TenantOf[c] = t /\ state[c] # "absent"}) = SumOver(Owed(q), Mine(t))
  <2> DEFINE mine == {c \in Creates : TenantOf[c] = t /\ state[c] # "absent"}
             Solves(h) == h = [s \in SUBSET mine |->
                                IF s = {} THEN 0
                                ELSE Remaining(CHOOSE c \in s : TRUE)[q] + h[s \ {CHOOSE c \in s : TRUE}]]
             k == CHOOSE h : Solves(h)
  <2>1. MapThenSumSet(LAMBDA c : Remaining(c)[q], mine) = k[mine]
    BY DEF MapThenSumSet, MapThenFoldSet
  <2>2. IsFiniteSet(mine) /\ mine \subseteq Creates /\ mine = Mine(t)
    BY ConstantsAssumption, FS_Subset DEF Mine
  <2> HIDE DEF k, mine
  <2>3. \A s \in SUBSET mine : s # {} => Owed(q)[Pick(s)] = Remaining(CHOOSE c \in s : TRUE)[q]
    BY <2>2, PickMember DEF Owed, Pick
  <2>4. ASSUME NEW h PROVE Adds(h, Owed(q), mine) <=> Solves(h)
    <3> DEFINE A == [s \in SUBSET mine |-> IF s = {} THEN 0 ELSE Owed(q)[Pick(s)] + h[s \ {Pick(s)}]]
               B == [s \in SUBSET mine |->
                      IF s = {} THEN 0
                      ELSE Remaining(CHOOSE c \in s : TRUE)[q] + h[s \ {CHOOSE c \in s : TRUE}]]
    <3>1. ASSUME NEW s \in SUBSET mine PROVE A[s] = B[s]
      BY <2>3 DEF Pick
    <3>2. A = B
      BY <3>1
    <3> QED
      BY <3>2 DEF Adds
  <2> HIDE DEF Solves
  <2>5. \E h : Solves(h)
    BY <2>2, <2>4, AddsExists
  <2>6. Solves(k)
    BY <2>5 DEF k
  <2>7. SumOver(Owed(q), mine) = k[mine]
    BY <2>2, <2>4, <2>6, SumSolves
  <2> QED
    BY <2>1, <2>2, <2>7 DEF mine
<1> QED
  BY <1>1 DEF Balanced, InBalance

(* What a CREATE owes is a number of units.                                *)
OwedUnits == \A c \in Creates : \A q \in Codes :
               Owed(q)[c] = Units[c][q] - released[c][q] /\ Owed(q)[c] \in Nat

LEMMA OwedFacts == LedgerInv => OwedUnits
<1> SUFFICES ASSUME LedgerInv, NEW c \in Creates, NEW q \in Codes
             PROVE  Owed(q)[c] = Units[c][q] - released[c][q] /\ Owed(q)[c] \in Nat
  BY DEF OwedUnits
<1>1. released[c][q] \in Nat /\ Units[c][q] \in Nat /\ released[c][q] <= Units[c][q]
  BY ConstantFacts DEF LedgerInv, TypeOK, ChargesBounded
<1>2. Owed(q)[c] = Units[c][q] - released[c][q]
  BY DEF Owed, Remaining
<1> QED
  BY <1>1, <1>2

LEMMA MineFinite == \A t : IsFiniteSet(Mine(t)) /\ Mine(t) \subseteq Creates
BY ConstantsAssumption, FS_Subset DEF Mine

LEMMA BalanceInit == LedgerInit => InBalance
<1> SUFFICES ASSUME LedgerInit, NEW t \in Tenants, NEW q \in Codes
             PROVE  occupied[t][q] = SumOver(Owed(q), Mine(t))
  BY DEF InBalance
<1>1. Mine(t) = {}
  BY ConstantFacts DEF LedgerInit, Mine
<1>2. SumOver(Owed(q), Mine(t)) = 0
  BY <1>1, MineFinite, SumStep
<1> QED
  BY <1>2 DEF LedgerInit

(* An admission adds a summand; a refund lowers one by what it returns.    *)
LEMMA BalanceStep ==
  ASSUME LedgerInv, InBalance, Step
  PROVE  InBalance'
<1> SUFFICES ASSUME NEW t \in Tenants, NEW q \in Codes
             PROVE  occupied'[t][q] = SumOver(Owed(q)', Mine(t)')
  BY DEF InBalance
<1>0. /\ TypeOK /\ LedgerInv' /\ occupied[t][q] \in Nat
      /\ occupied[t][q] = SumOver(Owed(q), Mine(t))
  BY StepInv DEF LedgerInv, TypeOK, InBalance
<1>1. \A c \in Creates : /\ Owed(q)[c] = Units[c][q] - released[c][q] /\ Owed(q)[c] \in Nat
                         /\ released[c][q] \in Nat /\ Units[c][q] \in Nat /\ TenantOf[c] \in Tenants
  BY <1>0, OwedFacts, ConstantFacts DEF OwedUnits, TypeOK
<1>2. \A c \in Creates : Owed(q)'[c] = Units[c][q] - released'[c][q] /\ Owed(q)'[c] \in Nat
  <2>1. LedgerInv' => OwedUnits'
    BY OwedFacts, PTL
  <2> QED
    BY <1>0, <2>1 DEF OwedUnits
<1>3. IsFiniteSet(Mine(t)) /\ Mine(t) \subseteq Creates
  BY MineFinite
<1>4. CASE AccountsKept
  <2>1. Mine(t)' = Mine(t) /\ Owed(q)' = Owed(q)
    BY <1>4 DEF AccountsKept, Mine, Owed, Remaining
  <2> QED
    BY <1>0, <1>4, <2>1 DEF AccountsKept
<1>5. ASSUME NEW c \in Creates, Occupy(c) PROVE occupied'[t][q] = SumOver(Owed(q)', Mine(t)')
  <2>1. /\ state[c] = "absent" /\ state' = [state EXCEPT ![c] = "QUEUED"] /\ UNCHANGED released
        /\ occupied' = [occupied EXCEPT ![TenantOf[c]] = [p \in Codes |-> @[p] + Units[c][p]]]
    BY <1>5 DEF Occupy
  <2>2. Owed(q)' = Owed(q) /\ Owed(q)[c] = Units[c][q]
    <3>1. released[c][q] = 0
      BY <2>1 DEF LedgerInv, ChargesBounded
    <3> QED
      BY <1>1, <2>1, <3>1 DEF Owed, Remaining
  <2>3. occupied'[t][q] = IF t = TenantOf[c] THEN occupied[t][q] + Units[c][q] ELSE occupied[t][q]
    BY <1>0, <2>1 DEF TypeOK
  <2>4. Mine(t)' = IF t = TenantOf[c] THEN Mine(t) \cup {c} ELSE Mine(t)
    BY <1>0, <2>1, ConstantFacts DEF Mine, TypeOK
  <2>5. CASE t = TenantOf[c]
    <3>1. c \notin Mine(t) /\ (Mine(t) \cup {c}) \ {c} = Mine(t)
      BY <2>1 DEF Mine
    <3>2. IsFiniteSet(Mine(t) \cup {c})
      BY <1>3, FS_AddElement
    <3>3. \A x \in Mine(t) \cup {c} : Owed(q)[x] \in Nat
      BY <1>1, <1>3
    <3>4. SumOver(Owed(q), Mine(t) \cup {c}) = Owed(q)[c] + SumOver(Owed(q), Mine(t))
      BY <3>1, <3>2, <3>3, SumMember
    <3> QED
      BY <1>0, <1>1, <2>2, <2>3, <2>4, <2>5, <3>4
  <2>6. CASE t # TenantOf[c]
    BY <1>0, <2>2, <2>3, <2>4, <2>6
  <2> QED
    BY <2>5, <2>6
<1>6. ASSUME NEW c \in Creates, NEW totals \in [Codes -> Nat], Refunding(c, totals)
      PROVE  occupied'[t][q] = SumOver(Owed(q)', Mine(t)')
  <2>1. /\ released' = [released EXCEPT ![c] = totals]
        /\ occupied' = [occupied EXCEPT ![TenantOf[c]] = [p \in Codes |-> @[p] - (totals[p] - released[c][p])]]
    BY <1>6 DEF Refunding, Refund
  <2>2. Mine(t)' = Mine(t)
    BY <1>6 DEF Refunding, Mine
  <2>3. /\ \A x \in Creates \ {c} : released'[x] = released[x]
        /\ released'[c] = totals /\ totals[q] \in Nat
    BY <1>0, <2>1 DEF TypeOK
  <2>4. \A x \in Creates \ {c} : Owed(q)'[x] = Owed(q)[x]
    BY <1>1, <1>2, <2>3
  <2>5. occupied'[t][q] = IF t = TenantOf[c] THEN occupied[t][q] - (totals[q] - released[c][q])
                                             ELSE occupied[t][q]
    BY <1>0, <2>1 DEF TypeOK
  <2>6. CASE t = TenantOf[c]
    <3>1. c \in Mine(t)
      BY <1>6, <2>6 DEF Refunding, Mine
    <3>2. SumOver(Owed(q)', Mine(t)) = SumOver(Owed(q), Mine(t)) - Owed(q)[c] + Owed(q)'[c]
      <4>1. /\ \A x \in Mine(t) : Owed(q)[x] \in Nat /\ Owed(q)'[x] \in Nat
            /\ \A x \in Mine(t) \ {c} : Owed(q)'[x] = Owed(q)[x]
        BY <1>1, <1>2, <1>3, <2>4
      <4> QED
        BY <1>3, <3>1, <4>1, SumUpdate
    <3>3. Owed(q)[c] = Units[c][q] - released[c][q] /\ Owed(q)'[c] = Units[c][q] - totals[q]
      BY <1>1, <1>2, <2>3
    <3> QED
      BY <1>0, <1>1, <2>2, <2>3, <2>5, <2>6, <3>2, <3>3
  <2>7. CASE t # TenantOf[c]
    <3>1. c \notin Mine(t)
      BY <2>7 DEF Mine
    <3>2. SumOver(Owed(q)', Mine(t)) = SumOver(Owed(q), Mine(t))
      BY <1>3, <2>4, <3>1, SumSame
    <3> QED
      BY <1>0, <2>2, <2>5, <2>7, <3>2
  <2> QED
    BY <2>6, <2>7
<1> QED
  BY <1>4, <1>5, <1>6, AccountCases

LEMMA StepsBalance == StepSpec => []Balanced
<1>1. InBalance /\ UNCHANGED vars => InBalance'
  <2> SUFFICES ASSUME InBalance, UNCHANGED vars PROVE InBalance'
    OBVIOUS
  <2>1. UNCHANGED <<occupied, released, state>>
    BY DEF vars, accounts, delivery
  <2>2. \A t \in Tenants : \A q \in Codes : Owed(q)' = Owed(q) /\ Mine(t)' = Mine(t)
    BY <2>1 DEF Owed, Mine, Remaining
  <2> QED
    BY <2>1, <2>2 DEF InBalance
<1>2. LedgerInv /\ InBalance /\ [Step]_vars => InBalance'
  BY <1>1, BalanceStep
<1>3. StepSpec => []InBalance
  BY <1>2, BalanceInit, StepsKeepInvariant, PTL DEF StepSpec
<1> QED
  BY <1>3, BalancedIsSum, PTL

(* Every account holds what its tenant's CREATEs have not given back.      *)
THEOREM AccountsBalance == Spec => []Balanced
BY StepsBalance, SpecIsStepSpec

(* applyCumulativeRelease's check that the account covers the refund never *)
(* fails: totals that reach the charge and no further are always payable.  *)
THEOREM RefundsArePayable ==
  ASSUME LedgerInv, Balanced, NEW c \in Creates, state[c] # "absent",
         NEW totals \in [Codes -> Nat], \A q \in Codes : totals[q] <= Units[c][q]
  PROVE  \A q \in Codes : occupied[TenantOf[c]][q] >= totals[q] - released[c][q]
<1> SUFFICES ASSUME NEW q \in Codes
             PROVE  occupied[TenantOf[c]][q] >= totals[q] - released[c][q]
  OBVIOUS
<1> DEFINE t == TenantOf[c]
<1>1. t \in Tenants /\ c \in Mine(t) /\ IsFiniteSet(Mine(t)) /\ Mine(t) \subseteq Creates
  BY ConstantFacts, MineFinite DEF Mine
<1>2. occupied[t][q] = SumOver(Owed(q), Mine(t))
  BY <1>1, BalancedIsSum DEF InBalance
<1>3. \A x \in Mine(t) : Owed(q)[x] \in Nat
  BY <1>1, OwedFacts DEF OwedUnits
<1>4. Owed(q)[c] <= occupied[t][q]
  BY <1>1, <1>2, <1>3, SumBound
<1>5. /\ Owed(q)[c] = Units[c][q] - released[c][q] /\ totals[q] <= Units[c][q]
      /\ occupied[t][q] \in Nat /\ released[c][q] \in Nat /\ Units[c][q] \in Nat /\ totals[q] \in Nat
  BY <1>1, OwedFacts, ConstantFacts DEF OwedUnits, LedgerInv, TypeOK
<1> QED
  BY <1>4, <1>5

-----------------------------------------------------------------------------
(* What an account can reach.                                              *)

(* No account is above the largest plan there is: quotas change under live *)
(* charges, but nothing is ever admitted beyond some plan.                 *)
WithinSomePlan == \A t \in Tenants : \A q \in Codes : \E p \in Plans : occupied[t][q] <= p[q]

(* A GPU charge is given back as a whole or not at all.                    *)
GpuWhole == \A c \in Creates : \A q \in GpuCodes : released[c][q] \in {0, Units[c][q]}

LEMMA StepsStayWithinPlans == StepSpec => []WithinSomePlan
<1>1. LedgerInit => WithinSomePlan
  <2> SUFFICES ASSUME LedgerInit, NEW t \in Tenants, NEW q \in Codes
               PROVE  \E p \in Plans : occupied[t][q] <= p[q]
    BY DEF WithinSomePlan
  <2>1. occupied[t][q] = 0 /\ plan[t] \in Plans /\ plan[t][q] \in Nat
    BY ConstantsAssumption DEF LedgerInit
  <2> QED
    BY <2>1
<1>2. ASSUME LedgerInv, WithinSomePlan, Step PROVE WithinSomePlan'
  <2> SUFFICES ASSUME NEW t \in Tenants, NEW q \in Codes
               PROVE  \E p \in Plans : occupied'[t][q] <= p[q]
    BY DEF WithinSomePlan
  <2>1. /\ occupied[t][q] \in Nat /\ occupied'[t][q] \in Nat
        /\ plan[t] \in Plans /\ \A p \in Plans : p[q] \in Nat
    BY <1>2, StepInv, ConstantsAssumption DEF LedgerInv, TypeOK
  <2>2. CASE occupied'[t][q] > occupied[t][q]
    BY <1>2, <2>1, <2>2, GrowthIsWithinPlan
  <2>3. CASE occupied'[t][q] <= occupied[t][q]
    <3>1. PICK p \in Plans : occupied[t][q] <= p[q]
      BY <1>2 DEF WithinSomePlan
    <3> QED
      BY <2>1, <2>3, <3>1
  <2> QED
    BY <2>1, <2>2, <2>3
<1>3. WithinSomePlan /\ UNCHANGED vars => WithinSomePlan'
  BY DEF WithinSomePlan, vars, accounts
<1> QED
  BY <1>1, <1>2, <1>3, StepsKeepInvariant, PTL DEF StepSpec

(* However often plans are changed, no account is ever above the largest   *)
(* quota a plan can be given (QuotaLedgerRepo.Occupy under the tenant      *)
(* lock): a cut plan leaves old charges in place and admits nothing new.   *)
THEOREM AccountsWithinPlans == Spec => []WithinSomePlan
BY StepsStayWithinPlans, SpecIsStepSpec

(* The refunds a step can make.                                            *)
LEMMA RefundCases ==
  ASSUME Step
  PROVE  \/ UNCHANGED released
         \/ \E c \in Creates : released' = [released EXCEPT ![c] = Units[c]]
         \/ \E c \in Creates : \E q \in Codes \ GpuCodes : \E n :
              released' = [released EXCEPT ![c] = [released[c] EXCEPT ![q] = n]]
<1> DEFINE Goal == \/ UNCHANGED released
                   \/ \E c \in Creates : released' = [released EXCEPT ![c] = Units[c]]
                   \/ \E c \in Creates : \E q \in Codes \ GpuCodes : \E n :
                        released' = [released EXCEPT ![c] = [released[c] EXCEPT ![q] = n]]
<1>1. ASSUME NEW c \in Creates, NEW e \in Events, NEW q \in Codes,
             NEW total \in 0 .. Units[c][q], ReleaseItem(c, e, q, total)
      PROVE  Goal
  <2>1. /\ q \in Codes \ GpuCodes
        /\ released' = [released EXCEPT ![c] = [released[c] EXCEPT ![q] = IF total > @ THEN total ELSE @]]
    BY <1>1 DEF ReleaseItem, Refund
  <2> QED
    BY <2>1
<1>2. ASSUME NEW c \in Creates, NEW e \in Events, ReleaseComplete(c, e) PROVE Goal
  BY <1>2 DEF ReleaseComplete, Refund
<1>3. ASSUME NEW c \in Creates, CancelLocked(c) PROVE Goal
  BY <1>3 DEF CancelLocked, Refund
<1>4. ASSUME NEW c \in Creates, NEW d \in Deletes, CreateDeleteOperation(c, d) PROVE Goal
  BY <1>3, <1>4 DEF CreateDeleteOperation
<1>5. CASE Request
  BY <1>3, <1>4, <1>5 DEF Request, UserDeletes, SetTenantActive, ChangePlan, Occupy, CancelUnsent,
     ResumeDispatch, accounts
<1>6. CASE OwnerReport
  BY <1>1, <1>2, <1>6 DEF OwnerReport
<1>7. CASE Clock \/ WriteBackAny \/ \E o \in Ops : ClaimDispatchable(o)
  BY <1>7 DEF Clock, WriteBackAny, LeaseExpires, BackoffOver, ClaimDispatchable, AckDispatched,
     MarkUnknown, RejectDeleteVersion, RejectInferenceImageAndClose, accounts
<1> QED
  BY <1>5, <1>6, <1>7 DEF Step

LEMMA StepsRefundGpuWhole == StepSpec => []GpuWhole
<1> USE ConstantFacts
<1>1. LedgerInit => GpuWhole
  BY ConstantsAssumption DEF LedgerInit, GpuWhole
<1>2. ASSUME TypeOK, GpuWhole, Step PROVE GpuWhole'
  <2> SUFFICES ASSUME NEW c \in Creates, NEW q \in GpuCodes
               PROVE  released'[c][q] \in {0, Units[c][q]}
    BY DEF GpuWhole
  <2>1. released \in [Creates -> [Codes -> Nat]] /\ q \in Codes /\ released[c][q] \in {0, Units[c][q]}
    BY <1>2, ConstantsAssumption DEF TypeOK, GpuWhole
  <2>2. ASSUME NEW x \in Creates, released' = [released EXCEPT ![x] = Units[x]]
        PROVE  released'[c][q] \in {0, Units[c][q]}
    BY <2>1, <2>2
  <2>3. ASSUME NEW x \in Creates, NEW p \in Codes \ GpuCodes, NEW n,
               released' = [released EXCEPT ![x] = [released[x] EXCEPT ![p] = n]]
        PROVE  released'[c][q] = released[c][q]
    <3>1. p # q /\ released[x] \in [Codes -> Nat]
      BY <2>1
    <3> QED
      BY <2>1, <2>3, <3>1
  <2> QED
    BY <1>2, <2>1, <2>2, <2>3, RefundCases
<1>3. GpuWhole /\ UNCHANGED vars => GpuWhole'
  BY DEF GpuWhole, vars, accounts
<1> QED
  BY <1>1, <1>2, <1>3, StepsKeepInvariant, PTL DEF StepSpec, LedgerInv

-----------------------------------------------------------------------------
(* Refinement.                                                             *)

held     == [c \in Creates |-> IF state[c] = "absent" THEN [q \in Codes |-> 0] ELSE Remaining(c)]
admitted == {c \in Creates : state[c] # "absent"}

LEMMA HeldFacts ==
  ASSUME LedgerInv, NEW c \in Creates, NEW q \in Codes
  PROVE  /\ held[c][q] = IF state[c] = "absent" THEN 0 ELSE Units[c][q] - released[c][q]
         /\ held[c][q] \in Nat
         /\ held[c] \in [Codes -> Nat]
<1>1. \A p \in Codes : /\ released[c][p] \in Nat /\ Units[c][p] \in Nat
                       /\ released[c][p] <= Units[c][p]
  BY ConstantFacts DEF LedgerInv, TypeOK, ChargesBounded
<1>2. \A p \in Codes : held[c][p] = IF state[c] = "absent" THEN 0 ELSE Units[c][p] - released[c][p]
  BY DEF held, Remaining
<1>3. \A p \in Codes : held[c][p] \in Nat
  BY <1>1, <1>2
<1>4. \E f \in [Codes -> Nat] : held[c] = f
  <2>1. held[c] = [p \in Codes |-> held[c][p]]
    BY DEF held, Remaining
  <2> QED
    BY <1>3, <2>1
<1> QED
  BY <1>2, <1>3, <1>4

(* Every step of the ledger is a step of the abstract accounting or none.  *)
LEMMA StepRefines == LedgerInv /\ Step => [Accounting!Next]_<<occupied, held, admitted>>
<1> SUFFICES ASSUME LedgerInv, Step PROVE [Accounting!Next]_<<occupied, held, admitted>>
  OBVIOUS
<1>0. LedgerInv' /\ TypeOK /\ TypeOK'
  BY StepInv DEF LedgerInv
<1>1. CASE AccountsKept
  <2>1. UNCHANGED admitted
    BY <1>1 DEF AccountsKept, admitted
  <2>2. UNCHANGED held
    BY <1>1 DEF AccountsKept, held, Remaining
  <2> QED
    BY <1>1, <2>1, <2>2 DEF AccountsKept
<1>2. ASSUME NEW c \in Creates, Occupy(c) PROVE Accounting!Next
  <2>1. TenantOf[c] \in Tenants /\ plan[TenantOf[c]] \in Plans /\ Plans \subseteq [Codes -> Nat]
    BY <1>0, ConstantsAssumption DEF TypeOK
  <2>2. c \notin admitted /\ admitted' = admitted \cup {c}
    BY <1>0, <1>2, ConstantFacts DEF Occupy, admitted, TypeOK
  <2>3. \A q \in Codes : Units[c][q] > 0 =>
          occupied[TenantOf[c]][q] + Units[c][q] <= plan[TenantOf[c]][q]
    <3>1. \A q \in Codes : /\ occupied[TenantOf[c]][q] \in Nat /\ Units[c][q] \in Nat
                           /\ plan[TenantOf[c]][q] \in Nat
      BY <1>0, <2>1, ConstantFacts DEF TypeOK
    <3> QED
      BY <1>2, <3>1 DEF Occupy, Fits, Charged
  <2>4. occupied' = [occupied EXCEPT ![TenantOf[c]] =
                       [q \in Codes |-> occupied[TenantOf[c]][q] + Units[c][q]]]
    BY <1>2 DEF Occupy
  <2>5. held' = [held EXCEPT ![c] = Units[c]]
    <3>1. state' = [state EXCEPT ![c] = "QUEUED"] /\ state[c] = "absent" /\ UNCHANGED released
      BY <1>2 DEF Occupy
    <3>2. \A x \in Creates \ {c} : held'[x] = held[x]
      BY <1>0, <3>1, ConstantFacts DEF held, Remaining, TypeOK
    <3>3. held'[c] = Units[c]
      <4>1. state'[c] = "QUEUED"
        BY <1>0, <3>1, ConstantFacts DEF TypeOK
      <4>2. \A q \in Codes : released'[c][q] = 0 /\ Units[c][q] \in Nat
        BY <3>1, ConstantFacts DEF LedgerInv, ChargesBounded
      <4>3. held'[c] = [q \in Codes |-> Units[c][q] - released'[c][q]]
        BY <4>1 DEF held, Remaining
      <4>4. Units[c] \in [Codes -> Nat]
        BY ConstantFacts
      <4> QED
        BY <4>2, <4>3, <4>4
    <3> QED
      BY <3>2, <3>3 DEF held
  <2>6. PICK p \in Plans : p = plan[TenantOf[c]]
    BY <2>1
  <2>7. Accounting!Admit(c, p)
    BY <2>2, <2>3, <2>4, <2>5, <2>6 DEF Accounting!Admit, held, admitted
  <2> QED
    BY <2>7 DEF Accounting!Next
<1>3. ASSUME NEW c \in Creates, NEW totals \in [Codes -> Nat], Refunding(c, totals)
      PROVE  Accounting!Next
  <2>1. c \in admitted /\ UNCHANGED admitted
    BY <1>3 DEF Refunding, admitted
  <2>2. released' = [released EXCEPT ![c] = totals]
    BY <1>3 DEF Refunding, Refund
  <2>3. \A q \in Codes : held'[c][q] = Units[c][q] - totals[q] /\ held[c][q] = Units[c][q] - released[c][q]
    BY <1>0, <1>3, <2>2, HeldFacts DEF Refunding, held, Remaining, TypeOK
  <2>4. \A q \in Codes : /\ totals[q] \in Nat /\ released[c][q] \in Nat /\ Units[c][q] \in Nat
                         /\ released[c][q] <= totals[q] /\ totals[q] <= Units[c][q]
    BY <1>0, <1>3, ConstantFacts DEF Refunding, TypeOK
  <2>5. \A q \in Codes : held'[c][q] \in 0 .. held[c][q]
    BY <2>3, <2>4
  <2>6. \A other \in Creates \ {c} : held'[other] = held[other]
    BY <1>0, <1>3, <2>2 DEF Refunding, held, Remaining, TypeOK
  <2>7. occupied' = [occupied EXCEPT ![TenantOf[c]] =
                       [q \in Codes |-> occupied[TenantOf[c]][q] - (held[c][q] - held'[c][q])]]
    <3>1. \A q \in Codes : totals[q] - released[c][q] = held[c][q] - held'[c][q]
      BY <2>3, <2>4
    <3>2. occupied' = [occupied EXCEPT ![TenantOf[c]] =
                         [q \in Codes |-> occupied[TenantOf[c]][q] - (totals[q] - released[c][q])]]
      BY <1>3 DEF Refunding, Refund
    <3> QED
      BY <3>1, <3>2
  <2>8. Accounting!GiveBack(c)
    BY <2>1, <2>5, <2>6, <2>7 DEF Accounting!GiveBack, held, admitted
  <2> QED
    BY <2>8 DEF Accounting!Next
<1> QED
  BY AccountCases, <1>1, <1>2, <1>3

LEMMA StepsImplementAccounting == StepSpec => ImplementsAccounting
<1>1. LedgerInit => Accounting!Init
  BY ConstantFacts DEF LedgerInit, Accounting!Init, Remaining
<1>2. LedgerInv /\ UNCHANGED vars => UNCHANGED <<occupied, held, admitted>>
  BY DEF vars, accounts, delivery, held, admitted, Remaining
<1>3. LedgerInv /\ [Step]_vars => [Accounting!Next]_<<occupied, held, admitted>>
  BY <1>2, StepRefines
<1>4. LedgerInv /\ [Step]_vars => [Accounting!Next]_Accounting!avars
  BY <1>3 DEF held, admitted, Accounting!avars
<1> QED
  BY <1>1, <1>4, StepsKeepInvariant, PTL DEF StepSpec, ImplementsAccounting, Accounting!Spec

(* The ledger with its commands, receipts and workers implements the       *)
(* abstract accounting.                                                    *)
THEOREM LedgerImplementsAccounting == Spec => ImplementsAccounting
BY StepsImplementAccounting, SpecIsStepSpec
=============================================================================
