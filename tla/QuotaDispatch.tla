--------------------------- MODULE QuotaDispatch ---------------------------
(***************************************************************************)
(* The quota ledger together with the workers that deliver its commands    *)
(* (service/quota_dispatch_worker.go) and with the owner services that     *)
(* receive them and report the release of what they cleaned.               *)
(*                                                                         *)
(* A worker claims one operation, sends the command outside of any         *)
(* transaction, and writes the outcome back in another transaction.        *)
(* Between the three its lease may run out, another worker may take the    *)
(* operation over, the process may stop, and a request that was given up   *)
(* may still reach the owner.                                              *)
(*                                                                         *)
(* The owners are not part of this repository.  They are modelled from how *)
(* this code and its integration contract use them: a command is accepted  *)
(* once per operation id, a DELETE closes its CREATE even if it arrives    *)
(* first, a refusal means that nothing was admitted, and a resource is     *)
(* reported as released only when it is gone.                              *)
(***************************************************************************)
EXTENDS QuotaLedger

CONSTANTS
  Workers,     \* dispatch workers of all processes
  MaxFaults    \* bound on timeouts, crashes, contract errors and overrun leases

ASSUME DispatchAssumption == MaxFaults \in Nat

VARIABLES
  claim,       \* worker -> the claim dispatchOne works on
  sent,        \* commands some attempt put on the wire
  accepted,    \* commands their owner durably accepted
  refused,     \* commands their owner definitely refused
  resource,    \* CREATE -> the owner's resource
  faults       \* faults so far

ownerVars == <<accepted, refused, resource>>
dvars     == <<vars, claim, sent, ownerVars, faults>>

Idle  == [op |-> None, gen |-> 0, step |-> "idle"]
Steps == {"claimed", "waiting", "acked", "refused", "failed", "contract"}

(***************************************************************************)
(* The ledger's columns, and where every worker and resource can be.       *)
(***************************************************************************)
DispatchTypeOK ==
  /\ TypeOK
  /\ claim \in [Workers -> {Idle} \cup [op : Ops, gen : Nat, step : Steps]]
  /\ sent \subseteq Ops
  /\ accepted \subseteq Ops
  /\ refused \subseteq Ops
  /\ resource \in [Creates -> {"none", "live", "gone"}]
  /\ faults \in 0 .. MaxFaults

DispatchInit ==
  /\ LedgerInit
  /\ claim = [w \in Workers |-> Idle]
  /\ sent = {}
  /\ accepted = {}
  /\ refused = {}
  /\ resource = [c \in Creates |-> "none"]
  /\ faults = 0

Fault == faults < MaxFaults /\ faults' = faults + 1
At(w, step) == claim[w].step = step
MoveTo(w, step) == claim' = [claim EXCEPT ![w].step = step]

-----------------------------------------------------------------------------
(* drain: an idle worker claims one due operation.                         *)
Claim(w, o) ==
  /\ At(w, "idle")
  /\ ClaimDispatchable(o)
  /\ claim' = [claim EXCEPT ![w] = [op |-> o, gen |-> attempts'[o], step |-> "claimed"]]
  /\ UNCHANGED <<sent, ownerVars, faults>>

(* dispatchOne puts the command on the wire; nothing is locked meanwhile.  *)
Send(w) ==
  /\ At(w, "claimed")
  /\ sent' = sent \cup {claim[w].op}
  /\ MoveTo(w, "waiting")
  /\ UNCHANGED <<vars, ownerVars, faults>>

(* No adapter, unreadable charges or an invalid command: the outcome is    *)
(* UNKNOWN without a call.                                                 *)
GiveUpBeforeSend(w) ==
  /\ At(w, "claimed")
  /\ Fault
  /\ MoveTo(w, "failed")
  /\ UNCHANGED <<vars, sent, ownerVars>>

(* The answer to the call: a durable owner ACK, a definite refusal, a      *)
(* permanent contract error (which parks the operation also if an attempt  *)
(* of it was accepted), or no answer in time.                              *)
AnswerAck(w) ==
  /\ At(w, "waiting")
  /\ claim[w].op \in accepted
  /\ MoveTo(w, "acked")
  /\ UNCHANGED <<vars, sent, ownerVars, faults>>

AnswerRefused(w) ==
  /\ At(w, "waiting")
  /\ claim[w].op \in refused
  /\ MoveTo(w, "refused")
  /\ UNCHANGED <<vars, sent, ownerVars, faults>>

AnswerContractError(w) ==
  /\ At(w, "waiting")
  /\ Fault
  /\ MoveTo(w, "contract")
  /\ UNCHANGED <<vars, sent, ownerVars>>

AnswerTimeout(w) ==
  /\ At(w, "waiting")
  /\ Fault
  /\ MoveTo(w, "failed")
  /\ UNCHANGED <<vars, sent, ownerVars>>

(* (mutant: a call that failed in transit rejects the DELETE)              *)
OutcomeGuessed(o, g, step) ==
  CASE step = "acked"    -> AckDispatched(o, g)
    [] step = "refused"  -> IF o \in Creates THEN RejectInferenceImageAndClose(o, g)
                                             ELSE RejectDeleteVersion(o, g)
    [] step = "failed"   -> IF o \in Creates THEN MarkUnknown(o, g, FALSE)
                                             ELSE RejectDeleteVersion(o, g)
    [] step = "contract" -> MarkUnknown(o, g, TRUE)

(* The write-back of each outcome, or its rejection by the fence.          *)
Outcome(o, g, step) ==
  CASE step = "acked"    -> AckDispatched(o, g)
    [] step = "refused"  -> IF o \in Creates THEN RejectInferenceImageAndClose(o, g)
                                             ELSE RejectDeleteVersion(o, g)
    [] step = "failed"   -> MarkUnknown(o, g, FALSE)
    [] step = "contract" -> MarkUnknown(o, g, TRUE)

Stale(o, g, step) ==
  \/ ~Fence(o, g)
  \/ step = "refused" /\ o \in Deletes /\ Kind[origin[o]] = "instance" /\ ~leased[o]

Finish(w) ==
  LET o == claim[w].op
      g == claim[w].gen
      step == claim[w].step
  IN
  /\ step \in {"acked", "refused", "failed", "contract"}
  /\ \/ Outcome(o, g, step)
     \/ Stale(o, g, step) /\ UNCHANGED vars
  /\ claim' = [claim EXCEPT ![w] = Idle]
  /\ UNCHANGED <<sent, ownerVars, faults>>

(* The process stops, or the write-back fails: the claim is forgotten and  *)
(* only the lease remembers it.                                            *)
Crash(w) ==
  /\ ~At(w, "idle")
  /\ Fault
  /\ claim' = [claim EXCEPT ![w] = Idle]
  /\ UNCHANGED <<vars, sent, ownerVars>>

(* A lease runs out.  If the worker still holds the claim, it overran it.  *)
Held(o) == \E w \in Workers : claim[w].op = o /\ claim[w].gen = attempts[o]

LeaseRunsOut(o) ==
  /\ LeaseExpires(o)
  /\ IF Held(o) THEN Fault ELSE UNCHANGED faults
  /\ UNCHANGED <<claim, sent, ownerVars>>

-----------------------------------------------------------------------------
(* The owner services.                                                     *)
OwnerAcceptsCreate(c) ==
  /\ c \in sent \ accepted
  /\ accepted' = accepted \cup {c}
  /\ resource' = [resource EXCEPT ![c] = IF @ = "none" THEN "live" ELSE @]
  /\ UNCHANGED <<vars, claim, sent, refused, faults>>

OwnerAcceptsDelete(d) ==
  /\ d \in sent \ (accepted \cup refused)
  /\ accepted' = accepted \cup {d}
  /\ resource' = [resource EXCEPT ![origin[d]] = "gone"]
  /\ UNCHANGED <<vars, claim, sent, refused, faults>>

(* An unpublished image, or a version the resource no longer has.          *)
OwnerRefuses(o) ==
  /\ o \in sent \ accepted
  /\ \/ o \in Creates /\ Kind[o] = "inference" /\ resource[o] = "none"
     \/ o \in Deletes /\ Guarded(origin[o]) /\ resource[origin[o]] = "live"
  /\ refused' = refused \cup {o}
  /\ UNCHANGED <<vars, claim, sent, accepted, resource, faults>>

(* The owner gives the resource up by itself and cleans it.                *)
OwnerAborts(c) ==
  /\ resource[c] = "live"
  /\ resource' = [resource EXCEPT ![c] = "gone"]
  /\ UNCHANGED <<vars, claim, sent, accepted, refused, faults>>

(* Part of a live resource was given back: some but not all of a charge.   *)
OwnerShrinks(c, e, q, total) ==
  /\ resource[c] = "live"
  /\ total < Units[c][q]
  /\ ReleaseItem(c, e, q, total)
  /\ UNCHANGED <<claim, sent, ownerVars, faults>>

(* The owner's outbox reports the cleanup until it is applied.             *)
OwnerReleases(c, e) ==
  /\ resource[c] = "gone"
  /\ ReleaseComplete(c, e)
  /\ UNCHANGED <<claim, sent, ownerVars, faults>>

-----------------------------------------------------------------------------
WorkerStep(w) ==
  \/ Send(w)
  \/ AnswerAck(w)
  \/ AnswerRefused(w)
  \/ Finish(w)

WorkerFault(w) ==
  \/ GiveUpBeforeSend(w)
  \/ AnswerContractError(w)
  \/ AnswerTimeout(w)
  \/ Crash(w)

OwnerStep ==
  \/ \E c \in Creates : OwnerAcceptsCreate(c)
  \/ \E d \in Deletes : OwnerAcceptsDelete(d)
  \/ \E o \in Ops : OwnerRefuses(o)
  \/ \E c \in Creates : OwnerAborts(c)
  \/ \E c \in Creates : \E e \in Events : \E q \in Codes :
       \E total \in 0 .. Units[c][q] : OwnerShrinks(c, e, q, total)
  \/ \E c \in Creates : \E e \in Events : OwnerReleases(c, e)

DispatchNext ==
  \/ Request /\ UNCHANGED <<claim, sent, ownerVars, faults>>
  \/ \E o \in Ops : LeaseRunsOut(o)
  \/ \E o \in Ops : BackoffOver(o) /\ UNCHANGED <<claim, sent, ownerVars, faults>>
  \/ \E w \in Workers : \E o \in Ops : Claim(w, o)
  \/ \E w \in Workers : WorkerStep(w)
  \/ \E w \in Workers : WorkerFault(w)
  \/ OwnerStep

DispatchSpec == DispatchInit /\ [][DispatchNext]_dvars

(* Fairness the code provides: the poll loop claims what is due, a call    *)
(* returns within its timeout and its outcome is written back, the clock   *)
(* advances; and the owners answer what they receive and report releases.  *)
Fairness ==
  /\ \A o \in Ops : WF_dvars(\E w \in Workers : Claim(w, o))
  /\ \A w \in Workers : WF_dvars(WorkerStep(w))
  /\ \A o \in Ops : WF_dvars(LeaseRunsOut(o))
  /\ \A o \in Ops : WF_dvars(BackoffOver(o) /\ UNCHANGED <<claim, sent, ownerVars, faults>>)
  /\ \A c \in Creates : WF_dvars(OwnerAcceptsCreate(c))
  /\ \A d \in Deletes : WF_dvars(OwnerAcceptsDelete(d))
  /\ \A c \in Creates : WF_dvars(\E e \in Events : OwnerReleases(c, e))

FairDispatchSpec == DispatchSpec /\ Fairness

-----------------------------------------------------------------------------
(* Safety properties.                                                      *)

(* A live resource is paid for: as long as the owner runs it, nothing of   *)
(* any charge of its CREATE is refunded in full, whether by cancellation,  *)
(* deletion or release, and whatever worker or request is still under way. *)
LiveIsCharged ==
  \A c \in Creates : resource[c] = "live" =>
    /\ state[c] # "CANCELED_UNSENT"
    /\ \A q \in Charged(c) : released[c][q] < Units[c][q]

(* A command canceled as unsent is in no worker's hands and was never on   *)
(* the wire: cancelLocked and the claim exclude each other.                *)
CanceledNeverSent ==
  \A o \in Ops : state[o] = "CANCELED_UNSENT" =>
    /\ o \notin sent
    /\ \A w \in Workers : claim[w].op # o

(* At most one worker can write an operation back: of all workers that     *)
(* hold it after leases ran out, one has the current generation.           *)
OneWriter ==
  \A w1, w2 \in Workers : \A o \in Ops :
    claim[w1].op = o /\ claim[w2].op = o /\ claim[w1].gen = claim[w2].gen => w1 = w2

(* A decision the ledger records is the owner's: ACKED means accepted, and *)
(* a REJECTED DELETE was and will be admitted by nobody, so that reopening *)
(* the gate for the next DELETE is safe.                                   *)
DecisionsAreTheOwners ==
  \A o \in Ops :
    /\ state[o] = "ACKED" => o \in accepted
    /\ state[o] = "REJECTED" /\ o \in Deletes => o \notin accepted

(* What makes the above inductive: every claim holds a generation that was *)
(* given out, answers were given, only claimed commands were sent, and an  *)
(* owner never both accepts and refuses a DELETE.                          *)
ClaimsInForce ==
  \A w \in Workers : claim[w] # Idle =>
    /\ claim[w].gen \in 1 .. attempts[claim[w].op]
    /\ claim[w].step = "acked" => claim[w].op \in accepted
    /\ claim[w].step = "refused" => claim[w].op \in refused

OwnersConsistent ==
  /\ \A o \in sent : attempts[o] > 0
  /\ accepted \cup refused \subseteq sent
  /\ \A o \in refused : o \in Deletes => o \notin accepted /\ Guarded(origin[o])
  /\ \A o \in refused : o \in Creates => Kind[o] = "inference"
  /\ \A d \in Deletes : state[d] = "REJECTED" => d \in refused
  /\ \A c \in Creates : resource[c] = "live" => c \in accepted
  /\ \A c \in Creates : resource[c] # "none" => attempts[c] > 0

(* Nothing is refunded in full before the owner's resource is gone.        *)
ChargedUntilGone ==
  \A c \in Creates : resource[c] # "gone" /\ state[c] # "CANCELED_UNSENT" =>
    \A q \in Charged(c) : released[c][q] < Units[c][q]

(* The inductive invariant of ledger, workers and owners together.         *)
DispatchInv ==
  /\ DispatchTypeOK
  /\ LedgerInv
  /\ ClaimsInForce
  /\ OneWriter
  /\ OwnersConsistent
  /\ DecisionsAreTheOwners
  /\ ChargedUntilGone

(* The refund rule of the operations manual: a GPU refund requested by the *)
(* owner presupposes a DELETE that the ledger has already persisted.       *)
RefundHasDeleteIntent ==
  \A c \in Creates : \A q \in GpuCodes :
    released[c][q] > 0 /\ state[c] # "CANCELED_UNSENT" => \E d \in Deletes : origin[d] = c

(* The ledger implements what the GPU usage projection takes for granted:  *)
(* each CREATE with a GPU charge ends its usage once, either canceled or   *)
(* released, whatever races with the cancellation and the releases.        *)
GpuCreates == {c \in Creates : Charged(c) \cap GpuCodes # {}}

UsageFact(c) ==
  IF state[c] = "absent" THEN "absent"
  ELSE IF state[c] = "CANCELED_UNSENT" THEN "canceled-unsent"
  ELSE IF \A q \in Charged(c) \cap GpuCodes : released[c][q] = Units[c][q] THEN "gpu-fully-released"
  ELSE "accepted"

Source == INSTANCE UsageSource WITH
  Creates <- GpuCreates,
  fact    <- [c \in GpuCreates |-> UsageFact(c)],
  deleted <- {c \in GpuCreates : \E d \in Deletes : origin[d] = c}

ImplementsUsageSource == Source!Spec

-----------------------------------------------------------------------------
(* Liveness, with finitely many faults.                                    *)

(* Every admitted command is decided, or parked for an operator.           *)
EveryCommandDecided ==
  \A o \in Ops :
    state[o] \in {"QUEUED", "DISPATCHING", "UNKNOWN"} ~> state[o] \in Final \/ blocked[o]

(* A rejected inference CREATE gets its units back in the end, even if an  *)
(* earlier attempt of it reaches the owner after the rejection.            *)
RejectionIsRefunded ==
  \A c \in Creates :
    state[c] = "REJECTED" ~> released[c] = Units[c] \/ \E d \in Deletes : d = ackJson[c] /\ blocked[d]
=============================================================================
