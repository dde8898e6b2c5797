-------------------------- MODULE ClaimOrderProofs --------------------------
(***************************************************************************)
(* Mutual exclusion by time: in ClaimOrder no lease is overrun, because no *)
(* call is longer than a lease.                                            *)
(***************************************************************************)
EXTENDS ClaimOrder, TLAPS

(* What the assumptions say of the profile of a behaviour.                 *)
LEMMA TimesOfProfile ==
  ASSUME profile \in Profiles
  PROVE  /\ profile.call \in Nat /\ profile.pause \in Nat /\ profile.poll \in Nat
         /\ profile.longest \in Nat \ {0} /\ profile.lease \in Nat \ {0}
         /\ profile.call < profile.lease
BY ClaimAssumption DEF ClaimAssumption, IsProfile

LEMMA HoldsInit == ClaimInit => ClaimInv
<1> SUFFICES ASSUME ClaimInit PROVE ClaimInv
    OBVIOUS
<1>1. \A w \in Workers : ~Busy(w)
    BY DEF ClaimInit, Busy, Free
<1>2. ClaimTypeOK
    BY TimesOfProfile, ClaimAssumption DEF ClaimAssumption, ClaimInit, ClaimTypeOK, Free
<1> QED
    BY <1>1, <1>2 DEF ClaimInv, OneHolder, LeaseLeft

-----------------------------------------------------------------------------
(* A new row is in nobody's hands.                                         *)
LEMMA EnqueueStep ==
  ASSUME ClaimInv, NEW r \in Rows, Enqueue(r)
  PROVE  ClaimInv'
<1>1. ClaimTypeOK'
    BY DEF ClaimInv, ClaimTypeOK, Enqueue
<1>2. OneHolder'
    BY DEF ClaimInv, OneHolder, Busy, Enqueue
<1>3. ASSUME NEW w \in Workers PROVE LeaseLeft(w)'
    <2>1. Busy(w) => worker[w].row # r /\ worker[w].row \in Rows
        BY DEF ClaimInv, ClaimTypeOK, LeaseLeft, Busy, Enqueue
    <2> QED
        BY <2>1 DEF ClaimInv, ClaimTypeOK, LeaseLeft, Busy, Enqueue
<1> QED
    BY <1>1, <1>2, <1>3 DEF ClaimInv

(* A row that is due is in nobody's hands: a held one would have lease     *)
(* left.                                                                   *)
LEMMA DueIsFree ==
  ASSUME ClaimInv, NEW r \in Rows, Due(r), NEW w \in Workers, Busy(w)
  PROVE  worker[w].row # r
BY TimesOfProfile DEF ClaimInv, ClaimTypeOK, LeaseLeft, Due

LEMMA ClaimStep ==
  ASSUME ClaimInv, NEW u \in Workers, NEW r \in Rows, Claim(u, r)
  PROVE  ClaimInv'
<1> DEFINE held == [state |-> "held", wait |-> profile.lease, back |-> backoffForAttempt(row[r].back)]
           hand == [row |-> r, time |-> 0, pause |-> 0]
<1>0. /\ row' = [row EXCEPT ![r] = held] /\ worker' = [worker EXCEPT ![u] = hand]
      /\ UNCHANGED <<profile, faults>> /\ Due(r) /\ ~Busy(u)
    BY DEF Claim, First, Ready
<1>1. ClaimTypeOK'
    <2>1. backoffForAttempt(row[r].back) \in Nat
        BY TimesOfProfile DEF ClaimInv, ClaimTypeOK, backoffForAttempt
    <2> HIDE DEF hand
    <2>2. row' \in [Rows -> [state : {"absent", "waiting", "held", "done"}, wait : Nat, back : Nat]]
        BY <1>0, <2>1, TimesOfProfile DEF ClaimInv, ClaimTypeOK
    <2>3. hand \in [row : Rows \cup {NoRow}, time : 0 .. profile.call, pause : Nat]
        BY TimesOfProfile DEF ClaimInv, ClaimTypeOK, hand
    <2> QED
        BY <1>0, <2>2, <2>3 DEF ClaimInv, ClaimTypeOK
<1>2. \A v \in Workers : Busy(v) => worker[v].row # r
    BY <1>0, DueIsFree
<1> HIDE DEF held
<1>3. /\ worker'[u].row = r /\ worker'[u].time = 0
      /\ \A v \in Workers \ {u} : worker'[v] = worker[v]
    BY <1>0 DEF ClaimInv, ClaimTypeOK
<1>4. OneHolder'
    BY <1>2, <1>3 DEF ClaimInv, OneHolder, Busy
<1>5. ASSUME NEW w \in Workers PROVE LeaseLeft(w)'
    <2>1. CASE w = u
        BY <2>1, <1>0, <1>3, TimesOfProfile DEF ClaimInv, ClaimTypeOK, LeaseLeft, held
    <2>2. CASE w # u
        BY <2>2, <1>0, <1>2, <1>3 DEF ClaimInv, ClaimTypeOK, LeaseLeft, Busy
    <2> QED
        BY <2>1, <2>2
<1> QED
    BY <1>1, <1>4, <1>5 DEF ClaimInv

(* A worker that stops holding keeps nobody else's row from being held.    *)
LEMMA IdleStep ==
  ASSUME ClaimInv, NEW u \in Workers, NEW n \in Nat, worker' = [worker EXCEPT ![u] = Free(n)],
         UNCHANGED <<profile, row>>, faults' \in 0 .. MaxFaults
  PROVE  ClaimInv'
<1>1. /\ ~Busy(u)' /\ \A v \in Workers \ {u} : worker'[v] = worker[v]
    BY ClaimAssumption DEF ClaimInv, ClaimTypeOK, Busy, Free
<1>2. ClaimTypeOK'
    BY TimesOfProfile DEF ClaimInv, ClaimTypeOK, Free
<1>3. OneHolder'
    BY <1>1 DEF ClaimInv, OneHolder, Busy
<1>4. \A w \in Workers : LeaseLeft(w)'
    BY <1>1 DEF ClaimInv, LeaseLeft, Busy
<1> QED
    BY <1>2, <1>3, <1>4 DEF ClaimInv

LEMMA CallEndsStep ==
  ASSUME ClaimInv, NEW u \in Workers, CallEnds(u)
  PROVE  ClaimInv'
<1> DEFINE r == worker[u].row
           new == IF Stuck(r) THEN Deferred(r) ELSE [row[r] EXCEPT !.state = "done", !.wait = 0]
<1>0. /\ Busy(u) /\ r \in Rows
      /\ row' = [row EXCEPT ![r] = new] /\ worker' = [worker EXCEPT ![u] = Free(profile.pause)]
      /\ UNCHANGED <<profile, faults>>
    BY DEF CallEnds, Busy, ClaimInv, ClaimTypeOK
<1>1. /\ ~Busy(u)' /\ \A v \in Workers \ {u} : worker'[v] = worker[v]
    BY <1>0 DEF ClaimInv, ClaimTypeOK, Busy, Free
<1>2. new \in [state : {"absent", "waiting", "held", "done"}, wait : Nat, back : Nat]
    BY <1>0, TimesOfProfile DEF ClaimInv, ClaimTypeOK, Deferred, Delay
<1> HIDE DEF new, r
<1>3. ClaimTypeOK'
    BY <1>0, <1>2, TimesOfProfile DEF ClaimInv, ClaimTypeOK, Free
<1>4. OneHolder'
    BY <1>1 DEF ClaimInv, OneHolder, Busy
<1>5. ASSUME NEW w \in Workers PROVE LeaseLeft(w)'
    <2>1. CASE w = u
        BY <2>1, <1>1 DEF LeaseLeft
    <2>2. CASE w # u
        <3>1. Busy(w) => worker[w].row # r
            BY <2>2, <1>0 DEF ClaimInv, OneHolder, r
        <3> QED
            BY <2>2, <3>1, <1>0, <1>1 DEF ClaimInv, ClaimTypeOK, LeaseLeft, Busy
    <2> QED
        BY <2>1, <2>2
<1> QED
    BY <1>3, <1>4, <1>5 DEF ClaimInv

(* Lease and call run down together, and no call passes its limit.         *)
LEMMA TickStep ==
  ASSUME ClaimInv, Tick
  PROVE  ClaimInv'
<1>1. ASSUME NEW w \in Workers
      PROVE  /\ worker'[w].row = worker[w].row
             /\ Busy(w) => worker'[w].time = worker[w].time + 1 /\ worker[w].time < profile.call
             /\ worker'[w] \in [row : Rows \cup {NoRow}, time : 0 .. profile.call, pause : Nat]
    BY TimesOfProfile DEF ClaimInv, ClaimTypeOK, Tick, Busy, Free, Elapsed
<1>2. ClaimTypeOK'
    <2>1. row' \in [Rows -> [state : {"absent", "waiting", "held", "done"}, wait : Nat, back : Nat]]
        BY DEF ClaimInv, ClaimTypeOK, Tick, Elapsed
    <2>2. worker' \in [Workers -> [row : Rows \cup {NoRow}, time : 0 .. profile.call, pause : Nat]]
        BY <1>1 DEF Tick
    <2> QED
        BY <2>1, <2>2 DEF ClaimInv, ClaimTypeOK, Tick
<1>3. OneHolder'
    BY <1>1 DEF ClaimInv, OneHolder, Busy
<1>4. ASSUME NEW w \in Workers, Busy(w) PROVE LeaseLeft(w)'
    <2> DEFINE r == worker[w].row
    <2>1. r \in Rows /\ row[r].state = "held" /\ row[r].wait = profile.lease - worker[w].time
        BY <1>4 DEF ClaimInv, ClaimTypeOK, LeaseLeft, Busy
    <2>2. row[r].wait > 0 /\ row'[r].wait = row[r].wait - 1 /\ row'[r].state = "held"
        BY <1>1, <1>4, <2>1, TimesOfProfile DEF ClaimInv, ClaimTypeOK, Tick, Elapsed
    <2> QED
        BY <1>1, <1>4, <2>1, <2>2, TimesOfProfile DEF ClaimInv, ClaimTypeOK, LeaseLeft, Tick
<1>5. \A w \in Workers : LeaseLeft(w)'
    BY <1>1, <1>4 DEF LeaseLeft, Busy
<1> QED
    BY <1>2, <1>3, <1>5 DEF ClaimInv

LEMMA HoldsNext == ClaimInv /\ [ClaimNext]_cvars => ClaimInv'
<1> SUFFICES ASSUME ClaimInv, [ClaimNext]_cvars PROVE ClaimInv'
    OBVIOUS
<1>1. ASSUME NEW r \in Rows, Enqueue(r) PROVE ClaimInv'
    BY <1>1, EnqueueStep
<1>2. ASSUME NEW w \in Workers, NEW r \in Rows, Claim(w, r) PROVE ClaimInv'
    BY <1>2, ClaimStep
<1>3. ASSUME NEW w \in Workers, NothingDue(w) PROVE ClaimInv'
    BY <1>3, IdleStep, TimesOfProfile DEF NothingDue, ClaimInv, ClaimTypeOK
<1>4. ASSUME NEW w \in Workers, CallEnds(w) PROVE ClaimInv'
    BY <1>4, CallEndsStep
<1>5. ASSUME NEW w \in Workers, WorkerForgets(w) PROVE ClaimInv'
    <2>1. profile.pause \in Nat /\ faults' \in 0 .. MaxFaults
        BY <1>5, TimesOfProfile, ClaimAssumption DEF ClaimAssumption, WorkerForgets, ClaimInv, ClaimTypeOK
    <2> QED
        BY <1>5, <2>1, IdleStep DEF WorkerForgets
<1>6. ASSUME Tick PROVE ClaimInv'
    BY <1>6, TickStep
<1>7. ASSUME UNCHANGED cvars PROVE ClaimInv'
    BY <1>7 DEF cvars, ClaimInv, ClaimTypeOK, OneHolder, LeaseLeft, Busy
<1> QED
    BY <1>1, <1>2, <1>3, <1>4, <1>5, <1>6, <1>7 DEF ClaimNext, WorkerStep

-----------------------------------------------------------------------------
(* No two processes hold one row, whatever their number, the number of     *)
(* rows and the times, as long as a lease is longer than a call.           *)
THEOREM HoldersExcluded == ClaimSpec => []ClaimInv
BY HoldsInit, HoldsNext, PTL DEF ClaimSpec
=============================================================================
