------------------------ MODULE SessionTokensProofs ------------------------
(***************************************************************************)
(* Theorems about the sessions of a user, for any number of sessions,      *)
(* token pairs, requests and faults.                                       *)
(***************************************************************************)
EXTENDS SessionTokens, TLAPS

Requests == [step : Steps, sid : Sids \cup {None}, jti : Jtis \cup {None},
             pass : 0 .. 5, keys : SUBSET (Sids \cup Jtis)]

(* What most steps do to the store: keys go, none are written.             *)
Shrinks ==
  /\ at' \subseteq at /\ rt' \subseteq rt /\ us' \subseteq us
  /\ \A s \in Sids : ptr'[s] \in {None, ptr[s]}
  /\ given' \subseteq given
  /\ owner' = owner /\ parent' = parent

(* What most steps do to the requests: nobody starts to bind or to renew.  *)
NoNewRefresh == \A q \in Reqs : req'[q] = req[q] \/ req'[q].step # "commit"
NoNewLogin ==
  /\ \A q \in Reqs : req'[q] = req[q] \/ req'[q].step \notin {"bind", "meta"}
  /\ \A q \in Reqs : req'[q].step \in {"verify", "commit"} => req'[q].sid \in Sids
  /\ \A s \in Sids : challenge'[s] \in {challenge[s], "gone"}

KeepsPromises ==
  \A q \in Reqs : promised'[q] = {} \/ (promised'[q] = promised[q] /\ req'[q] = req[q])

Quiet ==
  /\ Shrinks /\ NoNewLogin /\ NoNewRefresh /\ KeepsPromises
  /\ loggedOut' = loggedOut /\ revoked' = revoked

LEMMA IdleType == Idle \in Requests /\ Idle.step = "idle" /\ Idle.pass = 0 /\ Idle.keys = {}
BY DEF Idle, Task, Requests, Steps

LEMMA FinishType ==
  ASSUME SessionTypeOK, NEW r \in Reqs, Finish(r)
  PROVE  /\ req' \in [Reqs -> Requests]
         /\ req'[r] = Idle
         /\ \A q \in Reqs : q # r => req'[q] = req[q]
BY IdleType DEF SessionTypeOK, Finish, Requests

LEMMA BeginType ==
  ASSUME SessionTypeOK, NEW r \in Reqs, NEW l \in Steps, NEW s \in Sids \cup {None},
         NEW j \in Jtis \cup {None}, Begin(r, l, s, j)
  PROVE  /\ req' \in [Reqs -> Requests]
         /\ req'[r].step = l /\ req'[r].sid = s /\ req'[r].jti = j /\ req'[r].pass = 0
         /\ \A q \in Reqs : q # r => req'[q] = req[q]
         /\ req[r].step = "idle"
<1>1. Task(l, s, j, 0) \in Requests
  BY DEF Task, Requests
<1>2. req' = [req EXCEPT ![r] = Task(l, s, j, 0)] /\ req[r].step = "idle"
  BY DEF Begin, On
<1>3. req \in [Reqs -> Requests]
  BY DEF SessionTypeOK, Requests
<1>4. req' \in [Reqs -> Requests] /\ req'[r] = Task(l, s, j, 0) /\ \A q \in Reqs : q # r => req'[q] = req[q]
  BY <1>1, <1>2, <1>3
<1> QED
  BY <1>2, <1>4 DEF Task

LEMMA StepType ==
  ASSUME SessionTypeOK, NEW r \in Reqs, NEW l \in Steps, req' = [req EXCEPT ![r].step = l]
  PROVE  /\ req' \in [Reqs -> Requests]
         /\ req'[r].step = l /\ req'[r].sid = req[r].sid /\ req'[r].jti = req[r].jti
         /\ req'[r].pass = req[r].pass /\ req'[r].keys = req[r].keys
         /\ \A q \in Reqs : q # r => req'[q] = req[q]
BY DEF SessionTypeOK, Requests

LEMMA EndPassType ==
  ASSUME SessionTypeOK, NEW r \in Reqs, EndPass(r)
  PROVE  /\ req' \in [Reqs -> Requests]
         /\ req'[r].step \in {"idle", "scan"}
         /\ req[r].pass = 5 => req'[r].step = "idle" /\ req'[r].pass = 0
         /\ req[r].pass # 5 => req'[r].step = "scan" /\ req'[r].pass = req[r].pass + 1
         /\ \A q \in Reqs : q # r => req'[q] = req[q]
<1>1. req \in [Reqs -> Requests] /\ req[r].pass \in 0 .. 5
  BY DEF SessionTypeOK, Requests
<1>2. CASE req[r].pass = 5
  BY <1>1, <1>2, IdleType DEF EndPass
<1>3. CASE req[r].pass # 5
  <2>1. Task("scan", None, None, req[r].pass + 1) \in Requests
    BY <1>1, <1>3 DEF Task, Requests, Steps
  <2> QED
    BY <1>1, <1>3, <2>1 DEF EndPass, Task
<1> QED
  BY <1>2, <1>3

LEMMA FaultType ==
  ASSUME SessionTypeOK, Fault \/ UNCHANGED faults
  PROVE  faults' \in 0 .. MaxFaults
BY SessionAssumption DEF SessionTypeOK, Fault

-----------------------------------------------------------------------------
(* Steps that write no key keep what is said about keys.                   *)
LEMMA StoreShrinks ==
  ASSUME SessionInv, SessionTypeOK', Shrinks
  PROVE  PointersOwned' /\ Lineage' /\ OnePair' /\ ReplacedIsGone' /\ OneSuccessor'
<1>1. PointersOwned'
  BY DEF SessionInv, PointersOwned, Shrinks
<1>2. Lineage'
  <2> SUFFICES ASSUME NEW k \in Jtis, parent[k] # None
               PROVE  owner[parent[k]] = owner[k] /\ owner[k] # None /\ ptr'[owner[k]] # parent[k]
    BY DEF Lineage, Shrinks
  <2>1. parent[k] \in Jtis /\ owner[k] \in Sids
    BY DEF SessionInv, SessionTypeOK, Lineage
  <2> QED
    BY <2>1, SessionAssumption DEF SessionInv, Lineage, Shrinks
<1>3. OnePair'
  BY DEF SessionInv, OnePair, OfSession, Shrinks, SessionTypeOK
<1>4. ReplacedIsGone' /\ OneSuccessor'
  BY DEF SessionInv, ReplacedIsGone, OneSuccessor, Shrinks
<1> QED
  BY <1>1, <1>2, <1>3, <1>4

LEMMA EndedKept ==
  ASSUME SessionInv, SessionTypeOK', Shrinks, loggedOut' = loggedOut, revoked' = revoked
  PROVE  NoRevival' /\ RevokedIsGone'
<1>1. NoRevival'
  BY DEF SessionInv, NoRevival, OfSession, Shrinks, SessionTypeOK
<1>2. RevokedIsGone'
  BY DEF SessionInv, RevokedIsGone, Shrinks
<1> QED
  BY <1>1, <1>2

LEMMA LoginsKept ==
  ASSUME SessionInv, SessionTypeOK', Shrinks, NoNewLogin,
         \A q \in Reqs : On(q, "meta") =>
           /\ req[q].sid \notin loggedOut'
           /\ \A r \in Reqs : req'[r].step = "commit" => req'[r].sid # req[q].sid
  PROVE  LoginsApart'
<1>1. \A s \in Sids : Entering(s)' \subseteq Entering(s) /\ (HasIds(s)' <=> HasIds(s))
  BY DEF NoNewLogin, Entering, HasIds, Shrinks
<1> QED
  BY <1>1 DEF SessionInv, LoginsApart, NoNewLogin, Shrinks, On, SessionTypeOK

LEMMA PromiseKept ==
  ASSUME SessionInv, Shrinks, NEW r \in Reqs,
         promised'[r] = {} \/ (promised'[r] = promised[r] /\ req'[r] = req[r])
  PROVE  PassDone(r)'
<1>1. \A p \in {1, 2, 4} : Stored(p)' \subseteq Stored(p)
  BY DEF Shrinks, Stored
<1>2. CASE promised'[r] = {}
  BY <1>2 DEF PassDone
<1>3. CASE promised'[r] = promised[r] /\ req'[r] = req[r]
  BY <1>1, <1>3 DEF SessionInv, PassesDone, PassDone, Shrinks, On
<1> QED
  BY <1>2, <1>3

LEMMA PromisesKept ==
  ASSUME SessionInv, Shrinks, KeepsPromises
  PROVE  PassesDone'
BY PromiseKept DEF KeepsPromises, PassesDone

LEMMA IssuedKept ==
  ASSUME SessionInv, Shrinks,
         \A s \in loggedOut' : s \in loggedOut \/ HasIds(s),
         \A x \in revoked' : x \in revoked \/ \E q \in Reqs : x \in promised[q],
         \A q \in Reqs : promised'[q] \in {{}, promised[q]}
  PROVE  StoredIssued' /\ EndedHadIds'
<1>1. \A j \in Jtis : Issued(j)' <=> Issued(j)
  BY DEF Issued, Shrinks
<1>2. \A s : HasIds(s)' <=> HasIds(s)
  BY DEF HasIds, Shrinks
<1>3. StoredIssued'
  BY <1>1 DEF SessionInv, StoredIssued, Shrinks, SessionTypeOK
<1>4. EndedHadIds'
  BY <1>2 DEF SessionInv, EndedHadIds, SessionTypeOK
<1> QED
  BY <1>3, <1>4

LEMMA RefreshesKept ==
  ASSUME SessionInv, owner' = owner, NoNewRefresh
  PROVE  RefreshesOwned'
BY DEF SessionInv, RefreshesOwned, NoNewRefresh, On

LEMMA QuietKeeps ==
  ASSUME SessionInv, SessionTypeOK', Quiet
  PROVE  SessionInv'
<1>1. \A q \in Reqs : promised'[q] \in {{}, promised[q]}
  BY DEF Quiet, KeepsPromises
<1>2. \A q \in Reqs : On(q, "meta") =>
        /\ req[q].sid \notin loggedOut'
        /\ \A r \in Reqs : req'[r].step = "commit" => req'[r].sid # req[q].sid
  BY DEF SessionInv, LoginsApart, Quiet, NoNewRefresh, On
<1>3. Shrinks /\ NoNewLogin /\ NoNewRefresh /\ KeepsPromises /\ loggedOut' = loggedOut /\ revoked' = revoked
      /\ owner' = owner
  BY DEF Quiet, Shrinks
<1>4. PointersOwned' /\ Lineage' /\ OnePair' /\ ReplacedIsGone' /\ OneSuccessor' /\ NoRevival' /\ RevokedIsGone'
  BY <1>3, StoreShrinks, EndedKept
<1>5. LoginsApart' /\ RefreshesOwned'
  BY <1>2, <1>3, LoginsKept, RefreshesKept
<1>6. PassesDone' /\ StoredIssued' /\ EndedHadIds'
  BY <1>1, <1>3, PromisesKept, IssuedKept
<1> QED
  BY <1>4, <1>5, <1>6 DEF SessionInv

-----------------------------------------------------------------------------
(* The quiet actions.  A request that is not in a revocation has promised  *)
(* nothing.                                                                *)
LEMMA NothingPromised ==
  ASSUME SessionInv, NEW r \in Reqs, req[r].step \notin {"scan", "del"}
  PROVE  promised[r] = {}
BY DEF SessionInv, PassesDone, PassDone

(* An action that lets one request begin or end and leaves the store.      *)
LEMMA OnlyRequest ==
  ASSUME SessionInv, NEW r \in Reqs, UNCHANGED <<store, owner, given, promised, history>>,
         \A q \in Reqs : q # r => req'[q] = req[q],
         req'[r].step \notin {"bind", "meta", "commit"},
         req'[r].step = "verify" => req'[r].sid \in Sids,
         req[r].step \notin {"scan", "del"},
         \A s \in Sids : challenge'[s] \in {challenge[s], "gone"}
  PROVE  Quiet
<1>1. promised'[r] = {}
  BY NothingPromised
<1>2. Shrinks /\ loggedOut' = loggedOut /\ revoked' = revoked
  BY DEF Shrinks, store, history
<1>3. NoNewRefresh /\ KeepsPromises
  BY <1>1 DEF NoNewRefresh, KeepsPromises
<1>4. NoNewLogin
  BY DEF NoNewLogin, SessionInv, LoginsApart
<1> QED
  BY <1>2, <1>3, <1>4 DEF Quiet

LEMMA RequestTyped ==
  ASSUME SessionTypeOK, NEW r \in Reqs
  PROVE  /\ req \in [Reqs -> Requests] /\ req[r] \in Requests
         /\ req[r].sid \in Sids \cup {None} /\ req[r].jti \in Jtis \cup {None}
         /\ req[r].pass \in 0 .. 5 /\ req[r].keys \in SUBSET (Sids \cup Jtis)
BY DEF SessionTypeOK, Requests

(* The rest of the type invariant, where an action leaves it alone.        *)
LEMMA SameType ==
  ASSUME SessionTypeOK, req' \in [Reqs -> Requests], challenge' \in [Sids -> {"new", "open", "gone"}],
         UNCHANGED <<store, owner, given, promised, log>>
  PROVE  SessionTypeOK'
BY DEF SessionTypeOK, Requests, store, log, history

LEMMA PeekQuiet ==
  ASSUME SessionInv, NEW r \in Reqs, NEW s \in Sids, PeekLoginChallenge(r, s)
  PROVE  SessionTypeOK' /\ Quiet
<1>1. SessionTypeOK /\ Begin(r, "verify", s, None) /\ "verify" \in Steps
  BY DEF SessionInv, PeekLoginChallenge, Steps
<1>2. /\ req' \in [Reqs -> Requests] /\ req'[r].step = "verify" /\ req'[r].sid = s
      /\ req[r].step = "idle" /\ \A q \in Reqs : q # r => req'[q] = req[q]
  BY <1>1, BeginType
<1>3. UNCHANGED <<store, challenge, owner, given, promised, log>>
  BY DEF PeekLoginChallenge
<1>4. SessionTypeOK'
  BY <1>1, <1>2, <1>3, SameType DEF SessionTypeOK
<1>5. Quiet
  BY <1>2, <1>3, OnlyRequest DEF log
<1> QED
  BY <1>4, <1>5

LEMMA SpendType ==
  ASSUME SessionTypeOK, NEW s, Spend(s)
  PROVE  /\ challenge' \in [Sids -> {"new", "open", "gone"}]
         /\ \A x \in Sids : challenge'[x] \in {challenge[x], "gone"}
         /\ s \in Sids => challenge'[s] = "gone"
BY DEF SessionTypeOK, Spend

LEMMA RefuseQuiet ==
  ASSUME SessionInv, NEW r \in Reqs, RefuseChallenge(r) \/ RefuseRotation(r)
  PROVE  SessionTypeOK' /\ Quiet
<1>1. SessionTypeOK /\ Finish(r) /\ req[r].step \in {"verify", "commit"}
      /\ UNCHANGED <<store, owner, given, promised, log>>
  BY DEF SessionInv, RefuseChallenge, RefuseRotation, On
<1>2. req' \in [Reqs -> Requests] /\ req'[r].step = "idle" /\ \A q \in Reqs : q # r => req'[q] = req[q]
  BY <1>1, FinishType, IdleType
<1>3. /\ challenge' \in [Sids -> {"new", "open", "gone"}]
      /\ \A s \in Sids : challenge'[s] \in {challenge[s], "gone"}
  BY <1>1, SpendType DEF RefuseChallenge, RefuseRotation, SessionTypeOK
<1>4. SessionTypeOK'
  BY <1>1, <1>2, <1>3, SameType
<1>5. Quiet
  BY <1>1, <1>2, <1>3, OnlyRequest DEF log
<1> QED
  BY <1>4, <1>5

LEMMA ChallengeExpiresQuiet ==
  ASSUME SessionInv, NEW s \in Sids, ChallengeExpires(s)
  PROVE  SessionTypeOK' /\ Quiet
<1>1. SessionTypeOK /\ Spend(s) /\ UNCHANGED <<store, owner, given, req, promised, log>>
  BY DEF SessionInv, ChallengeExpires
<1>2. SessionTypeOK'
  BY <1>1, SpendType, SameType DEF SessionTypeOK, Requests
<1>3. NoNewLogin
  BY <1>1, SpendType DEF NoNewLogin, SessionInv, LoginsApart
<1> QED
  BY <1>1, <1>2, <1>3 DEF Quiet, Shrinks, NoNewRefresh, KeepsPromises, store, log, history

LEMMA BeginQuiet ==
  ASSUME SessionInv, NEW r \in Reqs, NEW j \in Jtis, BeginCsrf(r, j) \/ BeginRevokeByJti(r, j)
  PROVE  SessionTypeOK' /\ Quiet
<1>1. SessionTypeOK /\ owner[j] \in Sids \cup {None} /\ req \in [Reqs -> Requests]
  BY RequestTyped DEF SessionInv, SessionTypeOK
<1>2. UNCHANGED <<store, challenge, owner, given, promised, log>>
  BY DEF BeginCsrf, BeginRevokeByJti
<1>3. /\ req' \in [Reqs -> Requests] /\ req'[r].step \in {"csrf", "kick"} /\ req[r].step = "idle"
      /\ \A q \in Reqs : q # r => req'[q] = req[q]
  <2>1. CASE BeginCsrf(r, j)
    <3>1. Begin(r, "csrf", owner[j], j)
      BY <2>1 DEF BeginCsrf
    <3>2. "csrf" \in Steps /\ j \in Jtis \cup {None}
      BY DEF Steps
    <3>3. /\ req' \in [Reqs -> Requests] /\ req'[r].step = "csrf" /\ req[r].step = "idle"
          /\ \A q \in Reqs : q # r => req'[q] = req[q]
      BY <1>1, <3>1, <3>2, BeginType
    <3> QED
      BY <3>3
  <2>2. CASE BeginRevokeByJti(r, j)
    <3>1. Task("kick", None, j, 1) \in Requests
      BY DEF Task, Requests, Steps
    <3>2. req' = [req EXCEPT ![r] = Task("kick", None, j, 1)] /\ req[r].step = "idle"
      BY <2>2 DEF BeginRevokeByJti, On
    <3> QED
      BY <1>1, <3>1, <3>2 DEF Task
  <2> QED
    BY <2>1, <2>2
<1>4. SessionTypeOK'
  BY <1>1, <1>2, <1>3, SameType DEF SessionTypeOK
<1>5. Quiet
  BY <1>2, <1>3, OnlyRequest DEF log
<1> QED
  BY <1>4, <1>5

LEMMA CheckSessionQuiet ==
  ASSUME SessionInv, NEW r \in Reqs, CheckSession(r)
  PROVE  SessionTypeOK' /\ Quiet
<1>1. SessionTypeOK /\ req[r].step = "csrf" /\ UNCHANGED <<store, challenge, owner, given, promised, log>>
  BY DEF SessionInv, CheckSession, On
<1>2. Finish(r) \/ req' = [req EXCEPT ![r].step = "setnx"]
  BY DEF CheckSession
<1>3. /\ req' \in [Reqs -> Requests] /\ req'[r].step \in {"idle", "setnx"}
      /\ \A q \in Reqs : q # r => req'[q] = req[q]
  BY <1>1, <1>2, FinishType, IdleType, StepType DEF Steps
<1>4. SessionTypeOK'
  BY <1>1, <1>3, SameType DEF SessionTypeOK
<1>5. Quiet
  BY <1>1, <1>3, OnlyRequest DEF log
<1> QED
  BY <1>4, <1>5

LEMMA SetCsrfQuiet ==
  ASSUME SessionInv, NEW r \in Reqs, SetCsrfToken(r)
  PROVE  SessionTypeOK' /\ Quiet
<1>1. SessionTypeOK /\ req[r].step = "setnx" /\ Finish(r)
      /\ UNCHANGED <<at, rt, us, ptr, challenge, owner, given, promised, log>>
  BY DEF SessionInv, SetCsrfToken, On
<1>2. req' \in [Reqs -> Requests] /\ req'[r].step = "idle" /\ \A q \in Reqs : q # r => req'[q] = req[q]
  BY <1>1, FinishType, IdleType
<1>3. proof' \in [Sids \cup Jtis -> Reqs \cup {None}]
  <2>1. CASE req[r].sid \in Sids
    BY <1>1, <2>1 DEF SetCsrfToken, ProofAfterSetNX, SessionTypeOK
  <2>2. CASE req[r].sid \notin Sids
    <3>1. req[r].sid \notin Sids \cup Jtis
      BY <1>1, <2>2, RequestTyped, SessionAssumption
    <3> QED
      BY <1>1, <3>1 DEF SetCsrfToken, SessionTypeOK
  <2> QED
    BY <2>1, <2>2
<1>4. SessionTypeOK'
  BY <1>1, <1>2, <1>3 DEF SessionTypeOK, Requests, log, history
<1>5. NoNewLogin /\ promised'[r] = {}
  BY <1>1, <1>2, NothingPromised DEF NoNewLogin, SessionInv, LoginsApart
<1> QED
  BY <1>1, <1>2, <1>4, <1>5 DEF Quiet, Shrinks, NoNewRefresh, KeepsPromises, log, history

(* A request that drops its promise, ends or goes to its next pass.        *)
LEMMA AbandonQuiet ==
  ASSUME SessionInv, NEW r \in Reqs, PassFails(r) \/ GiveUp(r)
  PROVE  SessionTypeOK' /\ Quiet
<1>1. /\ SessionTypeOK /\ Fault /\ promised' = [promised EXCEPT ![r] = {}]
      /\ UNCHANGED <<store, challenge, owner, given, history>>
  BY DEF SessionInv, PassFails, GiveUp
<1>2. /\ req' \in [Reqs -> Requests] /\ req'[r].step \in {"idle", "scan"}
      /\ \A q \in Reqs : q # r => req'[q] = req[q]
  BY <1>1, EndPassType, FinishType, IdleType DEF PassFails, GiveUp
<1>3. promised' \in [Reqs -> SUBSET (Sids \cup Jtis)] /\ promised'[r] = {}
      /\ \A q \in Reqs : q # r => promised'[q] = promised[q]
  BY <1>1 DEF SessionTypeOK
<1>4. SessionTypeOK'
  BY <1>1, <1>2, <1>3, FaultType DEF SessionTypeOK, Requests, store, history
<1>5. NoNewLogin
  BY <1>1, <1>2 DEF NoNewLogin, SessionInv, LoginsApart
<1> QED
  BY <1>1, <1>2, <1>3, <1>4, <1>5 DEF Quiet, Shrinks, NoNewRefresh, KeepsPromises, store, history

LEMMA DeleteShrinks ==
  ASSUME SessionTypeOK, NEW p, NEW D, Delete(p, D)
  PROVE  /\ at' \subseteq at /\ rt' \subseteq rt /\ us' \subseteq us
         /\ \A s \in Sids : ptr'[s] \in {None, ptr[s]}
         /\ ptr' \in [Sids -> Jtis \cup {None}]
         /\ proof' \in [Sids \cup Jtis -> Reqs \cup {None}]
BY DEF SessionTypeOK, Delete

LEMMA RevokeByJtiQuiet ==
  ASSUME SessionInv, NEW r \in Reqs, RevokeByJti(r)
  PROVE  SessionTypeOK' /\ Quiet
<1>1. /\ SessionTypeOK /\ req[r].step = "kick" /\ promised[r] = {}
      /\ UNCHANGED <<challenge, owner, given, promised, history>>
  BY NothingPromised DEF SessionInv, RevokeByJti, On
<1>2. /\ at' \subseteq at /\ rt' \subseteq rt /\ us' \subseteq us
      /\ \A s \in Sids : ptr'[s] \in {None, ptr[s]}
      /\ ptr' \in [Sids -> Jtis \cup {None}]
      /\ proof' \in [Sids \cup Jtis -> Reqs \cup {None}]
      /\ faults' \in 0 .. MaxFaults
  <2>1. CASE Delete(req[r].pass, {req[r].jti}) /\ UNCHANGED faults
    BY <1>1, <2>1, DeleteShrinks, FaultType
  <2>2. CASE Fault /\ UNCHANGED store
    BY <1>1, <2>2, FaultType DEF store, SessionTypeOK
  <2> QED
    BY <2>1, <2>2 DEF RevokeByJti
<1>3. /\ req' \in [Reqs -> Requests] /\ req'[r].step \in {"idle", "kick"}
      /\ \A q \in Reqs : q # r => req'[q] = req[q]
  <2> DEFINE next == [req[r] EXCEPT !.pass = req[r].pass + 1]
  <2>1. req' = [req EXCEPT ![r] = IF req[r].pass < 3 THEN next ELSE Idle]
    BY DEF RevokeByJti
  <2>2. req \in [Reqs -> Requests] /\ req[r].pass \in 0 .. 5
    BY <1>1, RequestTyped
  <2>3. CASE req[r].pass < 3
    <3>1. next \in Requests /\ next.step = "kick"
      BY <1>1, <2>2, <2>3 DEF Requests
    <3> QED
      BY <2>1, <2>2, <2>3, <3>1
  <2>4. CASE ~(req[r].pass < 3)
    BY <2>1, <2>2, <2>4, IdleType
  <2> QED
    BY <2>3, <2>4
<1>4. SessionTypeOK'
  BY <1>1, <1>2, <1>3 DEF SessionTypeOK, Requests, history
<1>5. NoNewLogin
  BY <1>1, <1>3 DEF NoNewLogin, SessionInv, LoginsApart
<1> QED
  BY <1>1, <1>2, <1>3, <1>4, <1>5 DEF Quiet, Shrinks, NoNewRefresh, KeepsPromises, history

LEMMA ExpiryQuiet ==
  ASSUME SessionInv, KeyExpires \/ \E j \in Jtis : PairExpires(j)
  PROVE  SessionTypeOK' /\ Quiet
<1>1. SessionTypeOK /\ Fault /\ UNCHANGED <<challenge, owner, req, promised, history>>
  BY DEF SessionInv, KeyExpires, PairExpires
<1>2. /\ at' \subseteq at /\ rt' \subseteq rt /\ us' \subseteq us /\ given' \subseteq given
      /\ \A s \in Sids : ptr'[s] \in {None, ptr[s]}
      /\ ptr' \in [Sids -> Jtis \cup {None}]
      /\ proof' \in [Sids \cup Jtis -> Reqs \cup {None}]
  BY <1>1 DEF KeyExpires, PairExpires, SessionTypeOK
<1>3. SessionTypeOK'
  BY <1>1, <1>2, FaultType DEF SessionTypeOK, history
<1>4. NoNewLogin
  BY <1>1 DEF NoNewLogin, SessionInv, LoginsApart
<1> QED
  BY <1>1, <1>2, <1>3, <1>4 DEF Quiet, Shrinks, NoNewRefresh, KeepsPromises, history

-----------------------------------------------------------------------------
(* The other actions.  First those that leave the store and the history.   *)
LEMMA StoreSame ==
  ASSUME SessionInv, SessionTypeOK', UNCHANGED <<store, owner, given, history>>
  PROVE  /\ Shrinks
         /\ PointersOwned' /\ Lineage' /\ OnePair' /\ ReplacedIsGone' /\ OneSuccessor'
         /\ NoRevival' /\ RevokedIsGone'
<1>1. Shrinks /\ loggedOut' = loggedOut /\ revoked' = revoked
  BY DEF Shrinks, store, history
<1> QED
  BY <1>1, StoreShrinks, EndedKept

(* A request that promised nothing moves on.                               *)
LEMMA OthersPromise ==
  ASSUME SessionInv, SessionTypeOK', UNCHANGED <<store, owner, given, promised, history>>, NEW r \in Reqs,
         req[r].step \notin {"scan", "del"}, \A q \in Reqs : q # r => req'[q] = req[q]
  PROVE  PassesDone' /\ StoredIssued' /\ EndedHadIds'
<1>1. promised'[r] = {}
  BY NothingPromised
<1>2. Shrinks /\ loggedOut' = loggedOut /\ revoked' = revoked
  BY StoreSame DEF history
<1>3. KeepsPromises
  BY <1>1 DEF KeepsPromises
<1> QED
  BY <1>2, <1>3, PromisesKept, IssuedKept

(* A request that takes the challenge of a session, or needs none, is the  *)
(* only login of it.                                                       *)
LEMMA LoginEnters ==
  ASSUME SessionInv, SessionTypeOK', UNCHANGED <<store, owner, given, history>>,
         NEW r \in Reqs, NEW s \in Sids, challenge[s] # "gone",
         req'[r].step = "bind", req'[r].sid = s, \A q \in Reqs : q # r => req'[q] = req[q],
         challenge'[s] = "gone", \A x \in Sids : x # s => challenge'[x] = challenge[x]
  PROVE  LoginsApart' /\ RefreshesOwned'
<1>1. Entering(s) = {} /\ ~HasIds(s)
  BY DEF SessionInv, LoginsApart
<1>2. Entering(s)' \subseteq {r} /\ \A x \in Sids : x # s => Entering(x)' \subseteq Entering(x)
  BY <1>1 DEF Entering
<1>3. \A x : HasIds(x)' <=> HasIds(x)
  BY DEF HasIds
<1>4. LoginsApart'
  <2>1. \A q \in Reqs : req'[q].step \in {"verify", "bind", "meta", "commit"} => req'[q].sid \in Sids
    BY DEF SessionInv, LoginsApart
  <2>2. \A x \in Sids : challenge'[x] # "gone" => Entering(x)' = {} /\ ~HasIds(x)'
    <3> SUFFICES ASSUME NEW x \in Sids, challenge'[x] # "gone"
                 PROVE  Entering(x)' = {} /\ ~HasIds(x)
      BY <1>3
    <3>1. Entering(x) = {} /\ ~HasIds(x) /\ x # s
      BY DEF SessionInv, LoginsApart
    <3> QED
      BY <1>2, <3>1
  <2>3. \A p, q \in Reqs : \A x \in Sids : p \in Entering(x)' /\ q \in Entering(x)' => p = q
    BY <1>2 DEF SessionInv, LoginsApart
  <2>4. \A q \in Reqs : req'[q].step = "bind" => ~\E j \in Jtis : owner'[j] = req'[q].sid
    BY <1>1 DEF SessionInv, LoginsApart, On, HasIds
  <2>5. \A q \in Reqs : req'[q].step = "meta" =>
          /\ req'[q].jti \in Jtis \ given'
          /\ req'[q].sid \notin loggedOut'
          /\ \A j \in Jtis : owner'[j] = req'[q].sid <=> j = req'[q].jti
          /\ parent'[req'[q].jti] = None
          /\ \A p \in Reqs : req'[p].step = "commit" => req'[p].sid # req'[q].sid
    <3> SUFFICES ASSUME NEW q \in Reqs, req'[q].step = "meta"
                 PROVE  /\ req[q].jti \in Jtis \ given
                        /\ req[q].sid \notin loggedOut
                        /\ \A j \in Jtis : owner[j] = req[q].sid <=> j = req[q].jti
                        /\ parent[req[q].jti] = None
                        /\ \A p \in Reqs : req'[p].step = "commit" => req'[p].sid # req[q].sid
      BY DEF history
    <3>1. q # r /\ On(q, "meta")
      BY DEF On
    <3>2. \A p \in Reqs : req'[p].step = "commit" => On(p, "commit") /\ req'[p].sid = req[p].sid
      BY DEF On
    <3> QED
      BY <3>1, <3>2 DEF SessionInv, LoginsApart
  <2> QED
    BY <2>1, <2>2, <2>3, <2>4, <2>5 DEF LoginsApart, On, HasIds
<1>5. RefreshesOwned'
  <2>1. NoNewRefresh /\ owner' = owner
    BY DEF NoNewRefresh
  <2> QED
    BY <2>1, RefreshesKept
<1> QED
  BY <1>4, <1>5

LEMMA LoginKeeps ==
  ASSUME SessionInv, NEW r \in Reqs, NEW s \in Sids, Login(r, s)
  PROVE  SessionInv'
<1>1. /\ SessionTypeOK /\ challenge[s] = "new" /\ req[r].step = "idle"
      /\ UNCHANGED <<store, owner, given, promised, log>>
  BY DEF SessionInv, Login, Begin, On
<1>2. CASE Begin(r, "bind", s, None) /\ challenge' = [challenge EXCEPT ![s] = "gone"]
  <2>1. /\ req' \in [Reqs -> Requests] /\ req'[r].step = "bind" /\ req'[r].sid = s
        /\ \A q \in Reqs : q # r => req'[q] = req[q]
    BY <1>1, <1>2, BeginType DEF Steps
  <2>2. /\ challenge' \in [Sids -> {"new", "open", "gone"}] /\ challenge'[s] = "gone"
        /\ \A x \in Sids : x # s => challenge'[x] = challenge[x]
    BY <1>1, <1>2 DEF SessionTypeOK
  <2>3. SessionTypeOK'
    BY <1>1, <2>1, <2>2, SameType
  <2> QED
    BY <1>1, <2>1, <2>2, <2>3, StoreSame, OthersPromise, LoginEnters DEF SessionInv, log
<1>3. CASE challenge' = [challenge EXCEPT ![s] = "open"] /\ UNCHANGED req
  <2>1. challenge' \in [Sids -> {"new", "open", "gone"}]
        /\ \A x \in Sids : challenge'[x] # "gone" => challenge[x] # "gone"
    BY <1>1, <1>3 DEF SessionTypeOK
  <2>2. SessionTypeOK'
    BY <1>1, <1>3, <2>1, SameType DEF SessionTypeOK, Requests
  <2>3. LoginsApart'
    <3>1. \A x : (HasIds(x)' <=> HasIds(x)) /\ Entering(x)' = Entering(x)
      BY <1>1, <1>3 DEF HasIds, Entering
    <3> QED
      BY <1>1, <1>3, <2>1, <3>1 DEF SessionInv, LoginsApart, On, log, history
  <2>4. RefreshesOwned'
    BY <1>1, <1>3, RefreshesKept DEF NoNewRefresh
  <2> QED
    BY <1>1, <1>3, <2>2, <2>3, <2>4, StoreSame, OthersPromise DEF SessionInv, log
<1> QED
  BY <1>2, <1>3 DEF Login

LEMMA TakeKeeps ==
  ASSUME SessionInv, NEW r \in Reqs, TakeLoginChallenge(r)
  PROVE  SessionInv'
<1> DEFINE s == req[r].sid
<1>1. /\ SessionTypeOK /\ req[r].step = "verify" /\ Spend(s) /\ s \in Sids
      /\ UNCHANGED <<store, owner, given, promised, log>>
  BY DEF SessionInv, TakeLoginChallenge, On, LoginsApart
<1>2. /\ challenge' \in [Sids -> {"new", "open", "gone"}] /\ challenge'[s] = "gone"
      /\ \A x \in Sids : challenge'[x] \in {challenge[x], "gone"}
  BY <1>1, SpendType
<1>3. CASE Taken(s)
  <2>1. challenge[s] # "gone" /\ \A x \in Sids : x # s => challenge'[x] = challenge[x]
    BY <1>1, <1>3 DEF Taken, Spend, SessionTypeOK
  <2>2. req' = [req EXCEPT ![r].step = "bind"]
    BY <1>3 DEF TakeLoginChallenge
  <2>3. /\ req' \in [Reqs -> Requests] /\ req'[r].step = "bind" /\ req'[r].sid = s
        /\ \A q \in Reqs : q # r => req'[q] = req[q]
    BY <1>1, <2>2, StepType DEF Steps
  <2>4. SessionTypeOK'
    BY <1>1, <1>2, <2>3, SameType
  <2> HIDE DEF s
  <2> QED
    BY <1>1, <1>2, <2>1, <2>3, <2>4, StoreSame, OthersPromise, LoginEnters DEF SessionInv, log
<1>4. CASE ~Taken(s)
  <2>1. Finish(r)
    BY <1>4 DEF TakeLoginChallenge
  <2>2. req' \in [Reqs -> Requests] /\ req'[r].step = "idle" /\ \A q \in Reqs : q # r => req'[q] = req[q]
    BY <1>1, <2>1, FinishType, IdleType
  <2>3. SessionTypeOK'
    BY <1>1, <1>2, <2>2, SameType
  <2>4. Quiet
    BY <1>1, <1>2, <2>2, OnlyRequest DEF log
  <2> QED
    BY <2>3, <2>4, QuietKeeps
<1> QED
  BY <1>3, <1>4

LEMMA PrepareKeeps ==
  ASSUME SessionInv, NEW r \in Reqs, NEW j \in Jtis, PrepareRefresh(r, j)
  PROVE  SessionInv'
<1>1. /\ SessionTypeOK /\ j \in given /\ Begin(r, "commit", owner[j], j)
      /\ UNCHANGED <<store, challenge, owner, given, promised, log>>
  BY DEF SessionInv, PrepareRefresh
<1>2. owner[j] \in Sids
  BY <1>1 DEF SessionInv, StoredIssued, SessionTypeOK, Issued
<1>3. /\ req' \in [Reqs -> Requests] /\ req'[r].step = "commit" /\ req'[r].sid = owner[j] /\ req'[r].jti = j
      /\ req[r].step = "idle" /\ \A q \in Reqs : q # r => req'[q] = req[q]
  BY <1>1, <1>2, BeginType DEF Steps
<1>4. SessionTypeOK'
  BY <1>1, <1>3, SameType DEF SessionTypeOK
<1>5. UNCHANGED <<store, owner, given, promised, history>>
  BY <1>1 DEF log
<1>6. LoginsApart'
  <2>1. NoNewLogin
    BY <1>1, <1>2, <1>3 DEF NoNewLogin, SessionInv, LoginsApart
  <2>2. ASSUME NEW q \in Reqs, On(q, "meta")
        PROVE  /\ req[q].sid \notin loggedOut'
               /\ \A p \in Reqs : req'[p].step = "commit" => req'[p].sid # req[q].sid
    <3>1. req[q].sid \notin loggedOut /\ (owner[j] = req[q].sid => j = req[q].jti) /\ req[q].jti \notin given
      BY <2>2 DEF SessionInv, LoginsApart
    <3>2. \A p \in Reqs : On(p, "commit") => req[p].sid # req[q].sid
      BY <2>2 DEF SessionInv, LoginsApart
    <3> QED
      BY <1>1, <1>3, <1>5, <3>1, <3>2 DEF On, history
  <2> QED
    BY <1>4, <1>5, <2>1, <2>2, StoreSame, LoginsKept
<1>7. RefreshesOwned'
  BY <1>3, <1>5 DEF SessionInv, RefreshesOwned, On
<1> QED
  BY <1>3, <1>4, <1>5, <1>6, <1>7, StoreSame, OthersPromise DEF SessionInv

LEMMA BeginRevokeKeeps ==
  ASSUME SessionInv, NEW r \in Reqs, BeginRevokeToken(r)
  PROVE  SessionInv'
<1> DEFINE X == at \cup rt \cup {s \in Sids : ptr[s] # None}
<1>1. /\ SessionTypeOK /\ req[r].step = "idle" /\ promised' = [promised EXCEPT ![r] = X]
      /\ req' = [req EXCEPT ![r] = Task("scan", None, None, 1)]
      /\ UNCHANGED <<store, challenge, owner, given, log>>
  BY DEF SessionInv, BeginRevokeToken, On
<1>2. X \subseteq Sids \cup Jtis /\ \A j \in X : j \in Jtis => Issued(j)
  BY <1>1, SessionAssumption DEF SessionInv, SessionTypeOK, StoredIssued
<1>3. \A s \in X : s \in Sids => HasIds(s)
  <2> SUFFICES ASSUME NEW s \in Sids, s \in X
               PROVE  HasIds(s)
    OBVIOUS
  <2>1. ptr[s] # None /\ ptr[s] \in Jtis
    BY <1>1, SessionAssumption DEF SessionTypeOK
  <2> QED
    BY <2>1 DEF SessionInv, PointersOwned, HasIds
<1>4. promised' \in [Reqs -> SUBSET (Sids \cup Jtis)] /\ promised'[r] = X
      /\ \A q \in Reqs : q # r => promised'[q] = promised[q]
  BY <1>1, <1>2 DEF SessionTypeOK
<1>5. /\ req' \in [Reqs -> Requests] /\ req'[r].step = "scan" /\ req'[r].pass = 1
      /\ \A q \in Reqs : q # r => req'[q] = req[q]
  <2>1. Task("scan", None, None, 1) \in Requests
    BY DEF Task, Requests, Steps
  <2> QED
    BY <1>1, <2>1, RequestTyped DEF Task
<1>6. SessionTypeOK'
  BY <1>1, <1>4, <1>5 DEF SessionTypeOK, Requests, store, log, history
<1> HIDE DEF X
<1>7. UNCHANGED <<store, owner, given, history>> /\ Shrinks
  BY <1>1, <1>6, StoreSame DEF log
<1>8. LoginsApart' /\ RefreshesOwned'
  <2>1. NoNewLogin /\ NoNewRefresh
    BY <1>1, <1>5 DEF NoNewLogin, NoNewRefresh, SessionInv, LoginsApart
  <2>2. \A q \in Reqs : On(q, "meta") =>
          /\ req[q].sid \notin loggedOut'
          /\ \A p \in Reqs : req'[p].step = "commit" => req'[p].sid # req[q].sid
    BY <1>7, <2>1 DEF SessionInv, LoginsApart, NoNewRefresh, On, history
  <2> QED
    BY <1>6, <1>7, <2>1, <2>2, LoginsKept, RefreshesKept
<1>9. StoredIssued' /\ EndedHadIds'
  <2>1. \A j \in Jtis : Issued(j)' <=> Issued(j)
    BY <1>7 DEF Issued
  <2>2. \A s : HasIds(s)' <=> HasIds(s)
    BY <1>7 DEF HasIds
  <2>3. \A j \in at' \cup rt' \cup us' \cup given' : Issued(j)'
    BY <1>1, <1>7, <2>1 DEF SessionInv, StoredIssued, store, SessionTypeOK
  <2>4. \A j \in Jtis : j \in revoked' => Issued(j)'
    BY <1>7, <2>1 DEF SessionInv, StoredIssued, history
  <2>5. \A q \in Reqs, j \in Jtis : j \in promised'[q] => Issued(j)'
    BY <1>2, <1>4, <2>1 DEF SessionInv, StoredIssued
  <2>6. StoredIssued'
    BY <2>3, <2>4, <2>5 DEF StoredIssued
  <2>7. EndedHadIds'
    BY <1>3, <1>4, <1>7, <2>2 DEF SessionInv, EndedHadIds, history
  <2> QED
    BY <2>6, <2>7
<1>10. PassesDone'
  <2> SUFFICES ASSUME NEW q \in Reqs
               PROVE  PassDone(q)'
    BY DEF PassesDone
  <2>1. CASE q = r
    BY <1>5, <2>1 DEF PassDone, On
  <2>2. CASE q # r
    BY <1>4, <1>5, <1>7, <2>2, PromiseKept
  <2> QED
    BY <2>1, <2>2
<1> QED
  BY <1>6, <1>7, <1>8, <1>9, <1>10, StoreSame DEF SessionInv

LEMMA ScanKeeps ==
  ASSUME SessionInv, NEW r \in Reqs, ScanKeys(r)
  PROVE  SessionInv'
<1> DEFINE K == Stored(req[r].pass)
<1>1. /\ SessionTypeOK /\ req[r].step = "scan" /\ req' = [req EXCEPT ![r].step = "del", ![r].keys = K]
      /\ UNCHANGED <<store, challenge, owner, given, promised, log>>
  BY DEF SessionInv, ScanKeys, On
<1>2. K \subseteq Sids \cup Jtis
  BY <1>1 DEF SessionTypeOK, Stored
<1>3. /\ req' \in [Reqs -> Requests] /\ req'[r].step = "del" /\ req'[r].pass = req[r].pass /\ req'[r].keys = K
      /\ \A q \in Reqs : q # r => req'[q] = req[q]
  <2> HIDE DEF K
  <2>1. req \in [Reqs -> Requests] /\ req[r] \in Requests
    BY <1>1, RequestTyped
  <2> QED
    BY <1>1, <1>2, <2>1 DEF Requests, Steps
<1>4. SessionTypeOK'
  BY <1>1, <1>3, SameType DEF SessionTypeOK
<1>5. UNCHANGED <<store, owner, given, promised, history>> /\ Shrinks
  BY <1>1, <1>4, StoreSame DEF log
<1>6. LoginsApart' /\ RefreshesOwned'
  <2>1. NoNewLogin /\ NoNewRefresh
    BY <1>1, <1>3 DEF NoNewLogin, NoNewRefresh, SessionInv, LoginsApart
  <2>2. \A q \in Reqs : On(q, "meta") =>
          /\ req[q].sid \notin loggedOut'
          /\ \A p \in Reqs : req'[p].step = "commit" => req'[p].sid # req[q].sid
    BY <1>5, <2>1 DEF SessionInv, LoginsApart, NoNewRefresh, On, history
  <2> QED
    BY <1>4, <1>5, <2>1, <2>2, LoginsKept, RefreshesKept
<1>7. StoredIssued' /\ EndedHadIds'
  BY <1>5, IssuedKept DEF history
<1>8. PassesDone'
  <2> SUFFICES ASSUME NEW q \in Reqs
               PROVE  PassDone(q)'
    BY DEF PassesDone
  <2>1. CASE q = r
    <3>1. Stored(req[r].pass)' = K
      BY <1>3, <1>5 DEF Stored, store
    <3>2. PassDone(r)
      BY DEF SessionInv, PassesDone
    <3> HIDE DEF K
    <3> QED
      BY <1>3, <1>5, <2>1, <3>1, <3>2 DEF PassDone, store, On
  <2>2. CASE q # r
    BY <1>3, <1>5, <2>2, PromiseKept
  <2> QED
    BY <2>1, <2>2
<1> QED
  BY <1>4, <1>5, <1>6, <1>7, <1>8, StoreSame DEF SessionInv

(* What a request that writes the record of its pair knows of the pair.    *)
LEMMA MetaKnows ==
  ASSUME SessionInv, NEW r \in Reqs, On(r, "meta")
  PROVE  /\ req[r].sid \in Sids /\ req[r].jti \in Jtis \ given /\ req[r].sid \notin loggedOut
         /\ \A j \in Jtis : owner[j] = req[r].sid <=> j = req[r].jti
         /\ Issued(req[r].jti)
         /\ \A x \in Jtis : parent[x] # req[r].jti
         /\ \A q \in Reqs : On(q, "meta") /\ q # r => req[q].jti # req[r].jti
<1>1. /\ req[r].sid \in Sids /\ req[r].jti \in Jtis \ given /\ req[r].sid \notin loggedOut
      /\ \A j \in Jtis : owner[j] = req[r].sid <=> j = req[r].jti
      /\ parent[req[r].jti] = None
  BY DEF SessionInv, LoginsApart, On
<1>2. Issued(req[r].jti)
  BY <1>1, SessionAssumption DEF Issued
<1>3. \A x \in Jtis : parent[x] # req[r].jti
  <2> SUFFICES ASSUME NEW x \in Jtis, parent[x] = req[r].jti
               PROVE  FALSE
    OBVIOUS
  <2>1. owner[req[r].jti] = owner[x]
    BY <1>1, SessionAssumption DEF SessionInv, Lineage
  <2> QED
    BY <1>1, <2>1, SessionAssumption
<1>4. ASSUME NEW q \in Reqs, On(q, "meta"), q # r
      PROVE  req[q].jti # req[r].jti
  <2>1. req[q].sid \in Sids /\ req[q].jti \in Jtis /\ owner[req[q].jti] = req[q].sid
    BY <1>4 DEF SessionInv, LoginsApart, On
  <2>2. req[q].sid # req[r].sid
    BY <1>1, <1>4, <2>1 DEF SessionInv, LoginsApart, Entering, On
  <2> QED
    BY <1>1, <2>1, <2>2
<1> QED
  BY <1>1, <1>2, <1>3, <1>4

LEMMA RecordKeeps ==
  ASSUME SessionInv, NEW r \in Reqs, RecordSessionMeta(r)
  PROVE  SessionInv'
<1> DEFINE k == req[r].jti  s == req[r].sid
<1>1. /\ SessionTypeOK /\ On(r, "meta") /\ Finish(r)
      /\ us' \subseteq us \cup {k} /\ given' \subseteq given \cup {k}
      /\ at' = at /\ rt' = rt /\ ptr' = ptr /\ proof' = proof /\ challenge' = challenge /\ owner' = owner
      /\ promised' = promised /\ faults' = faults /\ parent' = parent /\ loggedOut' = loggedOut /\ revoked' = revoked
  BY DEF SessionInv, RecordSessionMeta, log, history
<1>2. /\ s \in Sids /\ k \in Jtis \ given /\ s \notin loggedOut /\ Issued(k)
      /\ \A j \in Jtis : owner[j] = s <=> j = k
      /\ \A x \in Jtis : parent[x] # k
      /\ \A q \in Reqs : On(q, "meta") /\ q # r => req[q].jti # k
  BY <1>1, MetaKnows
<1>3. req' \in [Reqs -> Requests] /\ req'[r].step = "idle" /\ \A q \in Reqs : q # r => req'[q] = req[q]
  BY <1>1, FinishType, IdleType
<1> HIDE DEF k, s
<1>4. SessionTypeOK'
  BY <1>1, <1>2, <1>3 DEF SessionTypeOK, Requests
<1>5. PointersOwned' /\ EndedHadIds' /\ Lineage' /\ OneSuccessor' /\ RevokedIsGone'
  BY <1>1 DEF SessionInv, PointersOwned, EndedHadIds, HasIds, Lineage, OneSuccessor, RevokedIsGone
<1>6. StoredIssued'
  BY <1>1, <1>2 DEF SessionInv, StoredIssued, Issued
<1>7. LoginsApart'
  <2>1. \A x : (HasIds(x)' <=> HasIds(x)) /\ Entering(x)' \subseteq Entering(x)
    BY <1>1, <1>3 DEF HasIds, Entering
  <2>2. \A q \in Reqs : On(q, "meta")' => req'[q] = req[q] /\ On(q, "meta") /\ req[q].jti \in Jtis \ given'
    BY <1>1, <1>2, <1>3 DEF SessionInv, LoginsApart, On
  <2> QED
    BY <1>1, <1>3, <2>1, <2>2 DEF SessionInv, LoginsApart, On
<1>8. RefreshesOwned'
  BY <1>1, <1>3, RefreshesKept DEF NoNewRefresh
<1>9. PassesDone'
  <2>1. promised[r] = {}
    BY <1>1, NothingPromised DEF On
  <2>2. \A q \in Reqs : promised[q] = {} \/ (req'[q] = req[q] /\ PassDone(q))
    BY <1>3, <2>1 DEF SessionInv, PassesDone
  <2> SUFFICES ASSUME NEW q \in Reqs
               PROVE  PassDone(q)'
    BY DEF PassesDone
  <2>3. CASE promised[q] = {}
    BY <1>1, <2>3 DEF PassDone
  <2>4. CASE req'[q] = req[q] /\ PassDone(q)
    BY <1>1, <2>4 DEF PassDone, Stored, On
  <2> QED
    BY <2>2, <2>3, <2>4
<1>10. OnePair' /\ NoRevival'
  <2>1. \A x \in Sids : OfSession(x)' \subseteq IF x = s THEN {k} ELSE OfSession(x)
    BY <1>1, <1>2 DEF OfSession, SessionInv, SessionTypeOK
  <2>2. ptr[s] # None => ptr[s] = k
    BY <1>1, <1>2 DEF SessionInv, PointersOwned, SessionTypeOK
  <2> QED
    BY <1>1, <1>2, <2>1, <2>2 DEF SessionInv, OnePair, NoRevival, SessionTypeOK
<1>11. ReplacedIsGone'
  BY <1>1, <1>2 DEF SessionInv, ReplacedIsGone
<1> QED
  BY <1>4, <1>5, <1>6, <1>7, <1>8, <1>9, <1>10, <1>11 DEF SessionInv

LEMMA RevokeSessionKeeps ==
  ASSUME SessionInv, NEW j \in Jtis, RevokeSession(j)
  PROVE  SessionInv'
<1> DEFINE s == owner[j]  cur == ptr[s]
<1>1. /\ SessionTypeOK /\ j \in given /\ cur # None /\ ptr' = [ptr EXCEPT ![s] = None]
      /\ at' = at \ {cur} /\ rt' = rt \ {cur} /\ us' = us \ {cur} /\ proof' = [proof EXCEPT ![cur] = None]
      /\ loggedOut' = loggedOut \cup {s}
      /\ UNCHANGED <<challenge, owner, given, req, promised, faults, parent, revoked>>
  BY DEF SessionInv, RevokeSession
<1>2. s \in Sids /\ cur \in Jtis
  BY <1>1 DEF SessionInv, StoredIssued, Issued, SessionTypeOK
<1> HIDE DEF cur
<1>3. SessionTypeOK' /\ Shrinks
  BY <1>1, <1>2 DEF SessionTypeOK, Shrinks
<1>4. NoNewLogin /\ NoNewRefresh /\ KeepsPromises
  BY <1>1 DEF NoNewLogin, NoNewRefresh, KeepsPromises, SessionInv, LoginsApart
<1>5. LoginsApart'
  <2>1. ASSUME NEW q \in Reqs, On(q, "meta")
        PROVE  /\ req[q].sid \notin loggedOut'
               /\ \A p \in Reqs : req'[p].step = "commit" => req'[p].sid # req[q].sid
    <3>1. req[q].sid # s
      BY <1>1, <2>1, MetaKnows
    <3> QED
      BY <1>1, <2>1, <3>1 DEF SessionInv, LoginsApart, On
  <2> QED
    BY <1>3, <1>4, <2>1, LoginsKept
<1>6. StoredIssued' /\ EndedHadIds'
  <2>1. HasIds(s)
    BY DEF HasIds
  <2>2. \A x \in loggedOut' : x \in loggedOut \/ HasIds(x)
    BY <1>1, <2>1
  <2> QED
    BY <1>1, <1>3, <2>2, IssuedKept
<1>7. NoRevival'
  <2>1. OfSession(s)' = {}
    BY <1>1, <1>2 DEF SessionInv, OnePair, OfSession, cur
  <2>2. ptr'[s] = None
    BY <1>1, <1>2 DEF SessionTypeOK
  <2>3. \A x \in loggedOut : ptr'[x] = None /\ OfSession(x)' = {}
    BY <1>3 DEF SessionInv, NoRevival, OfSession, Shrinks, SessionTypeOK
  <2> QED
    BY <1>1, <2>1, <2>2, <2>3 DEF NoRevival
<1>8. RevokedIsGone'
  BY <1>1, <1>3 DEF SessionInv, RevokedIsGone, Shrinks
<1>9. PassesDone' /\ RefreshesOwned'
  BY <1>1, <1>3, <1>4, PromisesKept, RefreshesKept
<1> QED
  BY <1>3, <1>5, <1>6, <1>7, <1>8, <1>9, StoreShrinks DEF SessionInv

LEMMA DeleteKeeps ==
  ASSUME SessionInv, NEW r \in Reqs, NEW D \in SUBSET (Sids \cup Jtis), DeleteKeys(r, D)
  PROVE  SessionInv'
<1> DEFINE p == req[r].pass
<1>1. /\ SessionTypeOK /\ On(r, "del") /\ Delete(p, D) /\ EndPass(r) /\ req[r].keys \cap Stored(p) \subseteq D
      /\ revoked' = (IF p = 5 THEN revoked \cup promised[r] ELSE revoked)
      /\ promised' = (IF p = 5 THEN [promised EXCEPT ![r] = {}] ELSE promised)
      /\ UNCHANGED <<challenge, owner, given, faults, parent, loggedOut>>
  BY DEF SessionInv, DeleteKeys
<1>2. p \in 0 .. 5
  BY <1>1, RequestTyped
<1>3. /\ req' \in [Reqs -> Requests] /\ req'[r].step \in {"idle", "scan"}
      /\ p = 5 => req'[r].step = "idle" /\ req'[r].pass = 0
      /\ p # 5 => req'[r].step = "scan" /\ req'[r].pass = p + 1
      /\ \A q \in Reqs : q # r => req'[q] = req[q]
  BY <1>1, EndPassType
<1>4. /\ promised' \in [Reqs -> SUBSET (Sids \cup Jtis)]
      /\ \A q \in Reqs : promised'[q] \in {{}, promised[q]} /\ (q # r => promised'[q] = promised[q])
      /\ p = 5 => promised'[r] = {}
      /\ revoked' \subseteq Sids \cup Jtis
  BY <1>1 DEF SessionTypeOK
<1>5. SessionTypeOK' /\ Shrinks
  BY <1>1, <1>3, <1>4, DeleteShrinks DEF SessionTypeOK, Requests, Shrinks
<1>6. LoginsApart' /\ RefreshesOwned'
  <2>1. NoNewLogin /\ NoNewRefresh
    BY <1>1, <1>3 DEF NoNewLogin, NoNewRefresh, SessionInv, LoginsApart
  <2>2. \A q \in Reqs : On(q, "meta") =>
          /\ req[q].sid \notin loggedOut'
          /\ \A x \in Reqs : req'[x].step = "commit" => req'[x].sid # req[q].sid
    BY <1>1, <2>1 DEF SessionInv, LoginsApart, NoNewRefresh, On
  <2> QED
    BY <1>1, <1>5, <2>1, <2>2, LoginsKept, RefreshesKept
<1>7. StoredIssued' /\ EndedHadIds'
  <2>1. \A x \in revoked' : x \in revoked \/ \E q \in Reqs : x \in promised[q]
    BY <1>1
  <2> QED
    BY <1>1, <1>4, <1>5, <2>1, IssuedKept
<1>8. PassDone(r)
  BY DEF SessionInv, PassesDone
<1>9. PassesDone'
  <2> SUFFICES ASSUME NEW q \in Reqs
               PROVE  PassDone(q)'
    BY DEF PassesDone
  <2>1. CASE q # r
    BY <1>3, <1>4, <1>5, <2>1, PromiseKept
  <2>2. CASE p = 5 /\ q = r
    BY <1>4, <1>5, <2>2, PromiseKept
  <2>3. CASE p # 5 /\ q = r
    <3> DEFINE X == promised[r]
    <3>1. promised'[r] = X /\ req'[r].step = "scan" /\ req'[r].pass = p + 1
      BY <1>1, <1>3, <2>3
    <3>2. p >= 1 => X \cap at' = {}
      <4>1. CASE p = 1
        BY <1>1, <1>8, <4>1 DEF PassDone, Delete, Stored
      <4>2. CASE p # 1
        BY <1>2, <1>5, <1>8, <4>2 DEF PassDone, Shrinks
      <4> QED
        BY <4>1, <4>2
    <3>3. p >= 2 => X \cap rt' = {}
      <4>1. CASE p = 2
        BY <1>1, <1>8, <4>1 DEF PassDone, Delete, Stored
      <4>2. CASE p # 2
        BY <1>2, <1>5, <1>8, <4>2 DEF PassDone, Shrinks
      <4> QED
        BY <4>1, <4>2
    <3>4. p >= 4 => \A s \in X \cap Sids : ptr'[s] = None
      <4>1. p >= 4 => p = 4
        BY <1>2, <2>3
      <4>2. ASSUME p = 4, NEW s \in X \cap Sids
            PROVE  ptr'[s] = None
        <5>1. ptr[s] = None \/ s \in D
          BY <1>1, <1>8, <4>2 DEF PassDone, Stored
        <5>2. ptr'[s] = IF s \in D THEN None ELSE ptr[s]
          BY <1>1, <4>2 DEF Delete
        <5> QED
          BY <5>1, <5>2
      <4> QED
        BY <4>1, <4>2
    <3> HIDE DEF X, p
    <3> QED
      BY <1>2, <2>3, <3>1, <3>2, <3>3, <3>4 DEF PassDone, On
  <2> QED
    BY <2>1, <2>2, <2>3
<1>10. RevokedIsGone'
  <2>1. p = 5 => /\ promised[r] \cap (at' \cup rt') = {}
                 /\ \A s \in Sids : s \in promised[r] => ptr'[s] = None
    BY <1>5, <1>8 DEF PassDone, Shrinks
  <2>2. revoked \cap (at' \cup rt') = {} /\ \A s \in Sids : s \in revoked => ptr'[s] = None
    BY <1>5 DEF SessionInv, RevokedIsGone, Shrinks
  <2> HIDE DEF p
  <2> QED
    BY <1>1, <2>1, <2>2 DEF RevokedIsGone
<1>11. NoRevival'
  BY <1>1, <1>5 DEF SessionInv, NoRevival, OfSession, Shrinks, SessionTypeOK
<1> QED
  BY <1>5, <1>6, <1>7, <1>9, <1>10, <1>11, StoreShrinks DEF SessionInv

-----------------------------------------------------------------------------
(* The actions that write a new pair.  Its id is named nowhere yet.        *)
LEMMA Fresh ==
  ASSUME SessionInv, NEW k \in Jtis, ~Issued(k)
  PROVE  /\ owner[k] = None /\ k \notin at \cup rt \cup us \cup given /\ k \notin revoked
         /\ \A q \in Reqs : k \notin promised[q]
         /\ \A s \in Sids : ptr[s] # k
         /\ \A x \in Jtis : parent[x] # k
         /\ parent[k] = None
         /\ \A q \in Reqs : On(q, "commit") => req[q].jti # k
<1>1. owner[k] = None /\ k \notin at \cup rt \cup us \cup given /\ k \notin revoked
      /\ \A q \in Reqs : k \notin promised[q]
  BY DEF SessionInv, StoredIssued, Issued
<1>2. \A s \in Sids : ptr[s] # k
  BY <1>1, SessionAssumption DEF SessionInv, PointersOwned
<1>3. (\A x \in Jtis : parent[x] # k) /\ parent[k] = None
  BY <1>1, SessionAssumption DEF SessionInv, Lineage
<1>4. \A q \in Reqs : On(q, "commit") => req[q].jti # k
  BY <1>1, SessionAssumption DEF SessionInv, RefreshesOwned, LoginsApart, On
<1> QED
  BY <1>1, <1>2, <1>3, <1>4

LEMMA BindKeeps ==
  ASSUME SessionInv, NEW r \in Reqs, NEW k \in Jtis, BindSession(r, k)
  PROVE  SessionInv'
<1>0. PICK s \in Sids : s = req[r].sid
  BY DEF SessionInv, LoginsApart, BindSession, On
<1>1. /\ SessionTypeOK /\ On(r, "bind") /\ ~Issued(k)
      /\ owner' = [owner EXCEPT ![k] = s] /\ at' = at \cup {k} /\ rt' = rt \cup {k}
      /\ ptr' = [ptr EXCEPT ![s] = k] /\ req' = [req EXCEPT ![r].step = "meta", ![r].jti = k]
      /\ us' = us /\ proof' = proof /\ challenge' = challenge /\ given' = given /\ promised' = promised
      /\ faults' = faults /\ parent' = parent /\ loggedOut' = loggedOut /\ revoked' = revoked
  BY <1>0 DEF SessionInv, BindSession, log, history
<1>2. s \in Sids /\ ~HasIds(s) /\ s \notin loggedOut /\ s \notin revoked /\ \A q \in Reqs : s \notin promised[q]
  BY <1>0, <1>1 DEF SessionInv, LoginsApart, EndedHadIds, On
<1>3. /\ owner[k] = None /\ k \notin at \cup rt \cup us \cup given /\ k \notin revoked
      /\ \A q \in Reqs : k \notin promised[q]
      /\ \A x \in Sids : ptr[x] # k
      /\ \A x \in Jtis : parent[x] # k
      /\ parent[k] = None
      /\ \A q \in Reqs : On(q, "commit") => req[q].jti # k
  BY <1>1, Fresh
<1>4. ptr[s] = None /\ \A j \in Jtis : owner[j] # s
  BY <1>2 DEF SessionInv, PointersOwned, HasIds, SessionTypeOK
<1>5. /\ req' \in [Reqs -> Requests] /\ req'[r].step = "meta" /\ req'[r].sid = s /\ req'[r].jti = k
      /\ \A q \in Reqs : q # r => req'[q] = req[q]
  <2>1. req \in [Reqs -> Requests] /\ req[r] \in Requests
    BY <1>1, RequestTyped
  <2> QED
    BY <1>0, <1>1, <2>1 DEF Requests, Steps
<1>6. /\ ptr'[s] = k /\ \A x \in Sids : x # s => ptr'[x] = ptr[x]
      /\ owner'[k] = s /\ \A j \in Jtis : j # k => owner'[j] = owner[j]
  BY <1>1, <1>2 DEF SessionTypeOK
<1>7. SessionTypeOK'
  BY <1>1, <1>2, <1>5 DEF SessionTypeOK, Requests
<1>8. \A x : HasIds(x) /\ x # None => HasIds(x)'
  BY <1>3, <1>6 DEF HasIds
<1>9. \A x \in Sids : x # s => (HasIds(x)' <=> HasIds(x)) /\ OfSession(x)' \subseteq OfSession(x)
  BY <1>1, <1>3, <1>6, SessionAssumption DEF HasIds, OfSession, SessionInv, SessionTypeOK
<1>10. PointersOwned' /\ StoredIssued'
  <2>1. PointersOwned'
    BY <1>3, <1>6 DEF SessionInv, PointersOwned, SessionTypeOK
  <2>2. \A j \in Jtis : Issued(j) \/ j = k => Issued(j)'
    BY <1>2, <1>3, <1>6, SessionAssumption DEF Issued
  <2> QED
    BY <1>1, <2>1, <2>2 DEF SessionInv, StoredIssued, SessionTypeOK
<1>11. EndedHadIds'
  BY <1>1, <1>8, SessionAssumption DEF SessionInv, EndedHadIds, SessionTypeOK
<1>12. LoginsApart'
  <2>1. \A x \in Sids : Entering(x)' = Entering(x)
    BY <1>0, <1>1, <1>5 DEF Entering, On
  <2>2. \A x \in Sids : challenge'[x] # "gone" => Entering(x)' = {} /\ ~HasIds(x)'
    <3>1. r \in Entering(s)
      BY <1>0, <1>1 DEF Entering, On
    <3> QED
      BY <1>1, <1>2, <1>9, <2>1, <3>1 DEF SessionInv, LoginsApart
  <2>3. \A q \in Reqs : req'[q].step = "bind" => ~\E j \in Jtis : owner'[j] = req'[q].sid
    <3> SUFFICES ASSUME NEW q \in Reqs, req'[q].step = "bind"
                 PROVE  \A j \in Jtis : owner'[j] # req[q].sid
      BY <1>5
    <3>1. q # r /\ On(q, "bind") /\ req[q].sid \in Sids /\ ~HasIds(req[q].sid)
      BY <1>5 DEF SessionInv, LoginsApart, On
    <3>2. req[q].sid # s
      BY <1>0, <1>1, <1>2, <3>1 DEF SessionInv, LoginsApart, Entering, On
    <3> QED
      BY <1>6, <3>1, <3>2 DEF HasIds
  <2>4. ASSUME NEW q \in Reqs, req'[q].step = "meta"
        PROVE  /\ req'[q].jti \in Jtis \ given' /\ req'[q].sid \notin loggedOut'
               /\ \A j \in Jtis : owner'[j] = req'[q].sid <=> j = req'[q].jti
               /\ parent'[req'[q].jti] = None
               /\ \A x \in Reqs : req'[x].step = "commit" => req'[x].sid # req'[q].sid
    <3>1. \A x \in Reqs : req'[x].step = "commit" => On(x, "commit") /\ req'[x] = req[x]
      BY <1>5 DEF On
    <3>2. \A x \in Reqs : On(x, "commit") => req[x].jti \in Jtis /\ owner[req[x].jti] = req[x].sid
      BY DEF SessionInv, RefreshesOwned
    <3>3. CASE q = r
      BY <1>1, <1>2, <1>3, <1>4, <1>5, <1>6, <3>1, <3>2, <3>3
    <3>4. CASE q # r
      <4>1. On(q, "meta") /\ req'[q] = req[q]
        BY <1>5, <2>4, <3>4 DEF On
      <4>2. /\ req[q].sid \in Sids /\ req[q].jti \in Jtis \ given /\ req[q].sid \notin loggedOut
            /\ \A j \in Jtis : owner[j] = req[q].sid <=> j = req[q].jti
            /\ parent[req[q].jti] = None
            /\ \A x \in Reqs : On(x, "commit") => req[x].sid # req[q].sid
        BY <4>1 DEF SessionInv, LoginsApart, On
      <4>3. req[q].sid # s /\ req[q].jti # k
        BY <1>3, <1>4, <4>2, SessionAssumption
      <4>4. \A j \in Jtis : owner'[j] = req[q].sid <=> j = req[q].jti
        BY <1>3, <1>6, <4>2, <4>3
      <4>5. \A x \in Reqs : req'[x].step = "commit" => req'[x].sid # req[q].sid
        BY <3>1, <4>2
      <4>6. given' = given /\ loggedOut' = loggedOut /\ parent' = parent
        BY <1>1
      <4> QED
        BY <4>1, <4>2, <4>4, <4>5, <4>6
    <3> QED
      BY <3>3, <3>4
  <2>5. \A q \in Reqs : req'[q].step \in {"verify", "bind", "meta", "commit"} => req'[q].sid \in Sids
    BY <1>2, <1>5 DEF SessionInv, LoginsApart
  <2>6. \A p, q \in Reqs : \A x \in Sids : p \in Entering(x)' /\ q \in Entering(x)' => p = q
    BY <2>1 DEF SessionInv, LoginsApart
  <2> QED
    BY <2>2, <2>3, <2>4, <2>5, <2>6 DEF LoginsApart, On, HasIds
<1>13. RefreshesOwned'
  BY <1>3, <1>5, <1>6 DEF SessionInv, RefreshesOwned, On
<1>14. Lineage'
  BY <1>1, <1>3, <1>4, <1>6 DEF SessionInv, Lineage, SessionTypeOK
<1>15. PassesDone'
  <2> SUFFICES ASSUME NEW q \in Reqs
               PROVE  PassDone(q)'
    BY DEF PassesDone
  <2>1. promised[r] = {}
    BY <1>1, NothingPromised DEF On
  <2>2. CASE q = r
    BY <1>1, <2>1, <2>2 DEF PassDone
  <2>3. CASE q # r
    <3>1. req'[q] = req[q] /\ promised'[q] = promised[q] /\ PassDone(q)
      BY <1>1, <1>5, <2>3 DEF SessionInv, PassesDone
    <3>2. \A p \in {1, 2, 4} : promised[q] \cap Stored(p)' \subseteq promised[q] \cap Stored(p)
      BY <1>1, <1>2, <1>3, <1>6 DEF Stored
    <3>3. k \notin promised[q] /\ s \notin promised[q]
      BY <1>2, <1>3
    <3>4. /\ promised[q] \cap at' = promised[q] \cap at
          /\ promised[q] \cap rt' = promised[q] \cap rt
          /\ \A x \in promised[q] \cap Sids : ptr'[x] = ptr[x]
      BY <1>1, <1>6, <3>3
    <3> HIDE <1>1, <1>2, <1>3, <1>6
    <3> QED
      BY <3>1, <3>2, <3>4 DEF PassDone, On
  <2> QED
    BY <2>2, <2>3
<1>16. OnePair' /\ NoRevival'
  <2>1. OfSession(s)' = {j \in at' \cup rt' \cup us' : owner'[j] = s}
    BY DEF OfSession
  <2>2. at' \cup rt' \cup us' \subseteq Jtis
    BY <1>7 DEF SessionTypeOK
  <2>3. OfSession(s)' \subseteq {k}
    BY <1>4, <1>6, <2>1, <2>2
  <2>4. \A x \in Sids : x # s => OfSession(x)' \subseteq OfSession(x) /\ ptr'[x] = ptr[x]
    BY <1>6, <1>9
  <2>5. OnePair'
    BY <1>6, <2>3, <2>4 DEF SessionInv, OnePair
  <2>6. NoRevival'
    BY <1>1, <1>2, <2>4 DEF SessionInv, NoRevival, SessionTypeOK
  <2> QED
    BY <2>5, <2>6
<1>17. ReplacedIsGone' /\ OneSuccessor' /\ RevokedIsGone'
  BY <1>1, <1>2, <1>3, <1>6 DEF SessionInv, ReplacedIsGone, OneSuccessor, RevokedIsGone
<1> QED
  BY <1>7, <1>10, <1>11, <1>12, <1>13, <1>14, <1>15, <1>16, <1>17 DEF SessionInv

LEMMA RotateKeeps ==
  ASSUME SessionInv, NEW r \in Reqs, NEW k \in Jtis, RotateSession(r, k)
  PROVE  SessionInv'
<1>0. PICK s \in Sids, j \in Jtis : s = req[r].sid /\ j = req[r].jti /\ owner[j] = s
  BY DEF SessionInv, LoginsApart, RefreshesOwned, RotateSession, On
<1>1. /\ SessionTypeOK /\ On(r, "commit") /\ ptr[s] = j /\ ~Issued(k) /\ Finish(r)
      /\ owner' = [owner EXCEPT ![k] = s] /\ ptr' = [ptr EXCEPT ![s] = k] /\ parent' = [parent EXCEPT ![k] = j]
      /\ at' = (at \ {j}) \cup {k} /\ rt' = (rt \ {j}) \cup {k} /\ us' = (us \ {j}) \cup {k}
      /\ given' \subseteq given \cup {k} /\ given \subseteq given'
  BY <1>0 DEF SessionInv, RotateSession, StillCurrent, Replaced
<1>2. /\ proof' = proof /\ challenge' = challenge /\ promised' = promised
      /\ faults' = faults /\ loggedOut' = loggedOut /\ revoked' = revoked
  BY DEF RotateSession
<1>3. /\ owner[k] = None /\ k \notin at \cup rt \cup us \cup given /\ k \notin revoked
      /\ \A q \in Reqs : k \notin promised[q]
      /\ \A x \in Sids : ptr[x] # k
      /\ \A x \in Jtis : parent[x] # k
      /\ parent[k] = None
      /\ \A q \in Reqs : On(q, "commit") => req[q].jti # k
  BY <1>1, Fresh
<1>4. j # k /\ j # None /\ s # None /\ HasIds(s)
  BY <1>0, <1>1, <1>3, SessionAssumption DEF HasIds
<1>5. s \notin loggedOut /\ s \notin revoked
  BY <1>1, <1>4 DEF SessionInv, NoRevival, RevokedIsGone
<1>6. req' \in [Reqs -> Requests] /\ req'[r].step = "idle" /\ \A q \in Reqs : q # r => req'[q] = req[q]
  BY <1>1, FinishType, IdleType
<1>7. /\ ptr'[s] = k /\ \A x \in Sids : x # s => ptr'[x] = ptr[x]
      /\ owner'[k] = s /\ \A x \in Jtis : x # k => owner'[x] = owner[x]
      /\ parent'[k] = j /\ \A x \in Jtis : x # k => parent'[x] = parent[x]
  BY <1>1 DEF SessionTypeOK
<1>8. SessionTypeOK'
  BY <1>1, <1>2, <1>6 DEF SessionTypeOK, Requests
<1>9. \A x \in Sids : HasIds(x)' <=> HasIds(x)
  BY <1>3, <1>4, <1>7, SessionAssumption DEF HasIds
<1>10. \A x \in Sids : x # s => OfSession(x)' \subseteq OfSession(x)
  BY <1>1, <1>7 DEF OfSession, SessionTypeOK
<1>11. PointersOwned' /\ StoredIssued'
  <2>1. PointersOwned'
    BY <1>3, <1>7 DEF SessionInv, PointersOwned, SessionTypeOK
  <2>2. \A x \in Jtis : Issued(x) \/ x = k => Issued(x)'
    BY <1>3, <1>4, <1>7 DEF Issued
  <2> QED
    BY <1>1, <1>2, <2>1, <2>2 DEF SessionInv, StoredIssued, SessionTypeOK
<1>12. EndedHadIds'
  BY <1>1, <1>2, <1>9 DEF SessionInv, EndedHadIds, SessionTypeOK
<1>13. LoginsApart'
  <2>1. \A x \in Sids : Entering(x)' \subseteq Entering(x)
    BY <1>6 DEF Entering
  <2>2. \A x \in Sids : challenge'[x] # "gone" => Entering(x)' = {} /\ ~HasIds(x)'
    BY <1>2, <1>9, <2>1 DEF SessionInv, LoginsApart
  <2>3. ASSUME NEW q \in Reqs, req'[q].step = "bind"
        PROVE  ~\E x \in Jtis : owner'[x] = req'[q].sid
    <3>1. On(q, "bind") /\ req'[q] = req[q] /\ req[q].sid \in Sids /\ ~HasIds(req[q].sid)
      BY <1>6, <2>3 DEF SessionInv, LoginsApart, On
    <3>2. req[q].sid # s
      BY <1>4, <3>1
    <3> QED
      BY <1>7, <3>1, <3>2 DEF HasIds
  <2>4. ASSUME NEW q \in Reqs, req'[q].step = "meta"
        PROVE  /\ req'[q].jti \in Jtis \ given' /\ req'[q].sid \notin loggedOut'
               /\ \A x \in Jtis : owner'[x] = req'[q].sid <=> x = req'[q].jti
               /\ parent'[req'[q].jti] = None
               /\ \A x \in Reqs : req'[x].step = "commit" => req'[x].sid # req'[q].sid
    <3>1. \A x \in Reqs : req'[x].step = "commit" => On(x, "commit") /\ req'[x] = req[x]
      BY <1>6 DEF On
    <3>2. On(q, "meta") /\ req'[q] = req[q]
      BY <1>6, <2>4 DEF On
    <3>3. /\ req[q].sid \in Sids /\ req[q].jti \in Jtis \ given /\ req[q].sid \notin loggedOut
          /\ \A x \in Jtis : owner[x] = req[q].sid <=> x = req[q].jti
          /\ parent[req[q].jti] = None
          /\ \A x \in Reqs : On(x, "commit") => req[x].sid # req[q].sid
      BY <3>2 DEF SessionInv, LoginsApart, On
    <3>4. req[q].sid # s /\ req[q].jti # k
      BY <1>0, <1>1, <1>3, <3>3, SessionAssumption
    <3>5. \A x \in Jtis : owner'[x] = req[q].sid <=> x = req[q].jti
      BY <1>3, <1>7, <3>3, <3>4
    <3>6. req[q].jti \in Jtis \ given' /\ parent'[req[q].jti] = None
      BY <1>1, <1>7, <3>3, <3>4
    <3>7. \A x \in Reqs : req'[x].step = "commit" => req'[x].sid # req[q].sid
      BY <3>1, <3>3
    <3> QED
      BY <1>2, <3>2, <3>3, <3>5, <3>6, <3>7
  <2>5. \A q \in Reqs : req'[q].step \in {"verify", "bind", "meta", "commit"} => req'[q].sid \in Sids
    BY <1>6 DEF SessionInv, LoginsApart
  <2>6. \A p, q \in Reqs : \A x \in Sids : p \in Entering(x)' /\ q \in Entering(x)' => p = q
    BY <2>1 DEF SessionInv, LoginsApart
  <2> QED
    BY <2>2, <2>3, <2>4, <2>5, <2>6 DEF LoginsApart, On, HasIds
<1>14. RefreshesOwned'
  BY <1>3, <1>6, <1>7 DEF SessionInv, RefreshesOwned, On
<1>15. Lineage'
  <2> SUFFICES ASSUME NEW x \in Jtis, parent'[x] # None
               PROVE  /\ owner'[parent'[x]] = owner'[x] /\ owner'[x] # None
                      /\ ptr'[owner'[x]] # parent'[x]
    BY DEF Lineage
  <2>1. CASE x = k
    BY <1>0, <1>4, <1>7, <2>1
  <2>2. CASE x # k
    <3>1. parent'[x] = parent[x] /\ parent[x] \in Jtis /\ parent[x] # k /\ owner'[x] = owner[x]
      BY <1>1, <1>3, <1>7, <2>2 DEF SessionTypeOK
    <3>2. owner[parent[x]] = owner[x] /\ owner[x] # None /\ ptr[owner[x]] # parent[x]
      BY <3>1 DEF SessionInv, Lineage
    <3>3. owner[x] \in Sids
      BY <1>1, <3>2 DEF SessionTypeOK
    <3> QED
      BY <1>7, <3>1, <3>2, <3>3
  <2> QED
    BY <2>1, <2>2
<1>16. PassesDone'
  <2> SUFFICES ASSUME NEW q \in Reqs
               PROVE  PassDone(q)'
    BY DEF PassesDone
  <2>1. promised[r] = {}
    BY <1>1, NothingPromised DEF On
  <2>2. CASE q = r
    BY <1>2, <2>1, <2>2 DEF PassDone
  <2>3. CASE q # r
    <3>1. req'[q] = req[q] /\ promised'[q] = promised[q] /\ PassDone(q)
      BY <1>2, <1>6, <2>3 DEF SessionInv, PassesDone
    <3>2. /\ promised[q] \cap at' \subseteq promised[q] \cap at
          /\ promised[q] \cap rt' \subseteq promised[q] \cap rt
      BY <1>1, <1>3
    <3>3. \A x \in Sids : (ptr'[x] # None <=> ptr[x] # None)
      BY <1>1, <1>4, <1>7, SessionAssumption
    <3>4. \A p \in {1, 2, 4} : promised[q] \cap Stored(p)' \subseteq promised[q] \cap Stored(p)
      BY <3>2, <3>3 DEF Stored
    <3> QED
      BY <3>1, <3>2, <3>3, <3>4 DEF PassDone, On
  <2> QED
    BY <2>2, <2>3
<1>17. OnePair' /\ NoRevival'
  <2>1. OfSession(s) \subseteq {j}
    BY <1>1, <1>4 DEF SessionInv, OnePair
  <2>2. OfSession(s)' \subseteq {k}
    <3>1. \A x \in at' \cup rt' \cup us' : x = k \/ (x \in at \cup rt \cup us /\ x # j /\ x \in Jtis)
      BY <1>1 DEF SessionTypeOK
    <3> QED
      BY <1>7, <2>1, <3>1 DEF OfSession
  <2>3. OnePair'
    BY <1>7, <1>10, <2>2 DEF SessionInv, OnePair
  <2>4. NoRevival'
    BY <1>1, <1>2, <1>5, <1>7, <1>10 DEF SessionInv, NoRevival, SessionTypeOK
  <2> QED
    BY <2>3, <2>4
<1>18. ReplacedIsGone'
  BY <1>1, <1>3, <1>4, <1>7 DEF SessionInv, ReplacedIsGone
<1>19. OneSuccessor'
  <2>1. \A x \in Jtis : parent[x] # j
    <3> SUFFICES ASSUME NEW x \in Jtis, parent[x] = j
                 PROVE  FALSE
      OBVIOUS
    <3>1. owner[j] = owner[x] /\ ptr[owner[x]] # j
      BY <1>4 DEF SessionInv, Lineage
    <3> QED
      BY <1>0, <1>1, <3>1
  <2> QED
    BY <1>7, <2>1 DEF SessionInv, OneSuccessor
<1>20. RevokedIsGone'
  BY <1>1, <1>2, <1>3, <1>5, <1>7 DEF SessionInv, RevokedIsGone
<1> QED
  BY <1>8, <1>11, <1>12, <1>13, <1>14, <1>15, <1>16, <1>17, <1>18, <1>19, <1>20 DEF SessionInv

-----------------------------------------------------------------------------
(* No keys at all: the initial state.                                      *)
LEMMA SessionStarts == SessionInit => SessionInv
<1> SUFFICES ASSUME SessionInit
             PROVE  SessionInv
  OBVIOUS
<1>1. SessionTypeOK
  BY IdleType, SessionAssumption DEF SessionInit, SessionTypeOK, Requests
<1>2. \A r \in Reqs : req[r].step = "idle" /\ req[r].pass = 0 /\ promised[r] = {}
  BY IdleType DEF SessionInit
<1>3. PointersOwned /\ StoredIssued /\ EndedHadIds
  BY DEF SessionInit, PointersOwned, StoredIssued, EndedHadIds
<1>4. LoginsApart /\ RefreshesOwned
  <2>1. \A s \in Sids : Entering(s) = {} /\ ~HasIds(s)
    BY <1>2, SessionAssumption DEF Entering, HasIds, SessionInit
  <2> QED
    BY <1>2, <2>1 DEF LoginsApart, RefreshesOwned, On
<1>5. Lineage /\ PassesDone
  BY <1>2 DEF SessionInit, Lineage, PassesDone, PassDone, On
<1>6. OnePair /\ ReplacedIsGone /\ OneSuccessor /\ NoRevival /\ RevokedIsGone
  BY DEF SessionInit, OnePair, ReplacedIsGone, OneSuccessor, NoRevival, RevokedIsGone
<1> QED
  BY <1>1, <1>3, <1>4, <1>5, <1>6 DEF SessionInv

(* One case per action.                                                    *)
LEMMA SessionStep == SessionInv /\ [SessionNext]_zvars => SessionInv'
<1> SUFFICES ASSUME SessionInv, [SessionNext]_zvars
             PROVE  SessionInv'
  OBVIOUS
<1>1. ASSUME NEW r \in Reqs, NEW s \in Sids, Login(r, s)
      PROVE  SessionInv'
  BY <1>1, LoginKeeps
<1>2. ASSUME NEW r \in Reqs, NEW s \in Sids, PeekLoginChallenge(r, s)
      PROVE  SessionInv'
  BY <1>2, PeekQuiet, QuietKeeps
<1>3. ASSUME NEW r \in Reqs, RefuseChallenge(r) \/ RefuseRotation(r)
      PROVE  SessionInv'
  BY <1>3, RefuseQuiet, QuietKeeps
<1>4. ASSUME NEW r \in Reqs, TakeLoginChallenge(r)
      PROVE  SessionInv'
  BY <1>4, TakeKeeps
<1>5. ASSUME NEW r \in Reqs, RecordSessionMeta(r)
      PROVE  SessionInv'
  BY <1>5, RecordKeeps
<1>6. ASSUME NEW r \in Reqs, NEW k \in Jtis, BindSession(r, k)
      PROVE  SessionInv'
  BY <1>6, BindKeeps
<1>7. ASSUME NEW r \in Reqs, NEW k \in Jtis, RotateSession(r, k)
      PROVE  SessionInv'
  BY <1>7, RotateKeeps
<1>8. ASSUME NEW r \in Reqs, NEW j \in Jtis, PrepareRefresh(r, j)
      PROVE  SessionInv'
  BY <1>8, PrepareKeeps
<1>9. ASSUME NEW r \in Reqs, NEW j \in Jtis, BeginCsrf(r, j) \/ BeginRevokeByJti(r, j)
      PROVE  SessionInv'
  BY <1>9, BeginQuiet, QuietKeeps
<1>10. ASSUME NEW r \in Reqs, CheckSession(r)
       PROVE  SessionInv'
  BY <1>10, CheckSessionQuiet, QuietKeeps
<1>11. ASSUME NEW r \in Reqs, SetCsrfToken(r)
       PROVE  SessionInv'
  BY <1>11, SetCsrfQuiet, QuietKeeps
<1>12. ASSUME NEW j \in Jtis, RevokeSession(j)
       PROVE  SessionInv'
  BY <1>12, RevokeSessionKeeps
<1>13. ASSUME KeyExpires \/ \E j \in Jtis : PairExpires(j)
       PROVE  SessionInv'
  BY <1>13, ExpiryQuiet, QuietKeeps
<1>14. ASSUME NEW r \in Reqs, BeginRevokeToken(r)
       PROVE  SessionInv'
  BY <1>14, BeginRevokeKeeps
<1>15. ASSUME NEW r \in Reqs, ScanKeys(r)
       PROVE  SessionInv'
  BY <1>15, ScanKeeps
<1>16. ASSUME NEW r \in Reqs, NEW D \in SUBSET (Sids \cup Jtis), DeleteKeys(r, D)
       PROVE  SessionInv'
  BY <1>16, DeleteKeeps
<1>17. ASSUME NEW r \in Reqs, PassFails(r) \/ GiveUp(r)
       PROVE  SessionInv'
  BY <1>17, AbandonQuiet, QuietKeeps
<1>18. ASSUME NEW r \in Reqs, RevokeByJti(r)
       PROVE  SessionInv'
  BY <1>18, RevokeByJtiQuiet, QuietKeeps
<1>19. ASSUME NEW s \in Sids, ChallengeExpires(s)
       PROVE  SessionInv'
  BY <1>19, ChallengeExpiresQuiet, QuietKeeps
<1>20. ASSUME UNCHANGED zvars
       PROVE  SessionInv'
  <2>1. SessionTypeOK'
    BY <1>20 DEF SessionInv, SessionTypeOK, zvars
  <2>2. Quiet
    BY <1>20 DEF Quiet, Shrinks, NoNewLogin, NoNewRefresh, KeepsPromises, SessionInv, LoginsApart, zvars
  <2> QED
    BY <2>1, <2>2, QuietKeeps
<1> QED
  BY <1>1, <1>2, <1>3, <1>4, <1>5, <1>6, <1>7, <1>8, <1>9, <1>10, <1>11, <1>12, <1>13, <1>14, <1>15,
     <1>16, <1>17, <1>18, <1>19, <1>20 DEF SessionNext

(* The invariant of keys and requests, for any number of sessions, pairs   *)
(* and requests, and any failures and expiries.                            *)
THEOREM SessionInvariant == SessionSpec => []SessionInv
BY SessionStarts, SessionStep, PTL DEF SessionSpec

(* An open session has the keys of one pair only, the current one.         *)
THEOREM SessionsHaveOnePair == SessionSpec => []OnePair
<1>1. SessionInv => OnePair
  BY DEF SessionInv
<1> QED
  BY <1>1, SessionInvariant, PTL

(* No key of a replaced pair exists again.                                 *)
THEOREM ReplacedPairsGone == SessionSpec => []ReplacedIsGone
<1>1. SessionInv => ReplacedIsGone
  BY DEF SessionInv
<1> QED
  BY <1>1, SessionInvariant, PTL

(* At most one refresh of a pair commits.                                  *)
THEOREM RefreshedOnce == SessionSpec => []OneSuccessor
<1>1. SessionInv => OneSuccessor
  BY DEF SessionInv
<1> QED
  BY <1>1, SessionInvariant, PTL

(* A logout is final, whatever was under way.                              *)
THEOREM LogoutIsFinal == SessionSpec => []NoRevival
<1>1. SessionInv => NoRevival
  BY DEF SessionInv
<1> QED
  BY <1>1, SessionInvariant, PTL

(* A revocation that succeeds has removed what was there at its start.     *)
THEOREM RevocationReaches == SessionSpec => []RevokedIsGone
<1>1. SessionInv => RevokedIsGone
  BY DEF SessionInv
<1> QED
  BY <1>1, SessionInvariant, PTL

(* No proof is replaced by another one.                                    *)
THEOREM ProofsStand == SessionSpec => ProofStands
<1> DEFINE Stands == \A x \in Sids \cup Jtis : proof[x] # None => proof'[x] \in {None, proof[x]}
<1>1. ASSUME SessionTypeOK, SessionNext
      PROVE  Stands
  <2>1. ASSUME NEW r \in Reqs, SetCsrfToken(r)
        PROVE  Stands
    BY <1>1, <2>1 DEF SetCsrfToken, ProofAfterSetNX, SessionTypeOK
  <2>2. ASSUME NEW j \in Jtis, RevokeSession(j)
        PROVE  Stands
    BY <1>1, <2>2 DEF RevokeSession, SessionTypeOK
  <2>3. ASSUME NEW p, NEW D, Delete(p, D)
        PROVE  Stands
    BY <2>3 DEF Delete
  <2>4. ASSUME KeyExpires
        PROVE  Stands
    BY <1>1, <2>4 DEF KeyExpires, Stored, SessionTypeOK
  <2>5. ASSUME UNCHANGED proof
        PROVE  Stands
    BY <2>5
  <2> HIDE DEF Stands
  <2> QED
    BY <1>1, <2>1, <2>2, <2>3, <2>4, <2>5
    DEF SessionNext, Login, PeekLoginChallenge, RefuseChallenge, TakeLoginChallenge, RecordSessionMeta,
        BindSession, RotateSession, PrepareRefresh, BeginCsrf, BeginRevokeByJti, RefuseRotation, CheckSession,
        PairExpires, BeginRevokeToken, ScanKeys, PassFails, DeleteKeys, RevokeByJti, GiveUp, ChallengeExpires, store
<1>2. SessionInv => SessionTypeOK
  BY DEF SessionInv
<1>3. SessionInv /\ [SessionNext]_zvars => [Stands]_zvars
  BY <1>1, <1>2
<1> QED
  BY <1>3, SessionInvariant, PTL DEF SessionSpec, ProofStands

-----------------------------------------------------------------------------
(* The refinement.  A step by which pointers at most go ends sessions.     *)
LEMMA PointersGo ==
  ASSUME SessionInv, owner' = owner, \A s \in Sids : ptr'[s] \in {None, ptr[s]},
         ptr' \in [Sids -> Jtis \cup {None}]
  PROVE  Life!LifeNext
<1> DEFINE S == {s \in Sids : ptr[s] # None /\ ptr'[s] = None}
<1>0. SessionTypeOK
  BY DEF SessionInv
<1>1. \A s \in S : life[s] = "open"
  BY DEF life
<1>2. \A s \in S : \E j \in Jtis : owner[j] = s
  BY <1>0 DEF SessionInv, PointersOwned, SessionTypeOK
<1>3. life' = [s \in Sids |-> IF s \in S THEN "over" ELSE life[s]]
  BY <1>2 DEF life
<1>4. ptr' = [s \in Sids |-> IF s \in S THEN None ELSE ptr[s]]
  BY <1>0
<1>5. spent' = spent \cup {ptr[s] : s \in S}
  <2>1. ASSUME NEW j \in Jtis
        PROVE  j \in spent' <=> j \in spent \cup {ptr[s] : s \in S}
    <3>1. \A s \in Sids : ptr[s] = j => owner[j] = s
      BY SessionAssumption DEF SessionInv, PointersOwned
    <3>2. Issued(j) => owner[j] \in Sids
      BY <1>0 DEF Issued, SessionTypeOK
    <3>3. j \in {ptr[s] : s \in S} <=> Issued(j) /\ ptr[owner[j]] = j /\ ptr'[owner[j]] = None
      BY <3>1, <3>2, SessionAssumption DEF Issued
    <3>4. j \in spent' <=> Issued(j) /\ ptr'[owner[j]] # j
      BY DEF spent, Issued
    <3>5. j \in spent <=> Issued(j) /\ ptr[owner[j]] # j
      BY DEF spent
    <3> QED
      BY <3>2, <3>3, <3>4, <3>5, SessionAssumption
  <2>2. spent \subseteq Jtis /\ spent' \subseteq Jtis
    BY DEF spent
  <2>3. {ptr[s] : s \in S} \subseteq Jtis
    BY <1>0 DEF SessionTypeOK
  <2> HIDE DEF S
  <2> QED
    BY <2>1, <2>2, <2>3
<1>6. Life!End(S)
  BY <1>1, <1>3, <1>4, <1>5 DEF Life!End
<1>7. S \in SUBSET Sids
  OBVIOUS
<1> HIDE DEF S
<1> QED
  BY <1>6, <1>7 DEF Life!LifeNext

(* A login opens, by an id that was never current.                         *)
LEMMA BindOpens ==
  ASSUME SessionInv, NEW r \in Reqs, NEW k \in Jtis, BindSession(r, k)
  PROVE  Life!LifeNext
<1>1. PICK s \in Sids : s = req[r].sid
  BY DEF SessionInv, LoginsApart, BindSession, On
<1>2. SessionTypeOK /\ On(r, "bind") /\ ~Issued(k) /\ owner' = [owner EXCEPT ![k] = s] /\ ptr' = [ptr EXCEPT ![s] = k]
  BY <1>1 DEF SessionInv, BindSession
<1>3. owner[k] = None /\ \A x \in Sids : ptr[x] # k
  BY <1>2, Fresh
<1>4. \A j \in Jtis : owner[j] # s
  BY <1>1, <1>2 DEF SessionInv, LoginsApart, HasIds
<1>5. ptr[s] = None
  BY <1>2, <1>4 DEF SessionInv, PointersOwned, SessionTypeOK
<1>6. /\ ptr'[s] = k /\ \A x \in Sids : x # s => ptr'[x] = ptr[x]
      /\ owner'[k] = s /\ \A j \in Jtis : j # k => owner'[j] = owner[j]
  BY <1>2 DEF SessionTypeOK
<1>7. life[s] = "new" /\ k \notin spent
  BY <1>2, <1>4, <1>5 DEF life, spent
<1>8. life' = [life EXCEPT ![s] = "open"]
  <2>1. ASSUME NEW x \in Sids, x # s
        PROVE  (\E j \in Jtis : owner'[j] = x) <=> (\E j \in Jtis : owner[j] = x)
    <3>1. \A j \in Jtis : owner'[j] = x <=> owner[j] = x
      BY <1>3, <1>6, <2>1, SessionAssumption
    <3> QED
      BY <3>1
  <2>2. life'[s] = "open"
    BY <1>6, SessionAssumption DEF life
  <2>3. ASSUME NEW x \in Sids, x # s
        PROVE  life'[x] = life[x]
    BY <1>6, <2>1, <2>3 DEF life
  <2>4. life' = [x \in Sids |-> life'[x]] /\ life = [x \in Sids |-> life[x]]
    BY DEF life
  <2> QED
    BY <2>2, <2>3, <2>4
<1>9. spent' = spent
  <2>1. \A j \in Jtis : Issued(j)' /\ ptr'[owner'[j]] # j <=> Issued(j) /\ ptr[owner[j]] # j
    <3> SUFFICES ASSUME NEW j \in Jtis
                 PROVE  owner'[j] # None /\ ptr'[owner'[j]] # j <=> owner[j] # None /\ ptr[owner[j]] # j
      BY DEF Issued
    <3>1. CASE j = k
      BY <1>3, <1>6, <3>1
    <3>2. CASE j # k
      <4>1. owner'[j] = owner[j] /\ owner[j] # s /\ owner[j] \in Sids \cup {None}
        BY <1>2, <1>4, <1>6, <3>2 DEF SessionTypeOK
      <4> QED
        BY <1>6, <4>1
    <3> QED
      BY <3>1, <3>2
  <2> QED
    BY <2>1 DEF spent
<1>10. Life!Open(s, k)
  BY <1>2, <1>3, <1>7, <1>8, <1>9 DEF Life!Open, Life!Unused
<1> QED
  BY <1>10 DEF Life!LifeNext

(* A refresh renews, by an id that was never current.                      *)
LEMMA RotateRenews ==
  ASSUME SessionInv, NEW r \in Reqs, NEW k \in Jtis, RotateSession(r, k)
  PROVE  Life!LifeNext
<1>1. PICK s \in Sids, j \in Jtis : s = req[r].sid /\ j = req[r].jti /\ owner[j] = s
  BY DEF SessionInv, LoginsApart, RefreshesOwned, RotateSession, On
<1>2. /\ SessionTypeOK /\ ~Issued(k) /\ ptr[s] = j
      /\ owner' = [owner EXCEPT ![k] = s] /\ ptr' = [ptr EXCEPT ![s] = k]
  BY <1>1 DEF SessionInv, RotateSession, StillCurrent
<1>3. owner[k] = None /\ \A x \in Sids : ptr[x] # k
  BY <1>2, Fresh
<1>4. j # None /\ j # k /\ s # None
  BY <1>1, <1>3, SessionAssumption
<1>5. /\ ptr'[s] = k /\ \A x \in Sids : x # s => ptr'[x] = ptr[x]
      /\ owner'[k] = s /\ \A x \in Jtis : x # k => owner'[x] = owner[x]
  BY <1>2 DEF SessionTypeOK
<1>6. life[s] = "open" /\ k \notin spent
  BY <1>2, <1>4 DEF life, spent
<1>7. life' = life
  <2>1. \A x \in Sids : (\E y \in Jtis : owner'[y] = x) <=> (\E y \in Jtis : owner[y] = x)
    BY <1>1, <1>3, <1>4, <1>5, SessionAssumption
  <2>2. \A x \in Sids : ptr'[x] # None <=> ptr[x] # None
    BY <1>2, <1>4, <1>5, SessionAssumption
  <2> QED
    BY <2>1, <2>2 DEF life
<1>8. spent' = spent \cup {ptr[s]}
  <2>1. ASSUME NEW x \in Jtis
        PROVE  owner'[x] # None /\ ptr'[owner'[x]] # x <=> (owner[x] # None /\ ptr[owner[x]] # x) \/ x = j
    <3>1. CASE x = k
      BY <1>3, <1>4, <1>5, <3>1
    <3>2. CASE x = j
      BY <1>1, <1>2, <1>4, <1>5, <3>2
    <3>3. CASE x # k /\ x # j
      <4>1. owner'[x] = owner[x] /\ owner[x] \in Sids \cup {None}
        BY <1>2, <1>5, <3>3 DEF SessionTypeOK
      <4>2. CASE owner[x] = s
        BY <1>2, <1>5, <3>3, <4>1, <4>2
      <4>3. CASE owner[x] # s
        BY <1>5, <3>3, <4>1, <4>3
      <4> QED
        BY <4>2, <4>3
    <3> QED
      BY <3>1, <3>2, <3>3
  <2> QED
    BY <1>1, <1>2, <2>1 DEF spent, Issued
<1>9. Life!Renew(s, k)
  BY <1>2, <1>3, <1>6, <1>7, <1>8 DEF Life!Renew, Life!Unused
<1> QED
  BY <1>9 DEF Life!LifeNext

(* The keys of the cache keep the promise of a logical session.            *)
THEOREM SessionsImplementLife == SessionSpec => ImplementsLife
<1>1. SessionInit => Life!LifeInit
  BY SessionAssumption DEF SessionInit, Life!LifeInit, life, spent, Issued
<1>2. ASSUME SessionInv, SessionNext
      PROVE  Life!LifeNext
  <2>1. SessionTypeOK /\ (SessionTypeOK => \A p, D : Delete(p, D) =>
          /\ \A s \in Sids : ptr'[s] \in {None, ptr[s]}
          /\ ptr' \in [Sids -> Jtis \cup {None}])
    BY <1>2, DeleteShrinks DEF SessionInv
  <2>2. ASSUME NEW r \in Reqs, NEW k \in Jtis, BindSession(r, k) \/ RotateSession(r, k)
        PROVE  Life!LifeNext
    BY <1>2, <2>2, BindOpens, RotateRenews
  <2>3. ASSUME UNCHANGED <<ptr, owner>>
        PROVE  Life!LifeNext
    BY <1>2, <2>1, <2>3, PointersGo DEF SessionTypeOK
  <2>4. ASSUME NEW p, NEW D, Delete(p, D), owner' = owner
        PROVE  Life!LifeNext
    BY <1>2, <2>1, <2>4, PointersGo
  <2>5. ASSUME NEW j \in Jtis, RevokeSession(j) \/ PairExpires(j)
        PROVE  Life!LifeNext
    <3>1. /\ owner' = owner /\ \A s \in Sids : ptr'[s] \in {None, ptr[s]}
          /\ ptr' \in [Sids -> Jtis \cup {None}]
      BY <2>1, <2>5 DEF RevokeSession, PairExpires, SessionTypeOK
    <3> QED
      BY <1>2, <3>1, PointersGo
  <2> QED
    BY <1>2, <2>2, <2>3, <2>4, <2>5
    DEF SessionNext, Login, PeekLoginChallenge, RefuseChallenge, TakeLoginChallenge, RecordSessionMeta,
        SetCsrfToken, KeyExpires, PrepareRefresh, BeginCsrf, BeginRevokeByJti, RefuseRotation, CheckSession,
        BeginRevokeToken, ScanKeys, PassFails, DeleteKeys, RevokeByJti, GiveUp, ChallengeExpires, store
<1>3. UNCHANGED zvars => UNCHANGED <<life, ptr, spent>>
  BY DEF zvars, life, spent, Issued
<1>4. SessionInv /\ [SessionNext]_zvars => [Life!LifeNext]_<<life, ptr, spent>>
  BY <1>2, <1>3
<1> QED
  BY <1>1, <1>4, SessionInvariant, PTL DEF SessionSpec, ImplementsLife, Life!LifeSpec, Life!lvars
=============================================================================
