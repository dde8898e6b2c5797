--------------------------- MODULE SessionTokens ---------------------------
(***************************************************************************)
(* The logical sessions of one user and client type in Redis: the token    *)
(* pair and the session record of a token id (keys at, rt, us), the        *)
(* pointer of a session to its current token id (sid) and its CSRF proof   *)
(* (csr).  A login, with or without a second factor, binds a session;      *)
(* refreshes replace its pair in two phases; logout ends one session,      *)
(* a password change or a disabled account all of them in five passes,     *)
(* and an online session can be taken down by its token id.  Every Redis   *)
(* command, transaction or script is one action, so that requests          *)
(* interleave between any two of them.                                     *)
(***************************************************************************)
EXTENDS Naturals

CONSTANTS
  Sids,     \* ids of logical sessions
  Jtis,     \* ids of token pairs
  Reqs,     \* requests that may be under way at the same time
  None,
  MaxFaults \* bound on failing calls, requests cut short and keys that expire

ASSUME SessionAssumption ==
  /\ MaxFaults \in Nat
  /\ None \notin Sids \cup Jtis \cup Reqs
  /\ Sids \cap Jtis = {}

VARIABLES
  at, rt, us,   \* ids with an access token, a refresh token, a session record
  ptr,          \* session -> the id its pointer holds
  proof,        \* key suffix -> the request whose CSRF proof is stored there
  challenge,    \* session -> "new", "open" or "gone": its login challenge
  owner,        \* id -> the session signed into its tokens
  given,        \* ids whose unexpired refresh token a client was given
  req,          \* request -> what it is about to do
  promised,     \* request -> what a revocation will have removed if no pass fails
  faults,       \* how many faults there were
  parent,       \* id -> the id it replaced (history)
  loggedOut,    \* sessions ended by a logout (history)
  revoked       \* what revocations that succeeded have removed (history)

store == <<at, rt, us, ptr, proof>>
history == <<parent, loggedOut, revoked>>
log == <<faults, history>>
zvars == <<at, rt, us, ptr, proof, challenge, owner, given, req, promised, faults, parent, loggedOut, revoked>>

Task(step, s, j, p) == [step |-> step, sid |-> s, jti |-> j, pass |-> p, keys |-> {}]
Idle  == Task("idle", None, None, 0)
Steps == {"idle", "verify", "bind", "meta", "commit", "csrf", "setnx", "scan", "del", "kick"}

SessionTypeOK ==
  /\ at \subseteq Jtis /\ rt \subseteq Jtis /\ us \subseteq Jtis
  /\ ptr \in [Sids -> Jtis \cup {None}]
  /\ proof \in [Sids \cup Jtis -> Reqs \cup {None}]
  /\ challenge \in [Sids -> {"new", "open", "gone"}]
  /\ owner \in [Jtis -> Sids \cup {None}]
  /\ given \subseteq Jtis
  /\ req \in [Reqs -> [step : Steps, sid : Sids \cup {None}, jti : Jtis \cup {None},
                       pass : 0 .. 5, keys : SUBSET (Sids \cup Jtis)]]
  /\ promised \in [Reqs -> SUBSET (Sids \cup Jtis)]
  /\ faults \in 0 .. MaxFaults
  /\ parent \in [Jtis -> Jtis \cup {None}]
  /\ loggedOut \subseteq Sids
  /\ revoked \subseteq Sids \cup Jtis

SessionInit ==
  /\ at = {} /\ rt = {} /\ us = {}
  /\ ptr = [s \in Sids |-> None]
  /\ proof = [x \in Sids \cup Jtis |-> None]
  /\ challenge = [s \in Sids |-> "new"]
  /\ owner = [j \in Jtis |-> None]
  /\ given = {}
  /\ req = [r \in Reqs |-> Idle]
  /\ promised = [r \in Reqs |-> {}]
  /\ faults = 0
  /\ parent = [j \in Jtis |-> None]
  /\ loggedOut = {}
  /\ revoked = {}

On(r, step)      == req[r].step = step
Finish(r)        == req' = [req EXCEPT ![r] = Idle]
Begin(r, step, s, j) ==
  /\ On(r, "idle")
  /\ req' = [req EXCEPT ![r] = Task(step, s, j, 0)]
Issued(j) == owner[j] # None
Fault == faults < MaxFaults /\ faults' = faults + 1

-----------------------------------------------------------------------------
(* Login.  doGrantTypePassword has checked the credentials and makes a new *)
(* session id; a user with a second factor gets a challenge first.         *)
Login(r, s) ==
  /\ challenge[s] = "new"
  /\ \/ /\ Begin(r, "bind", s, None)
        /\ challenge' = [challenge EXCEPT ![s] = "gone"]
     \/ /\ On(r, "idle")
        /\ challenge' = [challenge EXCEPT ![s] = "open"]
        /\ UNCHANGED req
  /\ UNCHANGED <<store, owner, given, promised, log>>

(* VerifyMFAChallenge reads the challenge and leaves it in place.          *)
PeekLoginChallenge(r, s) ==
  /\ challenge[s] = "open"
  /\ Begin(r, "verify", s, None)
  /\ UNCHANGED <<store, challenge, owner, given, promised, log>>

Spend(s) == challenge' = [challenge EXCEPT ![s] = "gone"]

(* A wrong code, which spends the challenge at the third failure, or no    *)
(* factor any more, which spends it at once.                               *)
RefuseChallenge(r) ==
  /\ On(r, "verify")
  /\ Spend(req[r].sid) \/ UNCHANGED challenge
  /\ Finish(r)
  /\ UNCHANGED <<store, owner, given, promised, log>>

(* (mutant: the challenge is deleted, but nobody looks whether it existed) *)
TakenUnseen(s) == TRUE

(* takeAndDelScript: the one that finds the challenge goes on.             *)
Taken(s) == challenge[s] = "open"

TakeLoginChallenge(r) ==
  /\ On(r, "verify")
  /\ Spend(req[r].sid)
  /\ IF Taken(req[r].sid) THEN req' = [req EXCEPT ![r].step = "bind"] ELSE Finish(r)
  /\ UNCHANGED <<store, owner, given, promised, log>>

ChallengeExpires(s) ==
  /\ challenge[s] = "open"
  /\ Spend(s)
  /\ UNCHANGED <<store, owner, given, req, promised, log>>

(* BindSessionAndStore: pair and pointer in one transaction.               *)
BindSession(r, k) ==
  LET s == req[r].sid IN
  /\ On(r, "bind")
  /\ ~Issued(k)
  /\ owner' = [owner EXCEPT ![k] = s]
  /\ at' = at \cup {k} /\ rt' = rt \cup {k}
  /\ ptr' = [ptr EXCEPT ![s] = k]
  /\ req' = [req EXCEPT ![r].step = "meta", ![r].jti = k]
  /\ UNCHANGED <<us, proof, challenge, given, promised, log>>

(* recordSessionMeta, whose failure is only logged, and the answer, which  *)
(* may not arrive.                                                         *)
RecordSessionMeta(r) ==
  LET k == req[r].jti IN
  /\ On(r, "meta")
  /\ us' \in {us, us \cup {k}}
  /\ given' \in {given, given \cup {k}}
  /\ Finish(r)
  /\ UNCHANGED <<at, rt, ptr, proof, challenge, owner, promised, log>>

-----------------------------------------------------------------------------
(* Refresh.  The token verifies by its signature alone and the proof is    *)
(* compared; then users, permissions and a new pair are prepared without   *)
(* a write.                                                                *)
PrepareRefresh(r, j) ==
  /\ j \in given
  /\ proof[owner[j]] # None
  /\ Begin(r, "commit", owner[j], j)
  /\ UNCHANGED <<store, challenge, owner, given, promised, log>>

(* (mutants: any pointer will do; a missing pointer will do)               *)
AnyPointer(s, j)     == ptr[s] # None
MissingPointer(s, j) == ptr[s] \in {j, None}

(* The comparison of rotateSessionScript.                                  *)
StillCurrent(s, j) == ptr[s] = j

Replaced(keys, j, k) == (keys \ {j}) \cup {k}

RotateSession(r, k) ==
  LET s == req[r].sid  j == req[r].jti IN
  /\ On(r, "commit")
  /\ StillCurrent(s, j)
  /\ ~Issued(k)
  /\ owner' = [owner EXCEPT ![k] = s]
  /\ at' = Replaced(at, j, k)
  /\ rt' = Replaced(rt, j, k)
  /\ us' = Replaced(us, j, k)
  /\ ptr' = [ptr EXCEPT ![s] = k]
  /\ parent' = [parent EXCEPT ![k] = j]
  /\ given' \in {given, given \cup {k}}
  /\ Finish(r)
  /\ UNCHANGED <<proof, challenge, promised, faults, loggedOut, revoked>>

(* The session is over or was renewed by another request.                  *)
RefuseRotation(r) ==
  /\ On(r, "commit")
  /\ ~StillCurrent(req[r].sid, req[r].jti)
  /\ Finish(r)
  /\ UNCHANGED <<store, challenge, owner, given, promised, log>>

-----------------------------------------------------------------------------
(* The CSRF endpoint: a stored proof is returned; otherwise SetCsrfToken   *)
(* asks for the session and then writes unless a proof has appeared.       *)
BeginCsrf(r, j) ==
  /\ j \in given
  /\ proof[owner[j]] = None
  /\ Begin(r, "csrf", owner[j], j)
  /\ UNCHANGED <<store, challenge, owner, given, promised, log>>

CheckSession(r) ==
  /\ On(r, "csrf")
  /\ IF ptr[req[r].sid] = None THEN Finish(r) ELSE req' = [req EXCEPT ![r].step = "setnx"]
  /\ UNCHANGED <<store, challenge, owner, given, promised, log>>

(* (mutant: SET in place of SETNX)                                         *)
ProofSet(s, r) == r

ProofAfterSetNX(s, r) == IF proof[s] = None THEN r ELSE proof[s]

SetCsrfToken(r) ==
  LET s == req[r].sid IN
  /\ On(r, "setnx")
  /\ proof' = [proof EXCEPT ![s] = ProofAfterSetNX(s, r)]
  /\ Finish(r)
  /\ UNCHANGED <<at, rt, us, ptr, challenge, owner, given, promised, log>>

-----------------------------------------------------------------------------
(* Logout with the refresh token of any pair of the session: one script.   *)
(* The key of the proof is made of the token id the pointer holds, as the  *)
(* script does it (proofs are stored under the session id).                *)
RevokeSession(j) ==
  LET s == owner[j]  cur == ptr[s] IN
  /\ j \in given
  /\ cur # None
  /\ ptr' = [ptr EXCEPT ![s] = None]
  /\ at' = at \ {cur} /\ rt' = rt \ {cur} /\ us' = us \ {cur}
  /\ proof' = [proof EXCEPT ![cur] = None]
  /\ loggedOut' = loggedOut \cup {s}
  /\ UNCHANGED <<challenge, owner, given, req, promised, faults, parent, revoked>>

-----------------------------------------------------------------------------
(* The families of keys in the order RevokeToken goes through them.        *)
Stored(p) ==
  CASE p = 1 -> at
    [] p = 2 -> rt
    [] p = 3 -> us
    [] p = 4 -> {s \in Sids : ptr[s] # None}
    [] OTHER -> {x \in Sids \cup Jtis : proof[x] # None}

(* (mutant: the pointers of the sessions stay)                             *)
DeletePairsOnly(p, D) ==
  /\ at' = IF p = 1 THEN at \ D ELSE at
  /\ rt' = IF p = 2 THEN rt \ D ELSE rt
  /\ us' = IF p = 3 THEN us \ D ELSE us
  /\ ptr' = ptr
  /\ proof' = [x \in Sids \cup Jtis |-> IF p = 5 /\ x \in D THEN None ELSE proof[x]]

Delete(p, D) ==
  /\ at' = IF p = 1 THEN at \ D ELSE at
  /\ rt' = IF p = 2 THEN rt \ D ELSE rt
  /\ us' = IF p = 3 THEN us \ D ELSE us
  /\ ptr' = [s \in Sids |-> IF p = 4 /\ s \in D THEN None ELSE ptr[s]]
  /\ proof' = [x \in Sids \cup Jtis |-> IF p = 5 /\ x \in D THEN None ELSE proof[x]]

(* RevokeToken: all sessions of the user.  What is stored when it begins   *)
(* is what its success promises to be gone.                                *)
BeginRevokeToken(r) ==
  /\ On(r, "idle")
  /\ req' = [req EXCEPT ![r] = Task("scan", None, None, 1)]
  /\ promised' = [promised EXCEPT ![r] = at \cup rt \cup {s \in Sids : ptr[s] # None}]
  /\ UNCHANGED <<store, challenge, owner, given, log>>

(* SCAN begins: every key there now will be listed.                        *)
ScanKeys(r) ==
  /\ On(r, "scan")
  /\ req' = [req EXCEPT ![r].step = "del", ![r].keys = Stored(req[r].pass)]
  /\ UNCHANGED <<store, challenge, owner, given, promised, log>>

EndPass(r) ==
  /\ req' = [req EXCEPT ![r] = IF req[r].pass = 5 THEN Idle
                               ELSE Task("scan", None, None, req[r].pass + 1)]

(* DEL of the keys listed: those there from the beginning of the scan and  *)
(* any that were added while it went on.                                   *)
DeleteKeys(r, D) ==
  LET p == req[r].pass IN
  /\ On(r, "del")
  /\ D \subseteq Stored(p)
  /\ req[r].keys \cap Stored(p) \subseteq D
  /\ Delete(p, D)
  /\ EndPass(r)
  /\ revoked' = IF p = 5 THEN revoked \cup promised[r] ELSE revoked
  /\ promised' = IF p = 5 THEN [promised EXCEPT ![r] = {}] ELSE promised
  /\ UNCHANGED <<challenge, owner, given, faults, parent, loggedOut>>

(* A pass fails and the next is tried; the call will return an error.      *)
PassFails(r) ==
  /\ On(r, "scan") \/ On(r, "del")
  /\ Fault
  /\ EndPass(r)
  /\ promised' = [promised EXCEPT ![r] = {}]
  /\ UNCHANGED <<store, challenge, owner, given, history>>

(* RevokeTokenByJti: an online session is taken down by a token id, listed *)
(* or not, in three calls, each tried whatever the others return.          *)
BeginRevokeByJti(r, j) ==
  /\ On(r, "idle")
  /\ Issued(j)
  /\ req' = [req EXCEPT ![r] = Task("kick", None, j, 1)]
  /\ UNCHANGED <<store, challenge, owner, given, promised, log>>

RevokeByJti(r) ==
  LET p == req[r].pass IN
  /\ On(r, "kick")
  /\ \/ Delete(p, {req[r].jti}) /\ UNCHANGED faults
     \/ Fault /\ UNCHANGED store
  /\ req' = [req EXCEPT ![r] = IF p < 3 THEN [req[r] EXCEPT !.pass = p + 1] ELSE Idle]
  /\ UNCHANGED <<challenge, owner, given, promised, history>>

-----------------------------------------------------------------------------
(* A request ends early, at any step: a lookup fails, Redis answers with   *)
(* an error or does not answer, the client is gone, the process stops.     *)
GiveUp(r) ==
  /\ ~On(r, "idle")
  /\ Fault
  /\ Finish(r)
  /\ promised' = [promised EXCEPT ![r] = {}]
  /\ UNCHANGED <<store, challenge, owner, given, history>>

(* Time to live.  The refresh token, its key and the pointer were written  *)
(* with one lifetime; the others end on their own.                         *)
PairExpires(j) ==
  /\ Issued(j)
  /\ j \in rt \cup given \/ ptr[owner[j]] = j
  /\ Fault
  /\ given' = given \ {j} /\ rt' = rt \ {j}
  /\ ptr' = [s \in Sids |-> IF ptr[s] = j THEN None ELSE ptr[s]]
  /\ UNCHANGED <<at, us, proof, challenge, owner, req, promised, history>>

KeyExpires ==
  /\ \/ \E j \in at : at' = at \ {j} /\ UNCHANGED <<us, proof>>
     \/ \E j \in us : us' = us \ {j} /\ UNCHANGED <<at, proof>>
     \/ \E x \in Stored(5) : proof' = [proof EXCEPT ![x] = None] /\ UNCHANGED <<at, us>>
  /\ Fault
  /\ UNCHANGED <<rt, ptr, challenge, owner, given, req, promised, history>>

-----------------------------------------------------------------------------
SessionNext ==
  \/ \E r \in Reqs, s \in Sids : Login(r, s) \/ PeekLoginChallenge(r, s)
  \/ \E r \in Reqs : RefuseChallenge(r) \/ TakeLoginChallenge(r) \/ RecordSessionMeta(r)
  \/ \E r \in Reqs, k \in Jtis : BindSession(r, k) \/ RotateSession(r, k)
  \/ \E r \in Reqs, j \in Jtis : PrepareRefresh(r, j) \/ BeginCsrf(r, j) \/ BeginRevokeByJti(r, j)
  \/ \E r \in Reqs : RefuseRotation(r) \/ CheckSession(r) \/ SetCsrfToken(r)
  \/ \E j \in Jtis : RevokeSession(j) \/ PairExpires(j)
  \/ \E r \in Reqs : BeginRevokeToken(r) \/ ScanKeys(r) \/ PassFails(r)
  \/ \E r \in Reqs : \E D \in SUBSET (Sids \cup Jtis) : DeleteKeys(r, D)
  \/ \E r \in Reqs : RevokeByJti(r) \/ GiveUp(r)
  \/ \E s \in Sids : ChallengeExpires(s)
  \/ KeyExpires

SessionSpec == SessionInit /\ [][SessionNext]_zvars

-----------------------------------------------------------------------------
OfSession(s) == {j \in at \cup rt \cup us : owner[j] = s}

(* While a session is open, the only keys of it are those of the pair its  *)
(* pointer names: of two logins through one challenge, and of all          *)
(* refreshes, logouts and revocations under way, none leaves a second pair.*)
OnePair == \A s \in Sids : ptr[s] # None => OfSession(s) \subseteq {ptr[s]}

(* A pair that was replaced is gone for good, its record included: no      *)
(* command that was under way at the rotation writes it again.             *)
ReplacedIsGone == \A k \in Jtis : parent[k] # None => parent[k] \notin at \cup rt \cup us

(* Of several refreshes prepared from one pair at most one commits.        *)
OneSuccessor == \A k, l \in Jtis : parent[k] # None /\ parent[k] = parent[l] => k = l

(* After a logout no pair, record or pointer of the session is left or     *)
(* comes back, whatever refreshes, logins and revocations were prepared    *)
(* before it.  Its CSRF proof is another matter (LogoutTakesProof).        *)
NoRevival == \A s \in loggedOut : ptr[s] = None /\ OfSession(s) = {}

(* What a revocation of all tokens that reports success found at its start *)
(* is gone: no access or refresh token and no pointer of then is back,     *)
(* however its passes interleaved with refreshes, logins and logouts.      *)
RevokedIsGone ==
  /\ revoked \cap (at \cup rt) = {}
  /\ \A s \in Sids : s \in revoked => ptr[s] = None

(* A stored proof is only ever removed: of two tabs that ask for one at    *)
(* the same time neither replaces the other's.                             *)
ProofStands ==
  [][\A x \in Sids \cup Jtis : proof[x] # None => proof'[x] \in {None, proof[x]}]_zvars

(* The promise of the token cache, kept by its keys.                       *)
life == [s \in Sids |-> IF ptr[s] # None THEN "open"
                        ELSE IF \E j \in Jtis : owner[j] = s THEN "over" ELSE "new"]
spent == {j \in Jtis : Issued(j) /\ ptr[owner[j]] # j}

Life == INSTANCE SessionLife WITH current <- ptr
ImplementsLife == Life!LifeSpec

(* data/user_token_cache.go:42-45: the proof is removed with its session   *)
(* at logout.                                                              *)
LogoutTakesProof == [][\A s \in Sids : s \in loggedOut' \ loggedOut => proof'[s] = None]_zvars

-----------------------------------------------------------------------------
(* What makes these inductive.  A pointer names an id signed for its       *)
(* session; a session without ids is closed to no one and revoked by none. *)
PointersOwned == \A s \in Sids : ptr[s] # None => owner[ptr[s]] = s
StoredIssued ==
  /\ \A j \in at \cup rt \cup us \cup given : Issued(j)
  /\ \A j \in Jtis : j \in revoked => Issued(j)
  /\ \A r \in Reqs, j \in Jtis : j \in promised[r] => Issued(j)
HasIds(s) == \E j \in Jtis : owner[j] = s
EndedHadIds ==
  /\ \A s \in loggedOut : HasIds(s)
  /\ \A s \in Sids : s \in revoked => HasIds(s)
  /\ \A r \in Reqs, s \in Sids : s \in promised[r] => HasIds(s)

(* A login that binds is the only one of its session, and until it answers *)
(* its pair is the only one and in nobody's hands.                         *)
Entering(s) == {r \in Reqs : req[r].step \in {"bind", "meta"} /\ req[r].sid = s}
LoginsApart ==
  /\ \A r \in Reqs : req[r].step \in {"verify", "bind", "meta", "commit"} => req[r].sid \in Sids
  /\ \A s \in Sids : challenge[s] # "gone" => Entering(s) = {} /\ ~HasIds(s)
  /\ \A r, q \in Reqs : \A s \in Sids : r \in Entering(s) /\ q \in Entering(s) => r = q
  /\ \A r \in Reqs : On(r, "bind") => ~HasIds(req[r].sid)
  /\ \A r \in Reqs : On(r, "meta") =>
       /\ req[r].jti \in Jtis \ given
       /\ req[r].sid \notin loggedOut
       /\ \A j \in Jtis : owner[j] = req[r].sid <=> j = req[r].jti
       /\ parent[req[r].jti] = None
       /\ \A q \in Reqs : On(q, "commit") => req[q].sid # req[r].sid

(* A refresh holds a pair that was given out.                              *)
RefreshesOwned == \A r \in Reqs : On(r, "commit") => req[r].jti \in Jtis /\ owner[req[r].jti] = req[r].sid

(* A replaced pair belongs to the session of the new one and is not its    *)
(* current pair.                                                           *)
Lineage ==
  \A k \in Jtis : parent[k] # None =>
    /\ owner[parent[k]] = owner[k] /\ owner[k] # None
    /\ ptr[owner[k]] # parent[k]

(* A revocation has removed what it promised from the families it has been *)
(* through, and what is left of it in the present family is on its list.   *)
PassDone(r) ==
  LET p == req[r].pass  X == promised[r] IN
  /\ X # {} => req[r].step \in {"scan", "del"}
  /\ p > 1 => X \cap at = {}
  /\ p > 2 => X \cap rt = {}
  /\ p > 4 => \A s \in X \cap Sids : ptr[s] = None
  /\ On(r, "del") /\ p \in {1, 2, 4} => X \cap Stored(p) \subseteq req[r].keys
PassesDone == \A r \in Reqs : PassDone(r)

SessionInv ==
  /\ SessionTypeOK /\ PointersOwned /\ StoredIssued /\ EndedHadIds
  /\ LoginsApart /\ RefreshesOwned /\ Lineage /\ PassesDone
  /\ OnePair /\ ReplacedIsGone /\ OneSuccessor /\ NoRevival /\ RevokedIsGone
=============================================================================
