---------------------------- MODULE SessionLife ----------------------------
(***************************************************************************)
(* What the token cache promises of a logical session, whatever keys it is *)
(* kept in: it is opened once, has one current pair of tokens at a time,   *)
(* renews it by a pair that was never current before, and once over never  *)
(* resumes.  SessionTokens implements it.                                  *)
(***************************************************************************)
CONSTANTS
  Sids,      \* logical sessions
  Jtis,      \* pairs of an access and a refresh token
  None       \* no pair

VARIABLES
  life,      \* session -> "new", "open" or "over"
  current,   \* session -> its current pair
  spent      \* pairs that were current once and are not any more

lvars == <<life, current, spent>>

LifeInit ==
  /\ life = [s \in Sids |-> "new"]
  /\ current = [s \in Sids |-> None]
  /\ spent = {}

Unused(k) == k \notin spent /\ \A s \in Sids : current[s] # k

Open(s, k) ==
  /\ life[s] = "new"
  /\ Unused(k)
  /\ life' = [life EXCEPT ![s] = "open"]
  /\ current' = [current EXCEPT ![s] = k]
  /\ UNCHANGED spent

Renew(s, k) ==
  /\ life[s] = "open"
  /\ Unused(k)
  /\ current' = [current EXCEPT ![s] = k]
  /\ spent' = spent \cup {current[s]}
  /\ UNCHANGED life

(* One session by logout or expiry, or several of a user at once.          *)
End(S) ==
  /\ \A s \in S : life[s] = "open"
  /\ life' = [s \in Sids |-> IF s \in S THEN "over" ELSE life[s]]
  /\ current' = [s \in Sids |-> IF s \in S THEN None ELSE current[s]]
  /\ spent' = spent \cup {current[s] : s \in S}

LifeNext ==
  \/ \E s \in Sids, k \in Jtis : Open(s, k) \/ Renew(s, k)
  \/ \E S \in SUBSET Sids : End(S)

LifeSpec == LifeInit /\ [][LifeNext]_lvars
=============================================================================
