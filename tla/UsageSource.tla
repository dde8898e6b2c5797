---------------------------- MODULE UsageSource ----------------------------
(***************************************************************************)
(* What the GPU usage projection reads of the quota ledger: the fact that  *)
(* deriveGpuProjection derives from a CREATE row and its charges, and      *)
(* whether a DELETE of it is persisted.  A fact ends at most once, and an  *)
(* ended fact never changes again, not even its reason; the projection     *)
(* relies on it, because a stored revision whose payload differs from the  *)
(* derived one is a conflict that no retry heals.                          *)
(***************************************************************************)
CONSTANTS Creates      \* CREATE operations whose command declares a GPU

VARIABLES
  fact,      \* CREATE -> what is derived from its row and charges
  deleted    \* CREATEs with a persisted DELETE

svars == <<fact, deleted>>

Ended == {"canceled-unsent", "gpu-fully-released"}
Facts == {"absent", "accepted"} \cup Ended

Init ==
  /\ fact = [c \in Creates |-> "absent"]
  /\ deleted = {}

Accept(c) ==
  /\ fact[c] = "absent"
  /\ fact' = [fact EXCEPT ![c] = "accepted"]
  /\ UNCHANGED deleted

PersistDelete(c) ==
  /\ fact[c] # "absent"
  /\ deleted' = deleted \cup {c}
  /\ UNCHANGED fact

(* Canceled on its own, or by a DELETE of the same transaction.            *)
CancelUnsent(c) ==
  /\ fact[c] = "accepted"
  /\ fact' = [fact EXCEPT ![c] = "canceled-unsent"]
  /\ deleted' \in {deleted, deleted \cup {c}}

ReleaseGpu(c) ==
  /\ fact[c] = "accepted"
  /\ fact' = [fact EXCEPT ![c] = "gpu-fully-released"]
  /\ UNCHANGED deleted

Next ==
  \E c \in Creates : Accept(c) \/ PersistDelete(c) \/ CancelUnsent(c) \/ ReleaseGpu(c)

Spec == Init /\ [][Next]_svars
=============================================================================
