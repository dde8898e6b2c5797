-------------------------- MODULE QuotaAccounting --------------------------
(***************************************************************************)
(* What the quota ledger promises about units, without commands, workers,  *)
(* receipts or dispatch states: a CREATE is admitted at most once, as a    *)
(* whole and within some plan; what it holds is given back piece by piece, *)
(* never more than it holds; and nothing else moves an account.            *)
(***************************************************************************)
EXTENDS Integers

CONSTANTS
  Tenants, Codes, Creates,
  TenantOf,    \* [Creates -> Tenants]
  Units,       \* [Creates -> [Codes -> Nat]]
  Plans        \* the quota vectors a plan can be given

VARIABLES
  occupied,    \* tenant -> code -> units
  held,        \* CREATE -> code -> units it holds
  admitted     \* CREATEs admitted so far

avars == <<occupied, held, admitted>>

Init ==
  /\ occupied = [t \in Tenants |-> [q \in Codes |-> 0]]
  /\ held = [c \in Creates |-> [q \in Codes |-> 0]]
  /\ admitted = {}

Admit(c, p) ==
  /\ c \notin admitted
  /\ \A q \in Codes : Units[c][q] > 0 => occupied[TenantOf[c]][q] + Units[c][q] <= p[q]
  /\ occupied' = [occupied EXCEPT ![TenantOf[c]] = [q \in Codes |-> @[q] + Units[c][q]]]
  /\ held' = [held EXCEPT ![c] = Units[c]]
  /\ admitted' = admitted \cup {c}

(* The CREATE keeps part of what it holds and the account gets the rest.   *)
GiveBack(c) ==
  /\ c \in admitted
  /\ \A q \in Codes : held'[c][q] \in 0 .. held[c][q]
  /\ \A other \in Creates \ {c} : held'[other] = held[other]
  /\ occupied' = [occupied EXCEPT ![TenantOf[c]] =
                    [q \in Codes |-> @[q] - (held[c][q] - held'[c][q])]]
  /\ UNCHANGED admitted

Next ==
  \/ \E c \in Creates : \E p \in Plans : Admit(c, p)
  \/ \E c \in Creates : GiveBack(c)

Spec == Init /\ [][Next]_avars
=============================================================================
