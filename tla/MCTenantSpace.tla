---------------------------- MODULE MCTenantSpace ----------------------------
(* An instance of TenantSpace for TLC.                                     *)
EXTENDS TenantSpace, TLC

CONSTANTS t1, s1, w1, w2, x1, r1

OneTenantOf == s1 :> t1
=============================================================================
