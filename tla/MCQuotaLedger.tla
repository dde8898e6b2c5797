--------------------------- MODULE MCQuotaLedger ---------------------------
(* Instances of QuotaLedger for TLC.                                       *)
EXTENDS QuotaLedger, TLC

CONSTANTS t1, t2, cpu, gpu, c1, c2, c3, a1, a2, a3

(* Two tenants; c1 and c2 compete for the account of t1, c3 uses t2.       *)
AccountsTenantOf == c1 :> t1 @@ c2 :> t1 @@ c3 :> t2
AccountsKind     == c1 :> "instance" @@ c2 :> "inference" @@ c3 :> "instance"
AccountsUnits    == c1 :> (cpu :> 2 @@ gpu :> 1) @@ c2 :> (cpu :> 1 @@ gpu :> 0)
                      @@ c3 :> (cpu :> 0 @@ gpu :> 1)
AccountsClose    == c1 :> a1 @@ c2 :> a2 @@ c3 :> a3
AccountsPlans    == {cpu :> 3 @@ gpu :> 1, cpu :> 2 @@ gpu :> 0}

(* One tenant and one account; the write-backs of an instance and an       *)
(* inference CREATE under every generation.                                *)
CommandsTenantOf == c1 :> t1 @@ c2 :> t1
CommandsKind     == c1 :> "instance" @@ c2 :> "inference"
CommandsUnits    == c1 :> (cpu :> 0) @@ c2 :> (cpu :> 1)
CommandsClose    == c1 :> a1 @@ c2 :> a2
CommandsPlans    == {cpu :> 1}
=============================================================================
