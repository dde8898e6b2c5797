-------------------------- MODULE MCQuotaDispatch --------------------------
(* Instances of QuotaDispatch for TLC: one tenant and one CREATE.          *)
EXTENDS QuotaDispatch, TLC

CONSTANTS t1, cpu, gpu, c1, a1

OneTenantOf   == c1 :> t1
GpuUnits      == c1 :> (gpu :> 1)
CpuUnits      == c1 :> (cpu :> 2)
NoUnits       == c1 :> (cpu :> 0)
OneClose      == c1 :> a1
GpuPlan       == {gpu :> 1}
CpuPlan       == {cpu :> 2}
VMKind        == c1 :> "vm"
InferenceKind == c1 :> "inference"
=============================================================================
