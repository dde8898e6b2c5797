--------------------------- MODULE MCGpuUsageSync ---------------------------
(* Instances of GpuUsageSync for TLC.                                      *)
EXTENDS GpuUsageSync, TLC

CONSTANTS c1

OneId == c1 :> 1
=============================================================================
