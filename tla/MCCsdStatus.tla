----------------------------- MODULE MCCsdStatus -----------------------------
(***************************************************************************)
(* A CSD measured twice, one that is never measured, two calls of            *)
(* PushCSDMetric that may overlap, the puller, the scheduler and a listing:  *)
(* enough for a late push, a half-written entry and an entry added while     *)
(* another thread is in the map.                                             *)
(***************************************************************************)
EXTENDS CsdStatus, TLC

CONSTANTS c1, c2, p1, p2

MCCsd == {c1, c2}
MCPusher == {p1, p2}
MCMaxMeasured == (c1 :> 2) @@ (c2 :> 0)
==============================================================================
