---------------------------- MODULE MC_PodHealth ----------------------------
(* Instances of PodHealth for TLC: an infra container and an application,  *)
(* both of which may have a health check.                                  *)
EXTENDS PodHealth
=============================================================================
