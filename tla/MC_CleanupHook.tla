---------------------------- MODULE MC_CleanupHook ----------------------------
(* CleanupHook, and PodCleanup within it, for TLC: there are no constants, *)
(* the state is finite.                                                    *)
EXTENDS CleanupHook
=============================================================================
