----------------------------- MODULE MC_PollWait -----------------------------
(* Instances of PollWait for TLC, with room for two conditions at once.    *)
EXTENDS PollWait
=============================================================================
