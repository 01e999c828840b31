-------------------------- MODULE MCWorldScheduler --------------------------
(* Instances of WorldScheduler for TLC. *)
EXTENDS WorldScheduler

\* Two IC10s around one Lua program.
MCLua == {1}

\* sleep for two ticks; yield is the wait for one tick.
MCSleeps == {2}
=============================================================================
