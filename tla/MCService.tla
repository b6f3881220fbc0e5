------------------------------ MODULE MCService ------------------------------
(***************************************************************************)
(* Instances of CommandService for TLC.  The durations keep the order of   *)
(* the real ones: check 45 s < other commands and heartbeat 90 s < lock    *)
(* 120 s < login 600 s.                                                    *)
(***************************************************************************)
EXTENDS ServiceProperties
=============================================================================
