------------------------------ MODULE MCPolling ------------------------------
(***************************************************************************)
(* Instances of Polling for TLC.                                           *)
(***************************************************************************)
EXTENDS PollingProperties

StartAfterCreation == {2}
ShortAndLongWatches == {5, 11}
EarlyAndLateOpenings == {3, 10}
LateOpening == {8}
=============================================================================
