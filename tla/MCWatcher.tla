------------------------------ MODULE MCWatcher ------------------------------
(* Instances of Watcher for TLC. *)
EXTENDS WatcherInvariant, TLC

CONSTANTS w1, w2, t1, t2

OneWatch == {w1}
TwoWatches == {w1, w2}
OneTime == {t1}
TwoTimes == {t1, t2}
T1Only == <<t1>>
T2First == <<t2, t1>>
Symmetry == Permutations(Watches)
=============================================================================
