--------------------------- MODULE MCSweepDispatch ---------------------------
(* Small instances of SweepDispatch. *)
EXTENDS SweepDispatch, TLC

CONSTANTS t1, t2, o1, o2, w1, w2

OneTarget  == {t1}
TwoTargets == {t1, t2}
OneOrch    == {o1}
TwoOrchs   == {o1, o2}
OneWorker  == {w1}
TwoWorkers == {w1, w2}
RankOne    == t1 :> 0
RankTwo    == t1 :> 0 @@ t2 :> 1

Interchangeable == Permutations(TwoWorkers)
InterchangeableAll == Permutations(TwoWorkers) \cup Permutations(TwoOrchs)
==============================================================================
