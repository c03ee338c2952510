------------------------------ MODULE MCSweep ------------------------------
(***************************************************************************)
(* Small instances of Sweep: two overlapping processes of one worker each, *)
(* or one process of one.                                                  *)
(***************************************************************************)
EXTENDS Sweep, TLC

CONSTANTS old, new, w1, w2

(* Home: one worker per process, or one in all.                            *)
OneEach == w1 :> old @@ w2 :> new
OneOld == w1 :> old

(* Lanes of three rows: two late joiners, or one of each kind.             *)
late == -1
competition == 0
filler == 1
Mixed == {<<late, late, competition>>, <<filler, late, competition>>}
CompetitionOnly == {[r \in Row |-> competition]}
=============================================================================
