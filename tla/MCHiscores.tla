---------------------------- MODULE MCHiscores ----------------------------
(***************************************************************************)
(* Small instances of HiscoresClient, and of Rsn with it.                  *)
(***************************************************************************)
EXTENDS HiscoresClient

(* A name from the game client, a placeholder, a mode without a table.     *)
Players == {<<<<"A", "nbsp", "a">>, TRUE>>, <<<<"#", "a">>, TRUE>>, <<<<"a">>, FALSE>>}

Symmetry == Permutations(Worker)
=============================================================================
