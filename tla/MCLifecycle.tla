---------------------------- MODULE MCLifecycle ----------------------------
(***************************************************************************)
(* Environments for Lifecycle: nothing but the database set, variations of *)
(* it that start, and one for every reason Load has to refuse.             *)
(***************************************************************************)
EXTENDS Lifecycle, TLC

Plain == [v \in Var |-> IF v = "DATABASE_URL" THEN "url" ELSE ""]

Starting == {Plain,
             [Plain EXCEPT !["SWEEP"] = "false", !["DISCORD"] = "false"],
             [Plain EXCEPT !["SWEEP"] = "junk", !["EDGE"] = "0", !["RPS"] = "junk"],
             [Plain EXCEPT !["SWEEP"] = "0", !["TICK"] = "0s", !["RPS"] = "NaN"]}
Refusing == {[Plain EXCEPT !["DATABASE_URL"] = ""],
             [Plain EXCEPT !["SWEEP"] = "0", !["EDGE"] = "0", !["DISCORD"] = "0"],
             [Plain EXCEPT !["RPS"] = "0"],
             [Plain EXCEPT !["WORKERS"] = "-1"],
             [Plain EXCEPT !["LEASE"] = "1s"]}

Started == Starting \cup Refusing
=============================================================================
