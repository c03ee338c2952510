----------------------------- MODULE MCLimiter -----------------------------
(***************************************************************************)
(* Small instances of KeyedLimiter: one webhook, two goroutines.           *)
(***************************************************************************)
EXTENDS KeyedLimiter, TLC

Symmetry == Permutations(Caller)
=============================================================================
