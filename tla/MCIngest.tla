----------------------------- MODULE MCIngest -----------------------------
(***************************************************************************)
(* A small instance of Ingest: one client whose batch is well-formed, one  *)
(* whose batch has an event without a kind in its middle, one whose batch  *)
(* is too long.                                                            *)
(***************************************************************************)
EXTENDS Ingest, TLC

CONSTANTS good, poor, long, kill, drop, stats, blank

Batches == good :> <<kill, drop>> @@ poor :> <<stats, blank, drop>>
           @@ long :> <<kill, stats>>
=============================================================================
