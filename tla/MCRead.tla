------------------------------- MODULE MCRead -------------------------------
(***************************************************************************)
(* Small instances of ReadPath.                                            *)
(***************************************************************************)
EXTENDS ReadPath

CONSTANTS modern, basic, zip, torn

Gzip == [c \in Client |-> CASE c = modern -> {<<"gzip", 1>>, <<"br", 1>>}
                            [] c = basic -> {}]

Polls == {<<modern, "board">>, <<basic, "preview">>}
=============================================================================
