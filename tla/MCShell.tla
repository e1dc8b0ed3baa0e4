------------------------------- MODULE MCShell -------------------------------
(* Shell for TLC: a screen of two rows of four cells, which a line of five      *)
(* characters after the prompt overflows; one letter and the space; boxes in    *)
(* the second row, of which the longest line reaches the first cell.            *)
EXTENDS Shell

OneAccount == {<<<<"a">>, <<"a">>>>}
=============================================================================
