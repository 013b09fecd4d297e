------------------------------ MODULE MCHexPane ------------------------------
(***************************************************************************)
(* A segment whose last line is short at every width.  Widths are the ones *)
(* around which the bytes on a line change; 2 lines is what MIN_HEIGHT     *)
(* leaves for this pane.                                                   *)
(***************************************************************************)
EXTENDS HexPane

MCFirstBytes == {0, 16, 37, 94, 106}
MCWidths     == {54, 55, 88, 89}
MCHeights    == {2, 3, 5, 12, 40}
=============================================================================
