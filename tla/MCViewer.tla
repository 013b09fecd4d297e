------------------------------ MODULE MCViewer ------------------------------
(***************************************************************************)
(* A segment without records, and one of four records of two transactions, *)
(* the second record with an image.  The terminals have 8 lines (the       *)
(* fewest) and 12, and room for 8 and 4 bytes on a line.                   *)
(***************************************************************************)
EXTENDS Viewer

Bare  == [blocks |-> <<>>, has_main |-> FALSE, main_fields |-> 0]
Image == [blocks |-> <<[has_image |-> TRUE, has_data |-> FALSE, data_fields |-> 0]>>,
          has_main |-> FALSE, main_fields |-> 0]

RecordOf(xid, shape, first) == [xid |-> xid, shape |-> shape, first |-> first]

SomeSegments ==
  { <<>>,
    <<RecordOf(3, Bare, 1), RecordOf(4, Image, 9), RecordOf(3, Bare, 14), RecordOf(4, Bare, 20)>> }

SomeLayouts ==
  { [list |-> 3, details |-> 2, hex |-> 2, width |-> 55],
    [list |-> 7, details |-> 5, hex |-> 3, width |-> 54] }
=============================================================================
