---------------------------- MODULE MCDetailTree ----------------------------
(***************************************************************************)
(* A bare header, one block of each kind with and without main data, and   *)
(* pairs of blocks of which one or both have an image.                     *)
(***************************************************************************)
EXTENDS DetailTree

BlockOf(image, data) ==
  [has_image |-> image, has_data |-> data, data_fields |-> IF data THEN 2 ELSE 0]
Kinds == {BlockOf(image, data) : image, data \in BOOLEAN}

RecordOf(blocks, main) ==
  [blocks |-> blocks, has_main |-> main, main_fields |-> IF main THEN 3 ELSE 0]

SomeShapes ==
  {RecordOf(<<>>, m) : m \in BOOLEAN}
  \cup {RecordOf(<<b>>, m) : b \in Kinds, m \in BOOLEAN}
  \cup {RecordOf(b, TRUE) : b \in {<<BlockOf(TRUE, TRUE), BlockOf(FALSE, TRUE)>>,
                                   <<BlockOf(TRUE, FALSE), BlockOf(TRUE, TRUE)>>}}
=============================================================================
