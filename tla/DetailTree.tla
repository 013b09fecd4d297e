----------------------------- MODULE DetailTree -----------------------------
(***************************************************************************)
(* The DETAILS pane of the viewer (main.rs): an accordion whose headings   *)
(* stand for the parts of the selected record, a cursor that is an index   *)
(* into the list of the headings that are there at the moment, and the     *)
(* scrolling that follows it.                                              *)
(*                                                                         *)
(* A record matters for which headings it has and how many lines its       *)
(* descriptions take.  Indices of headings count from 0, of blocks from 1. *)
(***************************************************************************)
EXTENDS Integers, Sequences, FiniteSets, SequencesExt

CONSTANTS
  Shapes,        \* what a record can look like here
  Heights        \* lines a pane can have inside its border

\* The fields of data that is not there are not looked at.
BlockShape  == [has_image : BOOLEAN, has_data : BOOLEAN, data_fields : Nat]
RecordShape == [blocks : Seq(BlockShape), has_main : BOOLEAN, main_fields : Nat]

ASSUME ShapesAssumption == Shapes \subseteq RecordShape

ASSUME HeightsAssumption == Heights \subseteq Nat

VARIABLES
  record,        \* the selected record, NoRecord if there is none
  tree,          \* the DetailTree
  detail_scroll,
  frame          \* what is on the screen: see NoFrame

vars == <<record, tree, detail_scroll, frame>>

NoRecord == [blocks |-> <<>>, has_main |-> FALSE, main_fields |-> -1]

Blocks(rec) == 1 .. Len(rec.blocks)

-----------------------------------------------------------------------------
(* The headings.                                                           *)

Header   == <<"Header", 0>>
Block(i) == <<"Block", i>>
Fpi(i)   == <<"BlockFpi", i>>
MainData == <<"MainData", 0>>

nav_items(t, rec) ==
  <<Header>>
  \o FlattenSeq([i \in 1 .. Len(t.block_states) |->
       <<Block(i)>> \o (IF t.block_states[i].block /\ rec.blocks[i].has_image
                          THEN <<Fpi(i)>> ELSE <<>>)])
  \o IF rec.has_main THEN <<MainData>> ELSE <<>>

Count(t, rec) == Len(nav_items(t, rec))

\* The heading the cursor is on.
Under(t, rec) == nav_items(t, rec)[t.cursor + 1]

-----------------------------------------------------------------------------
(* The lines of the pane: a heading and, when it is expanded, its fields.  *)

Fields(item, t, rec) ==
  LET b == rec.blocks[item[2]]
      s == t.block_states[item[2]] IN
  CASE item = Header         -> IF t.header_expanded THEN 9 ELSE 0
    [] item[1] = "Block"     -> IF s.block THEN 4 + (IF b.has_data THEN 1 + b.data_fields ELSE 0)
                                           ELSE 0
    [] item[1] = "BlockFpi"  -> IF s.fpi THEN 5 ELSE 0
    [] item = MainData       -> IF t.main_expanded THEN 1 + rec.main_fields ELSE 0

\* The line of heading k, or how many lines there are if k is past the last.
LineOf(k, t, rec) ==
  LET nav == nav_items(t, rec)
      line[j \in 0 .. k] == IF j = 0 THEN 0 ELSE line[j - 1] + 1 + Fields(nav[j], t, rec)
  IN  line[k]

cursor_line(t, rec) == LineOf(t.cursor, t, rec)
Lines(t, rec)       == LineOf(Count(t, rec), t, rec)

new_for(rec) ==
  [header_expanded |-> FALSE,
   block_states |-> [i \in Blocks(rec) |-> [block |-> FALSE, fpi |-> FALSE]],
   main_expanded |-> FALSE, cursor |-> 0]

fully_expanded_tree(rec) ==
  [header_expanded |-> TRUE,
   block_states |-> [i \in Blocks(rec) |-> [block |-> TRUE, fpi |-> rec.blocks[i].has_image]],
   main_expanded |-> TRUE, cursor |-> 0]

-----------------------------------------------------------------------------
(* A frame: the lines the pane has and what was drawn, or nothing once a   *)
(* key has made the screen stale.                                          *)

NoFrame == [height |-> 0, auto |-> FALSE, lines |-> 0]

Init ==
  /\ record \in Shapes \cup {NoRecord}
  /\ tree = new_for(record) /\ detail_scroll = 0
  /\ frame = NoFrame

\* The part of on_record_change that is about this pane.
on_record_change(rec) ==
  /\ record' = rec
  /\ tree' = new_for(rec) /\ detail_scroll' = 0
  /\ frame' = NoFrame

CanMoveUp == tree.cursor > 0

move_up ==
  /\ record # NoRecord
  /\ tree' = [tree EXCEPT !.cursor = IF CanMoveUp THEN @ - 1 ELSE @]
  /\ frame' = NoFrame
  /\ UNCHANGED <<record, detail_scroll>>

\* Faulty: the cursor can leave the list at its end.
CanMoveDown_Beyond == tree.cursor < Count(tree, record)

CanMoveDown == tree.cursor + 1 < Count(tree, record)

move_down ==
  /\ record # NoRecord
  /\ tree' = [tree EXCEPT !.cursor = IF CanMoveDown THEN @ + 1 ELSE @]
  /\ frame' = NoFrame
  /\ UNCHANGED <<record, detail_scroll>>

\* Faulty: the image stays expanded in a block that is collapsed.
ToggledBlock_KeepsImage(s) == [s EXCEPT !.block = ~@]

\* The image is collapsed with its block.
ToggledBlock(s) == [block |-> ~s.block, fpi |-> IF s.block THEN FALSE ELSE s.fpi]

Toggled(t, item) ==
  IF item[1] = "Block" THEN [t EXCEPT !.block_states[item[2]] = ToggledBlock(@)]
  ELSE IF item[1] = "BlockFpi" THEN [t EXCEPT !.block_states[item[2]].fpi = ~@]
  ELSE IF item = Header THEN [t EXCEPT !.header_expanded = ~@]
  ELSE [t EXCEPT !.main_expanded = ~@]

toggle ==
  /\ record # NoRecord
  /\ tree' = IF tree.cursor >= Count(tree, record) THEN tree
             ELSE Toggled(tree, Under(tree, record))
  /\ frame' = NoFrame
  /\ UNCHANGED <<record, detail_scroll>>

Key == move_up \/ move_down \/ toggle

-----------------------------------------------------------------------------
(* render_details with height lines inside the border.  When the record    *)
(* fits with everything expanded, that is what is drawn.                   *)

auto_expand(height) == record # NoRecord /\ Lines(fully_expanded_tree(record), record) <= height

\* Faulty: the cursor is brought one line too low.
Followed_Late(line, height) ==
  IF line < detail_scroll THEN line
  ELSE IF line > detail_scroll + height THEN line - (height - 1)
  ELSE detail_scroll

\* The scroll position that has the line in view and is nearest.
Followed(line, height) ==
  IF line < detail_scroll THEN line
  ELSE IF line >= detail_scroll + height THEN line - (height - 1)
  ELSE detail_scroll

render_details(height) ==
  /\ IF auto_expand(height) THEN detail_scroll' = 0
     ELSE detail_scroll' =
            IF height = 0 THEN detail_scroll
            ELSE Followed(IF record = NoRecord THEN 0 ELSE cursor_line(tree, record), height)
  /\ frame' = [height |-> height, auto |-> auto_expand(height),
               lines |-> IF record = NoRecord THEN 1
                         ELSE IF auto_expand(height) THEN Lines(fully_expanded_tree(record), record)
                         ELSE Lines(tree, record)]
  /\ UNCHANGED <<record, tree>>

Render == \E height \in Heights : render_details(height)

NewRecord == \E rec \in Shapes : on_record_change(rec)

Next == Key \/ NewRecord \/ Render

Spec == Init /\ [][Next]_vars

-----------------------------------------------------------------------------
(* Properties.                                                             *)

(***************************************************************************)
(* The cursor is always on a heading that is there, although toggling and  *)
(* selecting another record take headings away.                            *)
(***************************************************************************)
CursorOnHeading == tree.cursor \in 0 .. Count(tree, record) - 1

(***************************************************************************)
(* After a frame in which not everything fits, the heading under the       *)
(* cursor is in view, whatever was expanded, collapsed or resized before.  *)
(***************************************************************************)
CursorInView ==
  frame.height > 0 /\ ~frame.auto /\ record # NoRecord =>
    LET line == cursor_line(tree, record) IN
    detail_scroll <= line /\ line < detail_scroll + frame.height /\ line < frame.lines

\* The accordion as one sees it: a heading with the cursor, and open ones.
Open ==
  {h \in {Header, MainData} : IF h = Header THEN tree.header_expanded ELSE tree.main_expanded}
  \cup {Block(i) : i \in {j \in Blocks(record) : tree.block_states[j].block}}
  \cup {Fpi(i) : i \in {j \in Blocks(record) : tree.block_states[j].fpi}}

Abstract == INSTANCE Accordion WITH at <- Under(tree, record), open <- Open

(***************************************************************************)
(* The index into a list that is built anew for every key is as good as a  *)
(* heading: the cursor goes to the next heading that is seen, stays on the *)
(* one it toggles, and a block that is collapsed collapses its image.      *)
(***************************************************************************)
ImplementsAccordion == Abstract!Spec
=============================================================================
