----------------------------- MODULE RecordList -----------------------------
(***************************************************************************)
(* The record list of the viewer (main.rs): the selection, the moves, the  *)
(* window of rows that a frame shows, and the graph of the selected        *)
(* transaction that is drawn beside them.                                  *)
(*                                                                         *)
(* Of a record only its xl_xid matters here.  Indices count from 0, as in  *)
(* the code: At(i) is the xl_xid of record i.                              *)
(***************************************************************************)
EXTENDS Integers, Sequences

CONSTANTS
  XidLists,                      \* what the records of a segment can be
  Heights,                       \* rows a pane can have for records
  PAGE_JUMP_SIZE,
  FIRST_NORMAL_TRANSACTION_ID

ASSUME ListAssumption ==
  /\ XidLists \subseteq Seq(Nat)
  /\ Heights \subseteq Nat
  /\ PAGE_JUMP_SIZE \in Nat /\ FIRST_NORMAL_TRANSACTION_ID \in Nat \ {0}

VARIABLES
  xids,          \* xl_xid of the records; they never change
  selected,      \* state.selected(), NONE if there is none
  list_offset, xid_range,
  shown          \* rows of the frame on the screen, 0 once a key has made it stale

vars == <<xids, selected, list_offset, xid_range, shown>>

NONE    == -1
NoRange == <<>>

Smaller(a, b)        == IF a < b THEN a ELSE b
saturating_sub(a, b) == IF a > b THEN a - b ELSE 0

Indices == 0 .. Len(xids) - 1
At(i)   == xids[i + 1]

-----------------------------------------------------------------------------
(* The part of on_record_change that is about the list.                    *)

\* Extent of the records with the xl_xid of record i.
xid_range_of(i) ==
  IF At(i) = 0 THEN <<0, 0>>
  ELSE LET mine == {j \in Indices : At(j) = At(i)} IN
       <<CHOOSE j \in mine : \A k \in mine : j <= k, CHOOSE j \in mine : \A k \in mine : j >= k>>

Init ==
  /\ xids \in XidLists
  /\ selected = IF xids = <<>> THEN NONE ELSE 0
  /\ xid_range = IF xids = <<>> THEN NoRange ELSE xid_range_of(0)
  /\ list_offset = 0
  /\ shown = 0

\* Faulty: the extent is not recomputed.
select_KeepsRange(idx) ==
  IF xids = <<>> THEN UNCHANGED <<selected, xid_range>>
  ELSE selected' = Smaller(idx, Len(xids) - 1) /\ UNCHANGED xid_range

select(idx) ==
  IF xids = <<>> THEN UNCHANGED <<selected, xid_range>>
  ELSE selected' = Smaller(idx, Len(xids) - 1) /\ xid_range' = xid_range_of(selected')

-----------------------------------------------------------------------------
(* The keys.  A key that has no record to go to changes nothing.           *)

Stale == shown' = 0 /\ UNCHANGED <<xids, list_offset>>

move_record_down == Stale /\ select(IF selected = NONE THEN 0 ELSE selected + 1)
move_record_up   == Stale /\ select(IF selected = NONE THEN 0 ELSE saturating_sub(selected, 1))
move_top         == Stale /\ select(0)
move_bottom      == Stale /\ select(saturating_sub(Len(xids), 1))

Current   == IF selected = NONE THEN 0 ELSE selected
page_up   == Stale /\ select(saturating_sub(Current, PAGE_JUMP_SIZE))
page_down == Stale /\ select(Current + PAGE_JUMP_SIZE)

\* Only a real transaction is followed.
normal_xid == selected # NONE /\ At(selected) >= FIRST_NORMAL_TRANSACTION_ID

Later   == {i \in Indices : i > selected /\ At(i) = At(selected)}
Earlier == {i \in Indices : i < selected /\ At(i) = At(selected)}

\* Faulty: the record after the next is taken for the next.
next_same_xid_Skips == CHOOSE i \in Later : Later = {i} \/ \E j \in Later : j < i

next_same_xid == CHOOSE i \in Later : \A j \in Later : i <= j

prev_same_xid == CHOOSE i \in Earlier : \A j \in Earlier : i >= j

move_next_same_xid ==
  /\ Stale
  /\ IF normal_xid /\ Later # {} THEN select(next_same_xid) ELSE UNCHANGED <<selected, xid_range>>

move_prev_same_xid ==
  /\ Stale
  /\ IF normal_xid /\ Earlier # {} THEN select(prev_same_xid) ELSE UNCHANGED <<selected, xid_range>>

Key ==
  \/ move_record_down \/ move_record_up \/ move_top \/ move_bottom
  \/ page_up \/ page_down
  \/ move_next_same_xid \/ move_prev_same_xid

-----------------------------------------------------------------------------
(* render_record_list with room for visible rows.                          *)

\* Faulty: the window is moved one row too late.
Followed_Late(visible) ==
  IF Current < list_offset THEN Current
  ELSE IF Current > list_offset + visible THEN Current + 1 - visible
  ELSE list_offset

\* Faulty: a selection below the window is brought to its top.
Followed_ToTop(visible) ==
  IF Current < list_offset \/ Current >= list_offset + visible THEN Current ELSE list_offset

\* The window moves by as little as brings the selection into it.
Followed(visible) ==
  IF Current < list_offset THEN Current
  ELSE IF Current >= list_offset + visible THEN Current + 1 - visible
  ELSE list_offset

\* Faulty: rows below the last record are not reclaimed.
Filled_Never(visible) == Followed(visible)

Filled(visible) == Smaller(Followed(visible), saturating_sub(Len(xids), visible))

render_record_list(visible) ==
  /\ list_offset' = IF visible > 0 THEN Filled(visible) ELSE list_offset
  /\ shown' = visible
  /\ UNCHANGED <<xids, selected, xid_range>>

Render == \E visible \in Heights : render_record_list(visible)

Next == Key \/ Render

Spec == Init /\ [][Next]_vars

-----------------------------------------------------------------------------
(* The graph beside row i, as drawn.                                       *)

prefix(i) ==
  IF xid_range = NoRange THEN "blank"
  ELSE IF At(selected) # 0 /\ At(i) = At(selected)
    THEN IF xid_range[1] = xid_range[2] THEN "single"
         ELSE IF i = xid_range[1] THEN "first"
         ELSE IF i = xid_range[2] THEN "last"
         ELSE "branch"
  ELSE IF xid_range[1] < i /\ i < xid_range[2] THEN "through"
  ELSE "blank"

-----------------------------------------------------------------------------
(* Properties.                                                             *)

\* The type invariant.
TypeOK ==
  /\ xids \in XidLists
  /\ selected \in Indices \cup {NONE}
  /\ xid_range \in (Nat \X Nat) \cup {NoRange}
  /\ list_offset \in Nat
  /\ shown \in Heights \cup {0}

(***************************************************************************)
(* After a frame the selected row is in the window, whatever the keys and  *)
(* the heights of the pane were before.                                    *)
(***************************************************************************)
SelectedIsShown ==
  shown > 0 /\ selected # NONE => list_offset <= selected /\ selected < list_offset + shown

(***************************************************************************)
(* After a frame no row of the pane is empty while there is a record above *)
(* that it could show: not after the pane has grown, not at the end.       *)
(***************************************************************************)
WindowIsFull ==
  shown > 0 => list_offset = 0 \/ list_offset + shown <= Len(xids)

(***************************************************************************)
(* The graph, drawn from what was cached when the selection changed,       *)
(* begins at the first record of the selected transaction, ends at its     *)
(* last, branches off at each one between and passes by all others.        *)
(***************************************************************************)
GraphOf(i) ==
  LET mine == {j \in Indices : At(j) = At(selected)}
      above == \E j \in mine : j < i
      below == \E j \in mine : j > i
  IN  IF selected = NONE \/ At(selected) = 0 THEN "blank"
      ELSE IF i \in mine
        THEN IF above /\ below THEN "branch"
             ELSE IF above THEN "last"
             ELSE IF below THEN "first"
             ELSE "single"
      ELSE IF above /\ below THEN "through"
      ELSE "blank"

GraphIsExact == \A i \in Indices : prefix(i) = GraphOf(i)

(***************************************************************************)
(* The keys s and r go along the drawn graph: to the nearest row below or  *)
(* above that it branches to, and nowhere exactly from its ends.           *)
(***************************************************************************)
Marked == {i \in Indices : prefix(i) \in {"single", "first", "branch", "last"}}

KeysFollowGraph ==
  normal_xid =>
    /\ (Later = {}) <=> prefix(selected) \in {"single", "last"}
    /\ (Earlier = {}) <=> prefix(selected) \in {"single", "first"}
    /\ Later # {} => /\ next_same_xid \in Marked
                     /\ \A i \in Marked : i > selected => next_same_xid <= i
    /\ Earlier # {} => /\ prev_same_xid \in Marked
                       /\ \A i \in Marked : i < selected => prev_same_xid >= i

(***************************************************************************)
(* A frame moves the window by as little as it can: downwards until the    *)
(* selection is on its last row; upwards until the selection is on its     *)
(* first, or no row is empty.                                              *)
(***************************************************************************)
WindowMovesByNeed ==
  [][ shown' > 0 =>
        /\ list_offset' > list_offset => selected = list_offset' + shown' - 1
        /\ list_offset' < list_offset => \/ selected = list_offset'
                                         \/ list_offset' = saturating_sub(Len(xids), shown') ]_vars
=============================================================================
