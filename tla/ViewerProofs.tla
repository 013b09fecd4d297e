---------------------------- MODULE ViewerProofs ----------------------------
(***************************************************************************)
(* Proofs about the viewer as a whole: that its panes are the ones of      *)
(* RecordList, DetailTree and HexPane, so that what is proved of a pane    *)
(* alone holds of the program.  The hex pane's own proofs are here too.    *)
(***************************************************************************)
EXTENDS Viewer, TLAPS

\* The proofs about the panes, of the panes as they are in the viewer.
LP == INSTANCE RecordListProofs WITH
        xids <- Xids(records), XidLists <- {Xids(s) : s \in Segments},
        Heights <- {room.list : room \in Layouts}

DP == INSTANCE DetailTreeProofs WITH
        record <- IF selected = L!NONE THEN [blocks |-> <<>>, has_main |-> FALSE, main_fields |-> -1]
                  ELSE selected_record.shape,
        frame <- details_frame,
        Shapes <- Of("shape"), Heights <- {room.details : room \in Layouts}

\* LP and DP hold copies of the definitions that L and D hold.
LEMMA SameList ==
  /\ L!Init <=> LP!Init
  /\ [L!Next]_(L!vars) => [LP!Next]_(LP!vars)
  /\ L!SelectedIsShown <=> LP!SelectedIsShown
  /\ L!WindowIsFull <=> LP!WindowIsFull
  /\ L!GraphIsExact <=> LP!GraphIsExact
  /\ L!KeysFollowGraph <=> LP!KeysFollowGraph
<1> USE DEF L!NONE, L!NoRange, L!Smaller, L!saturating_sub, L!Indices, L!At,
         L!xid_range_of, L!select, L!Stale, L!move_record_down, L!move_record_up,
         L!move_top, L!move_bottom, L!Current, L!page_up, L!page_down, L!normal_xid,
         L!Later, L!Earlier, L!next_same_xid, L!prev_same_xid, L!move_next_same_xid,
         L!move_prev_same_xid, L!Key, L!Followed, L!Filled, L!render_record_list,
         L!Render, L!Next, L!vars, L!Init, LP!NONE, LP!NoRange, LP!Smaller,
         LP!saturating_sub, LP!Indices, LP!At, LP!xid_range_of, LP!select, LP!Stale,
         LP!move_record_down, LP!move_record_up, LP!move_top, LP!move_bottom,
         LP!Current, LP!page_up, LP!page_down, LP!normal_xid, LP!Later, LP!Earlier,
         LP!next_same_xid, LP!prev_same_xid, LP!move_next_same_xid,
         LP!move_prev_same_xid, LP!Key, LP!Followed, LP!Filled, LP!render_record_list,
         LP!Render, LP!Next, LP!vars, LP!Init
<1>1. L!Init <=> LP!Init
  BY Zenon
<1>2. [L!Next]_(L!vars) => [LP!Next]_(LP!vars)
  BY Zenon
<1>3. /\ L!SelectedIsShown <=> LP!SelectedIsShown
      /\ L!WindowIsFull <=> LP!WindowIsFull
      /\ L!GraphIsExact <=> LP!GraphIsExact
      /\ L!KeysFollowGraph <=> LP!KeysFollowGraph
  BY Zenon
     DEF L!prefix, L!GraphOf, L!GraphIsExact, L!Marked, L!KeysFollowGraph,
         L!SelectedIsShown, L!WindowIsFull, L!WindowMovesByNeed, LP!prefix, LP!GraphOf,
         LP!GraphIsExact, LP!Marked, LP!KeysFollowGraph, LP!SelectedIsShown,
         LP!WindowIsFull, LP!WindowMovesByNeed
<1> QED
  BY <1>1, <1>2, <1>3

LEMMA SameDetails ==
  /\ D!Init <=> DP!Init
  /\ [D!Next]_(D!vars) => [DP!Next]_(DP!vars)
  /\ D!CursorOnHeading <=> DP!CursorOnHeading
  /\ D!CursorInView <=> DP!CursorInView
<1>1. \A t, rec : D!nav_items(t, rec) = DP!nav_items(t, rec)
  BY Zenon DEF D!nav_items, DP!nav_items, D!Header, DP!Header, D!Block, DP!Block,
     D!Fpi, DP!Fpi, D!MainData, DP!MainData, D!FlattenSeq, DP!FlattenSeq
<1>2. \A h, t, rec : D!Fields(h, t, rec) = DP!Fields(h, t, rec)
  BY Zenon DEF D!Fields, DP!Fields, D!Header, DP!Header, D!MainData, DP!MainData
<1>3. \A k, t, rec : D!LineOf(k, t, rec) = DP!LineOf(k, t, rec)
  BY <1>1, <1>2, ZenonT(40) DEF D!LineOf, DP!LineOf
<1>4. \A t, rec : /\ D!Count(t, rec) = DP!Count(t, rec)
                   /\ D!Under(t, rec) = DP!Under(t, rec)
                   /\ D!cursor_line(t, rec) = DP!cursor_line(t, rec)
                   /\ D!Lines(t, rec) = DP!Lines(t, rec)
  <2>1. \A t, rec : D!Count(t, rec) = DP!Count(t, rec) /\ D!Under(t, rec) = DP!Under(t, rec)
    BY <1>1, Zenon DEF D!Count, DP!Count, D!Under, DP!Under
  <2>2. \A t, rec : D!cursor_line(t, rec) = DP!cursor_line(t, rec)
    BY <1>3, Zenon DEF D!cursor_line, DP!cursor_line
  <2>3. \A t, rec : D!Lines(t, rec) = DP!Lines(t, rec)
    BY <1>3, <2>1, Zenon DEF D!Lines, DP!Lines
  <2> QED
    BY <2>1, <2>2, <2>3
<1>5. \A rec : /\ D!new_for(rec) = DP!new_for(rec)
                /\ D!fully_expanded_tree(rec) = DP!fully_expanded_tree(rec)
  BY Zenon DEF D!new_for, DP!new_for, D!fully_expanded_tree, DP!fully_expanded_tree,
     D!Blocks, DP!Blocks
<1>6. D!Init <=> DP!Init
  BY <1>5, Zenon DEF D!Init, DP!Init, D!NoRecord, DP!NoRecord, D!NoFrame, DP!NoFrame
<1>7. [D!Next]_(D!vars) => [DP!Next]_(DP!vars)
  BY <1>4, <1>5, Zenon DEF D!NoRecord, DP!NoRecord, D!NoFrame, DP!NoFrame, D!Header,
     DP!Header, D!on_record_change, DP!on_record_change, D!CanMoveUp, DP!CanMoveUp,
     D!move_up, DP!move_up, D!CanMoveDown, DP!CanMoveDown, D!move_down,
     DP!move_down, D!ToggledBlock, DP!ToggledBlock, D!Toggled, DP!Toggled, D!toggle,
     DP!toggle, D!Key, DP!Key, D!auto_expand, DP!auto_expand, D!Followed,
     DP!Followed, D!render_details, DP!render_details, D!Render, DP!Render,
     D!NewRecord, DP!NewRecord, D!Next, DP!Next, D!vars, DP!vars
<1>8. /\ D!CursorOnHeading <=> DP!CursorOnHeading
      /\ D!CursorInView <=> DP!CursorInView
  BY <1>4, Zenon DEF D!CursorOnHeading, DP!CursorOnHeading, D!CursorInView,
     DP!CursorInView, D!NoRecord, DP!NoRecord
<1> QED
  BY <1>6, <1>7, <1>8

-----------------------------------------------------------------------------
(* The assumptions of the panes follow from the viewer's.                  *)

LEMMA SegmentTypes ==
  ASSUME NEW s \in Segments
  PROVE  /\ Xids(s) \in Seq(Nat) /\ Len(Xids(s)) = Len(s)
         /\ DOMAIN s = 1 .. Len(s) /\ Len(s) \in Nat /\ (s = <<>> <=> Len(s) = 0)
         /\ \A i \in DOMAIN s : s[i].shape \in Of("shape") /\ s[i].first \in Of("first")
                                 /\ s[i].first \in 0 .. SegmentLen - 1
<1> DEFINE R == [xid : Nat, shape : Of("shape"), first : 0 .. SegmentLen - 1]
<1>1. s \in Seq(R)
  BY ViewerAssumption
<1>2. DOMAIN s = 1 .. Len(s) /\ Len(s) \in Nat /\ \A i \in 1 .. Len(s) : s[i] \in R
  <2> HIDE DEF R
  <2> QED
    BY <1>1
<1>3. \A i \in 1 .. Len(s) : s[i].xid \in Nat /\ s[i].shape \in Of("shape")
                               /\ s[i].first \in 0 .. SegmentLen - 1
  <2>1. \A x \in R : x.xid \in Nat /\ x.shape \in Of("shape") /\ x.first \in 0 .. SegmentLen - 1
    OBVIOUS
  <2> HIDE DEF R
  <2> QED
    BY <1>2, <2>1
<1>4. Xids(s) \in Seq(Nat) /\ Len(Xids(s)) = Len(s)
  BY <1>2, <1>3 DEF Xids
<1>5. \A i \in DOMAIN s : s[i].first \in Of("first")
  BY DEF Of
<1>6. s = <<>> <=> Len(s) = 0
  <2> HIDE DEF R
  <2> QED
    BY <1>1
<1> QED
  BY <1>2, <1>3, <1>4, <1>5, <1>6

LEMMA ListFits == LP!ListAssumption
<1>1. {Xids(s) : s \in Segments} \subseteq Seq(Nat)
  BY SegmentTypes
<1>2. {room.list : room \in Layouts} \subseteq Nat
  BY ViewerAssumption
<1> QED
  BY <1>1, <1>2, ViewerAssumption DEF LP!ListAssumption

LEMMA DetailsFit == DP!ShapesAssumption /\ DP!HeightsAssumption
<1>1. DP!RecordShape = D!RecordShape
  BY DEF DP!RecordShape, D!RecordShape, DP!BlockShape, D!BlockShape
<1>2. {room.details : room \in Layouts} \subseteq Nat
  BY ViewerAssumption
<1> QED
  BY <1>1, <1>2, ViewerAssumption DEF DP!ShapesAssumption, DP!HeightsAssumption

-----------------------------------------------------------------------------
(* The hex pane: any behaviour of the pane as the viewer instantiates it,  *)
(* whatever selects its records and whatever draws it.  The three lengths  *)
(* a line can have are told apart where lines are counted: then every      *)
(* division is by a number.                                                *)

shown_first == IF selected = L!NONE THEN L!NONE ELSE selected_record.first
HexWidths   == {room.width : room \in Layouts}
HexHeights  == {room.hex : room \in Layouts}

LEMMA HexFits ==
  /\ SegmentLen \in Nat /\ Of("first") \subseteq 0 .. SegmentLen - 1
  /\ HexWidths \subseteq Nat /\ HexHeights \subseteq Nat
  /\ PAGE_JUMP_SIZE \in Nat /\ HEX_JUMP_MARGIN \in Nat
  /\ USIZE_MAX \in Nat /\ SegmentLen <= USIZE_MAX
<1>1. Of("first") \subseteq 0 .. SegmentLen - 1
  <2>1. SUFFICES ASSUME NEW s \in Segments, NEW i \in DOMAIN s
                 PROVE  s[i].first \in 0 .. SegmentLen - 1
    BY DEF Of
  <2> QED
    BY SegmentTypes
<1>2. HexWidths \subseteq Nat /\ HexHeights \subseteq Nat
  BY ViewerAssumption DEF HexWidths, HexHeights
<1> QED
  BY <1>1, <1>2, ViewerAssumption

USE DEF shown_first, HexWidths, HexHeights

\* A line has 4, 8 or 16 bytes.
LEMMA LineLengths == ASSUME NEW width PROVE H!hex_bytes_per_line(width) \in {4, 8, 16}
BY DEF H!hex_bytes_per_line

\* Lines cover the segment, and none of them is empty.
LEMMA LinesCover ==
  ASSUME NEW n \in {4, 8, 16}
  PROVE  /\ H!total_lines(n) \in Nat
         /\ H!total_lines(n) <= SegmentLen
         /\ SegmentLen <= H!total_lines(n) * n
         /\ H!total_lines(n) * n < SegmentLen + n
<1>1. SegmentLen \in Nat BY HexFits
<1>2. CASE n = 4 BY <1>1, <1>2 DEF H!total_lines
<1>3. CASE n = 8 BY <1>1, <1>3 DEF H!total_lines
<1>4. CASE n = 16 BY <1>1, <1>4 DEF H!total_lines
<1> QED BY <1>2, <1>3, <1>4

\* The line a byte is on.
LEMMA LineOfByte ==
  ASSUME NEW n \in {4, 8, 16}, NEW byte \in Nat
  PROVE  /\ byte \div n \in Nat
         /\ (byte \div n) * n <= byte
         /\ byte < (byte \div n + 1) * n
<1>1. CASE n = 4 BY <1>1
<1>2. CASE n = 8 BY <1>2
<1>3. CASE n = 16 BY <1>3
<1> QED BY <1>1, <1>2, <1>3

\* Lines that are among the first count lines hold no more bytes than those.
LEMMA LinesWithin ==
  ASSUME NEW n \in {4, 8, 16}, NEW count \in Nat, NEW len \in Nat,
         NEW scroll \in Nat, NEW visible \in Nat,
         scroll + visible <= count, count * n < len + n
  PROVE  (scroll + visible) * n < len + n
<1>1. CASE n = 4 BY <1>1
<1>2. CASE n = 8 BY <1>2
<1>3. CASE n = 16 BY <1>3
<1> QED BY <1>1, <1>2, <1>3

-----------------------------------------------------------------------------
\* A frame leaves the scroll position within the segment.
LEMMA RenderScroll ==
  ASSUME H!TypeOK, NEW width \in HexWidths, NEW visible \in HexHeights,
         H!render_hex_dump(width, visible)
  PROVE  LET n == H!hex_bytes_per_line(width) IN
         /\ hex_scroll' \in 0 .. USIZE_MAX
         /\ hex_scroll' = 0 \/ hex_scroll' + visible <= H!total_lines(n)
         /\ hex_frame' = [width |-> width, visible |-> visible, stale |-> FALSE]
<1> DEFINE n == H!hex_bytes_per_line(width)
<1>1. n \in {4, 8, 16} BY LineLengths
<1>2. /\ H!total_lines(n) \in Nat /\ H!total_lines(n) <= SegmentLen BY <1>1, LinesCover
<1>3. /\ visible \in Nat /\ USIZE_MAX \in Nat /\ SegmentLen <= USIZE_MAX
      /\ SegmentLen \in Nat /\ HEX_JUMP_MARGIN \in Nat
      /\ shown_first \in Nat \cup {H!NONE} /\ hex_scroll \in Nat
  BY HexFits DEF H!TypeOK
<1>4. H!Aimed(n, visible) \in Nat
  <2>1. ASSUME shown_first # H!NONE PROVE shown_first \div n \in Nat BY <2>1, <1>1, <1>3, LineOfByte
  <2> HIDE DEF n
  <2> QED BY <2>1, <1>2, <1>3 DEF H!Aimed, H!saturating_sub
<1>5. /\ hex_scroll' = H!Smaller(H!Aimed(n, visible), H!LastScroll(n, visible))
      /\ hex_frame' = [width |-> width, visible |-> visible, stale |-> FALSE]
  BY DEF H!render_hex_dump
<1> HIDE DEF n
<1>6. /\ hex_scroll' \in 0 .. USIZE_MAX
      /\ hex_scroll' = 0 \/ hex_scroll' + visible <= H!total_lines(n)
  BY <1>2, <1>3, <1>4, <1>5 DEF H!Smaller, H!LastScroll, H!saturating_sub
<1> QED BY <1>5, <1>6 DEF n

-----------------------------------------------------------------------------
(* The invariant is the type invariant and what is to be shown.            *)

HexInv == H!TypeOK /\ H!PaneIsFull

LEMMA InitHexInv == H!Init => HexInv
BY HexFits DEF H!Init, HexInv, H!TypeOK, H!Frames, H!PaneIsFull

\* Whatever makes the frame stale leaves the scroll position in its range.
LEMMA StaleHexInv ==
  ASSUME HexInv, H!Stale, shown_first' \in Of("first") \cup {H!NONE},
         hex_scroll' \in 0 .. USIZE_MAX,
         hex_jump' \in {"None", "ToSelection", "ToEnd"}
  PROVE  HexInv'
BY DEF HexInv, H!TypeOK, H!PaneIsFull, H!Stale, H!Frames

LEMMA ScrollHexInv ==
  ASSUME HexInv, NEW line \in 0 .. USIZE_MAX, H!scroll_to(line)
  PROVE  HexInv'
BY StaleHexInv DEF H!scroll_to, HexInv, H!TypeOK

LEMMA RenderHexInv ==
  ASSUME HexInv, NEW width \in HexWidths, NEW visible \in HexHeights,
         H!render_hex_dump(width, visible)
  PROVE  HexInv'
<1> DEFINE n == H!hex_bytes_per_line(width)
<1>1. /\ hex_scroll' \in 0 .. USIZE_MAX
      /\ hex_scroll' = 0 \/ hex_scroll' + visible <= H!total_lines(n)
      /\ hex_frame' = [width |-> width, visible |-> visible, stale |-> FALSE]
  BY RenderScroll DEF HexInv
<1>2. H!TypeOK'
  BY <1>1 DEF HexInv, H!TypeOK, H!Frames, H!render_hex_dump
<1>3. ASSUME hex_scroll' # 0 PROVE (hex_scroll' + visible) * n < SegmentLen + n
  <2>1. n \in {4, 8, 16} BY LineLengths
  <2>2. SegmentLen \in Nat /\ hex_scroll' \in Nat /\ visible \in Nat BY <1>1, HexFits
  <2>3. H!total_lines(n) \in Nat /\ H!total_lines(n) * n < SegmentLen + n BY <2>1, LinesCover
  <2>4. hex_scroll' + visible <= H!total_lines(n) BY <1>1, <1>3
  <2> HIDE DEF n
  <2> QED BY <2>1, <2>2, <2>3, <2>4, LinesWithin, Zenon
<1> QED BY <1>1, <1>2, <1>3 DEF HexInv, H!PaneIsFull, H!PerLine

LEMMA NextHexInv == HexInv /\ [H!Next]_(H!vars) => HexInv'
<1> SUFFICES ASSUME HexInv, [H!Next]_(H!vars) PROVE HexInv' OBVIOUS
<1> USE HexFits
<1>1. hex_scroll \in 0 .. USIZE_MAX BY DEF HexInv, H!TypeOK
<1>2. CASE H!NewRecord BY <1>2, StaleHexInv DEF H!NewRecord, H!on_record_change, HexInv, H!TypeOK
<1>3. CASE H!line_up BY <1>1, <1>3, ScrollHexInv DEF H!line_up, H!saturating_sub
<1>4. CASE H!line_down BY <1>1, <1>4, ScrollHexInv DEF H!line_down, H!saturating_add, H!Smaller
<1>5. CASE H!page_up BY <1>1, <1>5, ScrollHexInv DEF H!page_up, H!saturating_sub
<1>6. CASE H!page_down BY <1>1, <1>6, ScrollHexInv DEF H!page_down, H!saturating_add, H!Smaller
<1>7. CASE H!to_record BY <1>7, StaleHexInv DEF H!to_record, H!jump, HexInv, H!TypeOK
<1>8. CASE H!to_end BY <1>8, StaleHexInv DEF H!to_end, H!jump, HexInv, H!TypeOK
<1>9. CASE H!Render BY <1>9, RenderHexInv DEF H!Render
<1>10. CASE UNCHANGED H!vars BY <1>10 DEF H!vars, HexInv, H!TypeOK, H!PaneIsFull, H!PerLine
<1> QED BY <1>2, <1>3, <1>4, <1>5, <1>6, <1>7, <1>8, <1>9, <1>10 DEF H!Next, H!Key

LEMMA HexInvariant == H!Spec => []HexInv
BY InitHexInv, NextHexInv, PTL DEF H!Spec

(* The scroll position is never outside what a usize holds.                *)
THEOREM HexTypeCorrect == H!Spec => []H!TypeOK
BY HexInvariant, PTL DEF HexInv

(* No frame leaves lines empty that it could fill, in any pane.            *)
THEOREM HexPaneIsFull == H!Spec => []H!PaneIsFull
BY HexInvariant, PTL DEF HexInv

-----------------------------------------------------------------------------
(* Which step draws a frame.                                               *)

\* A frame that is not stale and was not there before comes from Render.
LEMMA OnlyRenderDraws ==
  ASSUME H!Next, ~hex_frame'.stale, hex_frame \in H!Frames
  PROVE  H!Render
BY DEF H!Next, H!NewRecord, H!on_record_change, H!Key, H!line_up, H!line_down, H!page_up, H!page_down,
       H!to_record, H!to_end, H!scroll_to, H!jump, H!Stale, H!Frames

\* A byte is in view exactly when its line is.
LEMMA ViewOfLine ==
  ASSUME NEW n \in {4, 8, 16}, NEW byte \in Nat, NEW scroll \in Nat, NEW visible \in Nat
  PROVE  (scroll * n <= byte /\ byte < (scroll + visible) * n)
           <=> (scroll <= byte \div n /\ byte \div n < scroll + visible)
<1>1. CASE n = 4 BY <1>1
<1>2. CASE n = 8 BY <1>2
<1>3. CASE n = 16 BY <1>3
<1> QED BY <1>1, <1>2, <1>3

\* A byte of the segment is on one of its lines.
LEMMA LineInSegment ==
  ASSUME NEW n \in {4, 8, 16}, NEW byte \in 0 .. SegmentLen - 1
  PROVE  byte \div n < H!total_lines(n)
<1>1. SegmentLen \in Nat BY HexFits
<1>2. CASE n = 4 BY <1>1, <1>2 DEF H!total_lines
<1>3. CASE n = 8 BY <1>1, <1>3 DEF H!total_lines
<1>4. CASE n = 16 BY <1>1, <1>4 DEF H!total_lines
<1> QED BY <1>2, <1>3, <1>4

\* The last byte of the segment is on its last line.
LEMMA LastLine ==
  ASSUME NEW n \in {4, 8, 16}, SegmentLen > 0
  PROVE  (SegmentLen - 1) \div n = H!total_lines(n) - 1
<1>1. SegmentLen \in Nat BY HexFits
<1>2. CASE n = 4 BY <1>1, <1>2 DEF H!total_lines
<1>3. CASE n = 8 BY <1>1, <1>3 DEF H!total_lines
<1>4. CASE n = 16 BY <1>1, <1>4 DEF H!total_lines
<1> QED BY <1>2, <1>3, <1>4

\* What a frame shows, in lines.
LEMMA ShownLines ==
  ASSUME H!TypeOK, NEW width \in HexWidths, NEW visible \in HexHeights,
         H!render_hex_dump(width, visible),
         NEW byte \in Nat
  PROVE  LET n == H!hex_bytes_per_line(width) IN
         H!Shows(byte)' <=> (hex_scroll' <= byte \div n /\ byte \div n < hex_scroll' + visible)
<1> DEFINE n == H!hex_bytes_per_line(width)
<1>1. /\ hex_scroll' \in Nat
      /\ hex_frame' = [width |-> width, visible |-> visible, stale |-> FALSE]
  BY RenderScroll, HexFits
<1>2. H!Shows(byte)' <=> (hex_scroll' * n <= byte /\ byte < (hex_scroll' + visible) * n)
  BY <1>1 DEF H!Shows, H!PerLine
<1>3. n \in {4, 8, 16} /\ visible \in Nat BY LineLengths, HexFits
<1> HIDE DEF n
<1>4. QED BY <1>1, <1>2, <1>3, ViewOfLine DEF n

-----------------------------------------------------------------------------
(* Jumps land.                                                             *)

\* In lines: a line of the segment that is at most margin lines below the aim is shown.
LEMMA AimedLineShown ==
  ASSUME NEW line \in Nat, NEW total \in Nat, line < total,
         NEW visible \in Nat, NEW margin \in Nat, visible > margin,
         NEW scroll, scroll = H!Smaller(H!saturating_sub(line, margin),
                                        H!saturating_sub(total, visible))
  PROVE  scroll <= line /\ line < scroll + visible
BY DEF H!Smaller, H!saturating_sub

LEMMA RecordLands ==
  ASSUME H!TypeOK, NEW width \in HexWidths, NEW visible \in HexHeights,
         H!render_hex_dump(width, visible),
         hex_jump = "ToSelection", shown_first # H!NONE, visible > HEX_JUMP_MARGIN
  PROVE  H!Shows(shown_first)'
<1> DEFINE n == H!hex_bytes_per_line(width)
<1>1. n \in {4, 8, 16} BY LineLengths
<1>2. /\ shown_first \in 0 .. SegmentLen - 1 /\ shown_first \in Nat
      /\ visible \in Nat /\ HEX_JUMP_MARGIN \in Nat
  BY HexFits DEF H!TypeOK
<1>3. /\ shown_first \div n \in Nat /\ H!total_lines(n) \in Nat
      /\ shown_first \div n < H!total_lines(n)
  BY <1>1, <1>2, LineOfByte, LineInSegment, LinesCover
<1>4. /\ hex_scroll' = H!Smaller(H!saturating_sub(shown_first \div n, HEX_JUMP_MARGIN),
                               H!saturating_sub(H!total_lines(n), visible))
      /\ UNCHANGED shown_first
  BY DEF H!render_hex_dump, H!Aimed, H!LastScroll
<1>5. H!Shows(shown_first)'
        <=> (hex_scroll' <= shown_first \div n /\ shown_first \div n < hex_scroll' + visible)
  <2>1. \A byte \in Nat :
            H!Shows(byte)' <=> (hex_scroll' <= byte \div n /\ byte \div n < hex_scroll' + visible)
    BY ShownLines
  <2> QED BY <1>2, <1>4, <2>1 DEF H!Shows, H!PerLine
<1> HIDE DEF n
<1> QED BY <1>2, <1>3, <1>4, <1>5, AimedLineShown

LEMMA EndLands ==
  ASSUME H!TypeOK, NEW width \in HexWidths, NEW visible \in HexHeights,
         H!render_hex_dump(width, visible),
         hex_jump = "ToEnd", visible > 0, SegmentLen > 0
  PROVE  H!Shows(SegmentLen - 1)'
<1> DEFINE n == H!hex_bytes_per_line(width)
           line == (SegmentLen - 1) \div n
<1>1. n \in {4, 8, 16} BY LineLengths
<1>2. SegmentLen - 1 \in Nat /\ visible \in Nat BY HexFits
<1>3. line \in Nat /\ H!total_lines(n) \in Nat /\ line = H!total_lines(n) - 1
  BY <1>1, <1>2, LineOfByte, LastLine, LinesCover
<1>4. hex_scroll' = H!Smaller(H!saturating_sub(H!total_lines(n), visible),
                            H!saturating_sub(H!total_lines(n), visible))
  BY DEF H!render_hex_dump, H!Aimed, H!LastScroll
<1>5. H!Shows(SegmentLen - 1)' <=> (hex_scroll' <= line /\ line < hex_scroll' + visible)
  BY <1>2, ShownLines
<1> HIDE DEF n, line
<1>6. hex_scroll' <= line /\ line < hex_scroll' + visible
  BY <1>2, <1>3, <1>4 DEF H!Smaller, H!saturating_sub
<1> QED BY <1>5, <1>6

(* The frame after a jump shows what was jumped to.                        *)
THEOREM HexJumpsLand == H!Spec => H!JumpsLand
<1> DEFINE lands ==
      H!Drawn => /\ hex_jump = "ToSelection" /\ shown_first # H!NONE
                    /\ hex_frame'.visible > HEX_JUMP_MARGIN
                    => H!Shows(shown_first)'
                 /\ hex_jump = "ToEnd" /\ hex_frame'.visible > 0 /\ SegmentLen > 0
                    => H!Shows(SegmentLen - 1)'
<1>1. HexInv /\ [H!Next]_(H!vars) => [lands]_(H!vars)
  <2> SUFFICES ASSUME HexInv, H!Next, H!Drawn PROVE lands
    OBVIOUS
  <2>1. H!TypeOK /\ hex_frame \in H!Frames BY DEF HexInv, H!TypeOK
  <2>2. PICK width \in HexWidths, visible \in HexHeights : H!render_hex_dump(width, visible)
    BY <2>1, OnlyRenderDraws DEF H!Drawn, H!Render
  <2>3. hex_frame'.visible = visible BY <2>2 DEF H!render_hex_dump
  <2> QED BY <2>1, <2>2, <2>3, RecordLands, EndLands
<1> QED BY <1>1, HexInvariant, PTL DEF H!Spec, H!JumpsLand

-----------------------------------------------------------------------------
(* What is in view stays in view.                                          *)

LEMMA ClampKeepsLine ==
  ASSUME NEW line \in Nat, NEW total \in Nat, line < total,
         NEW was \in Nat, NEW small \in Nat, NEW visible \in Nat, small <= visible,
         was <= line, line < was + small,
         NEW scroll, scroll = H!Smaller(was, H!saturating_sub(total, visible))
  PROVE  scroll <= line /\ line < scroll + visible
BY DEF H!Smaller, H!saturating_sub

(* As long as lines keep their length and the pane does not shrink, no     *)
(* frame takes the selected record out of view.                            *)
THEOREM RecordStaysInView == H!Spec => H!StaysInView
<1> DEFINE stays ==
      hex_jump = "None" /\ shown_first # H!NONE /\ ~hex_frame'.stale
        /\ H!SamePane /\ H!Shows(shown_first)
        => H!Shows(shown_first)'
<1>1. HexInv /\ [H!Next]_(H!vars) => [stays]_(H!vars)
  <2> SUFFICES ASSUME HexInv, H!Next,
                      hex_jump = "None", shown_first # H!NONE, ~hex_frame'.stale,
                      H!SamePane, H!Shows(shown_first)
               PROVE  H!Shows(shown_first)'
    OBVIOUS
  <2>1. H!TypeOK /\ hex_frame \in H!Frames BY DEF HexInv, H!TypeOK
  <2>2. PICK width \in HexWidths, visible \in HexHeights : H!render_hex_dump(width, visible)
    BY <2>1, OnlyRenderDraws DEF H!Render
  <2> DEFINE n == H!hex_bytes_per_line(width)
             small == hex_frame.visible
  <2>3. hex_frame'.visible = visible /\ hex_frame'.width = width BY <2>2 DEF H!render_hex_dump
  <2>4. n \in {4, 8, 16} BY LineLengths
  <2>5. /\ shown_first \in 0 .. SegmentLen - 1 /\ shown_first \in Nat /\ visible \in Nat
        /\ small \in Nat /\ hex_scroll \in Nat
    <3>1. hex_frame.visible \in HexHeights \cup {0} BY <2>1 DEF H!Frames
    <3>2. shown_first \in Of("first") /\ hex_scroll \in 0 .. USIZE_MAX BY <2>1 DEF H!TypeOK
    <3>3. /\ visible \in Nat /\ Of("first") \subseteq 0 .. SegmentLen - 1
          /\ HexHeights \cup {0} \subseteq Nat /\ SegmentLen \in Nat /\ USIZE_MAX \in Nat
      BY HexFits
    <3>4. small \in Nat BY <3>1, <3>3
    <3>5. shown_first \in 0 .. SegmentLen - 1 BY <3>2, <3>3
    <3>6. shown_first \in Nat BY <3>3, <3>5
    <3>7. hex_scroll \in Nat BY <3>2, <3>3
    <3> QED BY <3>3, <3>4, <3>5, <3>6, <3>7
  <2>6. small <= visible /\ H!PerLine = n BY <2>3, <2>5 DEF H!SamePane
  <2>7. hex_scroll <= shown_first \div n /\ shown_first \div n < hex_scroll + small
    <3>1. hex_scroll * n <= shown_first /\ shown_first < (hex_scroll + small) * n
      BY <2>6 DEF H!Shows
    <3> HIDE DEF n, small
    <3> QED BY <2>4, <2>5, <3>1, ViewOfLine
  <2>8. /\ shown_first \div n \in Nat /\ H!total_lines(n) \in Nat
        /\ shown_first \div n < H!total_lines(n)
    BY <2>4, <2>5, LineOfByte, LineInSegment, LinesCover
  <2>9. /\ hex_scroll' = H!Smaller(hex_scroll, H!saturating_sub(H!total_lines(n), visible))
        /\ UNCHANGED shown_first
    BY <2>2 DEF H!render_hex_dump, H!Aimed, H!LastScroll
  <2>10. H!Shows(shown_first)'
           <=> (hex_scroll' <= shown_first \div n /\ shown_first \div n < hex_scroll' + visible)
    <3>1. \A byte \in Nat :
            H!Shows(byte)' <=> (hex_scroll' <= byte \div n /\ byte \div n < hex_scroll' + visible)
      BY <2>1, <2>2, ShownLines
    <3> QED BY <2>5, <2>9, <3>1 DEF H!Shows, H!PerLine
  <2> HIDE DEF n, small
  <2> QED BY <2>5, <2>6, <2>7, <2>8, <2>9, <2>10, ClampKeepsLine
<1> QED BY <1>1, HexInvariant, PTL DEF H!Spec, H!StaysInView

HIDE DEF shown_first, HexWidths, HexHeights

-----------------------------------------------------------------------------
(* Every step of the viewer is one of the record list, or none.            *)

LEMMA ViewerInit == Init => L!Init /\ D!Init /\ H!Init /\ records \in Segments
  BY DEF Init

LEMMA RecordsStay ==
  ASSUME [Next]_vars
  PROVE  records' = records
<1>1. CASE draw
  BY <1>1 DEF draw, DrawPanes, DrawTooSmall, list
<1>2. CASE handle_events
  BY <1>2 DEF handle_events
<1>3. CASE UNCHANGED vars
  BY <1>3 DEF vars, list
<1> QED
  BY <1>1, <1>2, <1>3 DEF Next

LEMMA SameRecords == ASSUME records' = records PROVE Xids(records)' = Xids(records)
  BY DEF Xids

LEMMA ListStays == ASSUME UNCHANGED list PROVE UNCHANGED L!vars
  BY DEF list, L!vars, Xids

LEMMA ListSteps ==
  ASSUME [Next]_vars
  PROVE  [L!Next]_(L!vars)
<1>1. CASE draw
  <2>1. CASE DrawTooSmall
    BY <2>1, ListStays DEF DrawTooSmall
  <2>2. CASE DrawPanes
    BY <2>2 DEF DrawPanes, L!Next, L!Render
  <2> QED
    BY <1>1, <2>1, <2>2 DEF draw
<1>2. CASE handle_events
  <2>1. CASE handle_record_list_key
    BY <2>1 DEF handle_record_list_key, SelectingKey, FollowingKey, L!Next, L!Key
  <2>2. CASE UNCHANGED list
    BY <2>2, ListStays
  <2> QED
    BY <1>2, <2>1, <2>2
       DEF handle_events, PaneKey, Tab, Quit, Ignored, handle_details_key, handle_hex_dump_key
<1>3. CASE UNCHANGED vars
  BY <1>3, ListStays DEF vars
<1> QED
  BY <1>1, <1>2, <1>3 DEF Next

\* The list hears only the keys that are meant for it, and is not drawn in every frame.
LEMMA ListIsImplemented == Spec => L!Spec
  BY ViewerInit, ListSteps, PTL DEF Spec, L!Spec

\* A record is selected if there is one, and it is one of the segment.
Selection ==
  /\ records \in Segments
  /\ selected = L!NONE <=> records = <<>>
  /\ selected # L!NONE => selected + 1 \in DOMAIN records

LEMMA SelectionInvariant == Spec => []Selection
<1>1. Spec => []LP!ListInv
  BY ListFits, LP!ListInvariant, ListIsImplemented, SameList, PTL DEF L!Spec, LP!Spec
<1>2. Spec => [](records \in Segments)
  <2>1. records \in Segments /\ [Next]_vars => (records \in Segments)'
    BY RecordsStay
  <2> QED
    BY <2>1, ViewerInit, PTL DEF Spec
<1>3. LP!ListInv /\ records \in Segments => Selection
  <2> SUFFICES ASSUME LP!ListInv, records \in Segments PROVE Selection
    OBVIOUS
  <2>1. /\ Xids(records) \in Seq(Nat) /\ Len(Xids(records)) = Len(records)
        /\ DOMAIN records = 1 .. Len(records) /\ Len(records) \in Nat
        /\ records = <<>> <=> Len(records) = 0
    BY Zenon, SegmentTypes
  <2>2. records = <<>> <=> Xids(records) = <<>>
    BY <2>1
  <2>3. /\ selected \in (0 .. Len(Xids(records)) - 1) \cup {L!NONE}
        /\ selected = L!NONE <=> Xids(records) = <<>>
    BY DEF LP!ListInv, LP!TypeOK, LP!CacheIsFresh, LP!Indices, LP!NONE, L!NONE
  <2> QED
    BY <2>1, <2>2, <2>3 DEF Selection
<1> QED
  BY <1>1, <1>2, <1>3, PTL

-----------------------------------------------------------------------------
(* What the other two panes are told of a key for the list.                *)

\* Either the selected record is another one, or perhaps the same again, and
\* both panes are told; or nothing has changed for them.
LEMMA RecordListKey ==
  ASSUME Selection, Selection', records' = records, handle_record_list_key
  PROVE  \/ /\ on_record_change /\ selected' # L!NONE
            /\ selected_record'.shape \in Of("shape") /\ selected_record'.first \in Of("first")
         \/ NoRecordChange /\ selected' = selected
<1>1. ASSUME records # <<>>
      PROVE  /\ selected' # L!NONE
             /\ selected_record'.shape \in Of("shape") /\ selected_record'.first \in Of("first")
  <2>1. records \in Segments /\ selected' # L!NONE /\ selected' + 1 \in DOMAIN records
    BY <1>1 DEF Selection, L!NONE
  <2>2. selected_record' = records[selected' + 1]
    BY DEF selected_record
  <2> QED
    BY <2>1, <2>2, SegmentTypes
<1>2. ASSUME records = <<>> PROVE selected' = selected
  BY <1>2 DEF Selection, L!NONE
<1>3. CASE SelectingKey
  BY <1>1, <1>2, <1>3 DEF SelectingKey
<1>4. CASE FollowingKey
  BY <1>1, <1>2, <1>4 DEF FollowingKey
<1> QED
  BY <1>3, <1>4 DEF handle_record_list_key

LEMMA SelectedStays ==
  ASSUME UNCHANGED <<records, selected>>
  PROVE  selected_record' = selected_record
  BY DEF selected_record

LEMMA HexStays == ASSUME UNCHANGED <<records, selected, hex>> PROVE UNCHANGED H!vars
  BY SelectedStays DEF hex, H!vars, L!NONE

LEMMA HexSteps ==
  ASSUME Selection, Selection', [Next]_vars
  PROVE  [H!Next]_(H!vars)
<1>1. CASE draw
  <2>1. CASE DrawTooSmall
    BY <2>1, HexStays DEF DrawTooSmall, list
  <2>2. CASE DrawPanes
    BY <2>2 DEF DrawPanes, H!Next, H!Render
  <2> QED
    BY <1>1, <2>1, <2>2 DEF draw
<1>2. CASE handle_events
  <2>1. CASE handle_record_list_key
    <3>1. CASE on_record_change /\ selected' # L!NONE /\ selected_record'.first \in Of("first")
      BY <3>1 DEF on_record_change, H!Next, H!NewRecord
    <3>2. CASE NoRecordChange /\ selected' = selected
      BY <3>2, RecordsStay, HexStays DEF NoRecordChange
    <3> QED
      BY <2>1, <3>1, <3>2, RecordsStay, RecordListKey
  <2>2. CASE handle_hex_dump_key
    BY <2>2 DEF handle_hex_dump_key, H!Next
  <2>3. CASE UNCHANGED <<list, hex>>
    BY <2>3, HexStays DEF list
  <2> QED
    BY <1>2, <2>1, <2>2, <2>3
       DEF handle_events, PaneKey, Tab, Quit, Ignored, handle_details_key
<1>3. CASE UNCHANGED vars
  BY <1>3, HexStays DEF vars, list
<1> QED
  BY <1>1, <1>2, <1>3 DEF Next

LEMMA DetailsStay == ASSUME UNCHANGED <<records, selected, details>> PROVE UNCHANGED D!vars
  BY SelectedStays DEF details, D!vars, L!NONE

LEMMA DetailsSteps ==
  ASSUME Selection, Selection', [Next]_vars
  PROVE  [D!Next]_(D!vars)
<1>1. CASE draw
  <2>1. CASE DrawTooSmall
    BY <2>1, DetailsStay DEF DrawTooSmall, list
  <2>2. CASE DrawPanes
    BY <2>2 DEF DrawPanes, D!Next, D!Render
  <2> QED
    BY <1>1, <2>1, <2>2 DEF draw
<1>2. CASE handle_events
  <2>1. CASE handle_record_list_key
    <3>1. CASE on_record_change /\ selected' # L!NONE /\ selected_record'.shape \in Of("shape")
      BY <3>1 DEF on_record_change, D!Next, D!NewRecord
    <3>2. CASE NoRecordChange /\ selected' = selected
      BY <3>2, RecordsStay, DetailsStay DEF NoRecordChange
    <3> QED
      BY <2>1, <3>1, <3>2, RecordsStay, RecordListKey
  <2>2. CASE handle_details_key
    BY <2>2 DEF handle_details_key, D!Next
  <2>3. CASE UNCHANGED <<list, details>>
    BY <2>3, DetailsStay DEF list
  <2> QED
    BY <1>2, <2>1, <2>2, <2>3
       DEF handle_events, PaneKey, Tab, Quit, Ignored, handle_hex_dump_key
<1>3. CASE UNCHANGED vars
  BY <1>3, DetailsStay DEF vars, list
<1> QED
  BY <1>1, <1>2, <1>3 DEF Next

(***************************************************************************)
(* The hex pane of the program is the one of HexPane: the selected record  *)
(* is the only thing that it shares, and it is told of every change of it. *)
(***************************************************************************)
THEOREM HexIsImplemented == Spec => ImplementsHex
  BY ViewerInit, HexSteps, SelectionInvariant, PTL DEF Spec, ImplementsHex, H!Spec

(***************************************************************************)
(* The DETAILS pane of the program is the one of DetailTree: a record has  *)
(* its own accordion from the moment it is selected.                       *)
(***************************************************************************)
THEOREM DetailsAreImplemented == Spec => ImplementsDetails
  BY ViewerInit, DetailsSteps, SelectionInvariant, PTL DEF Spec, ImplementsDetails, D!Spec

-----------------------------------------------------------------------------
(* What is proved of the panes, of the program.                            *)

(***************************************************************************)
(* In the program, whichever pane hears the keys: after a frame the        *)
(* selected row is in the window, the window is full, the graph beside the *)
(* rows is the graph of the selected transaction, and s and r follow it.   *)
(***************************************************************************)
THEOREM ViewerListIsSound ==
  Spec => [](L!SelectedIsShown /\ L!WindowIsFull /\ L!GraphIsExact /\ L!KeysFollowGraph)
<1>1. Spec => LP!Spec
  BY ListIsImplemented, SameList, PTL DEF L!Spec, LP!Spec
<1>2. LP!Spec => [](LP!SelectedIsShown /\ LP!WindowIsFull /\ LP!GraphIsExact /\ LP!KeysFollowGraph)
  BY ListFits, LP!WindowHasSelection, LP!WindowHasNoGap, LP!GraphOfSelection, LP!KeysGoAlongGraph, PTL
<1> QED
  BY <1>1, <1>2, SameList, PTL

(***************************************************************************)
(* In the program, whichever pane hears the keys: the cursor of the        *)
(* DETAILS pane is on a heading of the selected record, and in view.       *)
(***************************************************************************)
THEOREM ViewerDetailsAreSound ==
  Spec => [](D!CursorOnHeading /\ D!CursorInView)
<1>1. Spec => DP!Spec
  BY DetailsAreImplemented, SameDetails, PTL DEF ImplementsDetails, D!Spec, DP!Spec
<1>2. DP!Spec => [](DP!CursorOnHeading /\ DP!CursorInView)
  BY DetailsFit, DP!CursorIsOnHeading, DP!CursorIsInView, PTL
<1> QED
  BY <1>1, <1>2, SameDetails, PTL

(***************************************************************************)
(* In the program, whatever is pressed in the other panes in between: no   *)
(* frame leaves a line of the hex pane empty that it could fill, a jump is *)
(* made by the next frame of the pane, however many frames without a pane  *)
(* come first, and a record in view stays there.                           *)
(***************************************************************************)
THEOREM ViewerHexIsSound == Spec => []H!PaneIsFull /\ H!JumpsLand /\ H!StaysInView
BY HexIsImplemented, HexPaneIsFull, HexJumpsLand, RecordStaysInView, PTL DEF ImplementsHex

=============================================================================
