------------------------------- MODULE HexPane -------------------------------
(***************************************************************************)
(* The HEX DUMP pane of the viewer (main.rs): which lines of the segment a *)
(* frame shows.  A line has as many bytes as the pane has room for, so a   *)
(* place in the segment is a line number only for one width; and a jump is *)
(* only noted by its key, and made by the next frame.                      *)
(***************************************************************************)
EXTENDS Integers

CONSTANTS
  SegmentLen,           \* segment.bytes.len()
  FirstBytes,           \* where the bytes of a record can begin in it
  Widths, Heights,      \* columns and lines a pane can have inside its border
  PAGE_JUMP_SIZE, HEX_JUMP_MARGIN, USIZE_MAX

ASSUME HexAssumption ==
  /\ SegmentLen \in Nat /\ FirstBytes \subseteq 0 .. SegmentLen - 1
  /\ Widths \subseteq Nat /\ Heights \subseteq Nat
  /\ PAGE_JUMP_SIZE \in Nat /\ HEX_JUMP_MARGIN \in Nat
  /\ USIZE_MAX \in Nat /\ SegmentLen <= USIZE_MAX

VARIABLES
  first,        \* first byte of the selected record in the file, NONE if none is selected
  hex_scroll, hex_jump,
  frame         \* geometry of the last frame; stale once a key has changed the pane since

vars == <<first, hex_scroll, hex_jump, frame>>

NONE == -1

Smaller(a, b)        == IF a < b THEN a ELSE b
saturating_sub(a, b) == IF a > b THEN a - b ELSE 0

saturating_add(a, b) == Smaller(a + b, USIZE_MAX)

-----------------------------------------------------------------------------
HEX_PREFIX_WIDTH == 10 + 1 + 8 + 2
HEX_GROUP        == 4

hex_column_width(n) == n * 3 - 1 + (n \div HEX_GROUP - 1)

FitsIn(n, width) == HEX_PREFIX_WIDTH + hex_column_width(n) + 2 + n <= width

hex_bytes_per_line(width) == IF FitsIn(16, width) THEN 16 ELSE IF FitsIn(8, width) THEN 8 ELSE 4

total_lines(n) == (SegmentLen + n - 1) \div n

-----------------------------------------------------------------------------
Frames == [width : Widths \cup {0}, visible : Heights \cup {0}, stale : BOOLEAN]

Init ==
  /\ first \in FirstBytes \cup {NONE}
  /\ hex_scroll = 0 /\ hex_jump = "ToSelection"
  /\ frame = [width |-> 0, visible |-> 0, stale |-> TRUE]

Stale == frame' = [frame EXCEPT !.stale = TRUE]

\* The part of on_record_change that is about this pane.
on_record_change(byte) ==
  /\ first' = byte
  /\ hex_jump' = "ToSelection"
  /\ Stale /\ UNCHANGED hex_scroll

NewRecord == \E byte \in FirstBytes : on_record_change(byte)

\* handle_hex_dump_key.
scroll_to(line) == hex_scroll' = line /\ Stale /\ UNCHANGED <<first, hex_jump>>
jump(to)        == hex_jump' = to /\ Stale /\ UNCHANGED <<first, hex_scroll>>

line_up   == scroll_to(saturating_sub(hex_scroll, 1))
line_down == scroll_to(saturating_add(hex_scroll, 1))
page_up   == scroll_to(saturating_sub(hex_scroll, PAGE_JUMP_SIZE))
page_down == scroll_to(saturating_add(hex_scroll, PAGE_JUMP_SIZE))
to_record == jump("ToSelection")
to_end    == jump("ToEnd")

Key == line_up \/ line_down \/ page_up \/ page_down \/ to_record \/ to_end

-----------------------------------------------------------------------------
(* render_hex_dump.                                                        *)

\* Faulty: the jump is made with the widest lines.
Aimed_Wide(per_line, visible) ==
  CASE hex_jump = "ToSelection" /\ first # NONE -> saturating_sub(first \div 16, HEX_JUMP_MARGIN)
    [] hex_jump = "ToEnd"                       -> saturating_sub(total_lines(per_line), visible)
    [] OTHER                                    -> hex_scroll

Aimed(per_line, visible) ==
  CASE hex_jump = "ToSelection" /\ first # NONE ->
         saturating_sub(first \div per_line, HEX_JUMP_MARGIN)
    [] hex_jump = "ToEnd" -> saturating_sub(total_lines(per_line), visible)
    [] OTHER              -> hex_scroll

\* Faulty: the last line may be brought to the top.
LastScroll_AnyLine(per_line, visible) == saturating_sub(total_lines(per_line), 1)

LastScroll(per_line, visible) == saturating_sub(total_lines(per_line), visible)

render_hex_dump(width, visible) ==
  LET per_line == hex_bytes_per_line(width) IN
  /\ hex_scroll' = Smaller(Aimed(per_line, visible), LastScroll(per_line, visible))
  /\ hex_jump' = "None"
  /\ frame' = [width |-> width, visible |-> visible, stale |-> FALSE]
  /\ UNCHANGED first

Render == \E width \in Widths, visible \in Heights : render_hex_dump(width, visible)

Next == NewRecord \/ Key \/ Render

Spec == Init /\ [][Next]_vars

-----------------------------------------------------------------------------
(* Properties.                                                             *)

\* The type invariant.
TypeOK ==
  /\ first \in FirstBytes \cup {NONE}
  /\ hex_scroll \in 0 .. USIZE_MAX
  /\ hex_jump \in {"None", "ToSelection", "ToEnd"}
  /\ frame \in Frames

PerLine == hex_bytes_per_line(frame.width)
Total   == total_lines(PerLine)

\* Whether the byte is on one of the lines in the pane.
Shows(byte) ==
  hex_scroll * PerLine <= byte /\ byte < (hex_scroll + frame.visible) * PerLine

(***************************************************************************)
(* After a frame no line of the pane is empty while there are bytes above  *)
(* that it could show, whatever was pressed and however the pane changed.  *)
(***************************************************************************)
PaneIsFull == ~frame.stale => hex_scroll = 0 \/ (hex_scroll + frame.visible) * PerLine < SegmentLen + PerLine

(***************************************************************************)
(* A jump lands: in a pane with room for the context and one line more the *)
(* frame after a jump to the record, or after a record was selected, shows *)
(* where the record begins; the frame after a jump to the end shows the    *)
(* last byte of the segment.                                               *)
(***************************************************************************)
Drawn == frame' # frame /\ ~frame'.stale

JumpsLand ==
  [][ Drawn => /\ hex_jump = "ToSelection" /\ first # NONE /\ frame'.visible > HEX_JUMP_MARGIN
                    => Shows(first)'
               /\ hex_jump = "ToEnd" /\ frame'.visible > 0 /\ SegmentLen > 0
                    => Shows(SegmentLen - 1)' ]_vars

(***************************************************************************)
(* A record in view stays in view as long as lines keep their length and   *)
(* the pane does not shrink: no frame by itself moves it away.             *)
(***************************************************************************)
SamePane ==
  frame'.visible >= frame.visible /\ hex_bytes_per_line(frame'.width) = PerLine

StaysInView ==
  [][ hex_jump = "None" /\ first # NONE /\ ~frame'.stale /\ SamePane /\ Shows(first)
        => Shows(first)' ]_vars
=============================================================================
