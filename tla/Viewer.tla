------------------------------- MODULE Viewer -------------------------------
(***************************************************************************)
(* The viewer as a whole (App in main.rs): its loop of drawing and waiting *)
(* for a key, the focus that decides which pane hears the key, and the one *)
(* thing the panes share, the selected record.  Each pane is an instance   *)
(* of its module; none has a copy of the record, all look it up.           *)
(***************************************************************************)
EXTENDS Integers, Sequences

CONSTANTS
  Segments,       \* what the reader can have returned: sequences of [xid, shape, first]
  Layouts,        \* room for the panes in a terminal: [list, details, hex, width]
  SegmentLen, PAGE_JUMP_SIZE, HEX_JUMP_MARGIN, USIZE_MAX, FIRST_NORMAL_TRANSACTION_ID

VARIABLES
  records,
  selected, list_offset, xid_range, shown,
  tree, detail_scroll, details_frame,
  hex_scroll, hex_jump, hex_frame,
  focus, exit,
  pc              \* "draw" or "event"

list    == <<records, selected, list_offset, xid_range, shown>>
details == <<tree, detail_scroll, details_frame>>
hex     == <<hex_scroll, hex_jump, hex_frame>>
vars    == <<list, details, hex, focus, exit, pc>>

Of(field) == UNION {{s[i][field] : i \in DOMAIN s} : s \in Segments}

Xids(segment) == [i \in DOMAIN segment |-> segment[i].xid]

L == INSTANCE RecordList WITH
       xids <- Xids(records), XidLists <- {Xids(s) : s \in Segments},
       Heights <- {room.list : room \in Layouts}

selected_record == records[selected + 1]

D == INSTANCE DetailTree WITH
       record <- IF selected = L!NONE THEN [blocks |-> <<>>, has_main |-> FALSE, main_fields |-> -1]
                 ELSE selected_record.shape,
       frame <- details_frame,
       Shapes <- Of("shape"), Heights <- {room.details : room \in Layouts}

H == INSTANCE HexPane WITH
       first <- IF selected = L!NONE THEN L!NONE ELSE selected_record.first,
       frame <- hex_frame,
       FirstBytes <- Of("first"),
       Widths <- {room.width : room \in Layouts}, Heights <- {room.hex : room \in Layouts}

\* A terminal of MIN_HEIGHT lines has room for one record and for one detail.
ASSUME ViewerAssumption ==
  /\ Segments \subseteq Seq([xid : Nat, shape : Of("shape"), first : 0 .. SegmentLen - 1])
  /\ Of("shape") \subseteq D!RecordShape
  /\ \A room \in Layouts : {room.list, room.details} \subseteq Nat \ {0}
                              /\ {room.hex, room.width} \subseteq Nat
  /\ {SegmentLen, PAGE_JUMP_SIZE, HEX_JUMP_MARGIN, USIZE_MAX} \subseteq Nat
  /\ SegmentLen <= USIZE_MAX /\ FIRST_NORMAL_TRANSACTION_ID \in Nat \ {0}

-----------------------------------------------------------------------------
Init ==
  /\ records \in Segments
  /\ L!Init /\ D!Init /\ H!Init
  /\ focus = "RecordList" /\ exit = FALSE
  /\ pc = "draw"

\* Faulty: the accordion of the last record is kept.
on_record_change_KeepsTree ==
  /\ H!on_record_change(selected_record'.first)
  /\ UNCHANGED details

\* What select does to the other two panes.
on_record_change ==
  /\ D!on_record_change(selected_record'.shape)
  /\ H!on_record_change(selected_record'.first)

NoRecordChange == UNCHANGED <<details, hex>>

-----------------------------------------------------------------------------
(* Keys.                                                                   *)

\* A key that selects does so even if the selection does not move.
SelectingKey ==
  /\ L!move_record_down \/ L!move_record_up \/ L!move_top \/ L!move_bottom \/ L!page_up \/ L!page_down
  /\ IF records = <<>> THEN NoRecordChange ELSE on_record_change

\* s and r select only if there is another record of the transaction.
FollowingKey ==
  /\ L!move_next_same_xid \/ L!move_prev_same_xid
  /\ IF selected' = selected THEN NoRecordChange ELSE on_record_change

handle_record_list_key == SelectingKey \/ FollowingKey

handle_details_key == UNCHANGED <<list, hex>> /\ D!Key

handle_hex_dump_key == UNCHANGED <<list, details>> /\ H!Key

cycle_focus ==
  focus' = CASE focus = "RecordList" -> "Details"
             [] focus = "Details"    -> "HexDump"
             [] focus = "HexDump"    -> "RecordList"

Hears(pane) == focus = pane

PaneKey ==
  /\ \/ Hears("RecordList") /\ handle_record_list_key
     \/ Hears("Details") /\ handle_details_key
     \/ Hears("HexDump") /\ handle_hex_dump_key
  /\ UNCHANGED <<focus, exit>>

Tab  == cycle_focus /\ UNCHANGED <<list, details, hex, exit>>
Quit == exit' = TRUE /\ UNCHANGED <<list, details, hex, focus>>

\* A key that the pane does not know, or an event that is not a key.
Ignored == UNCHANGED <<list, details, hex, focus, exit>>

handle_events ==
  /\ pc = "event" /\ pc' = "draw"
  /\ UNCHANGED records
  /\ PaneKey \/ Tab \/ Quit \/ Ignored

-----------------------------------------------------------------------------
(* Drawing.                                                                *)

\* Faulty: a jump that could not be made is forgotten.
DrawTooSmall_ForgetsJump ==
  /\ hex_jump' = "None"
  /\ UNCHANGED <<list, details, hex_scroll, hex_frame>>

\* Below MIN_WIDTH or MIN_HEIGHT no pane is drawn, and no jump is made.
DrawTooSmall == UNCHANGED <<list, details, hex>>

DrawPanes ==
  /\ UNCHANGED records
  /\ \E room \in Layouts :
       /\ L!render_record_list(room.list)
       /\ D!render_details(room.details)
       /\ H!render_hex_dump(room.width, room.hex)

draw ==
  /\ pc = "draw" /\ ~exit
  /\ DrawPanes \/ DrawTooSmall
  /\ pc' = "event"
  /\ UNCHANGED <<focus, exit>>

Next == draw \/ handle_events

Spec == Init /\ [][Next]_vars

-----------------------------------------------------------------------------
(* Properties.                                                             *)

(***************************************************************************)
(* The DETAILS and the hex pane do, among the others, what their modules   *)
(* say and nothing else: they are told of every selection, whichever key   *)
(* made it, and neither the keys of other panes nor the frames in which    *)
(* nothing is drawn touch them, a jump that is still to be made least of   *)
(* all.                                                                    *)
(***************************************************************************)
ImplementsDetails == D!Spec
ImplementsHex     == H!Spec
=============================================================================
