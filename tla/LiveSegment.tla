----------------------------- MODULE LiveSegment -----------------------------
(***************************************************************************)
(* The reader of WalReader on a segment that a PostgreSQL server has       *)
(* written or is still writing.  The server is not part of the program:    *)
(* it lays records out as the segment builder of the reader's tests does,  *)
(* and may have got any part of the way through the segment.               *)
(*                                                                         *)
(* A position in the WAL of the segment is counted in CONTENT cells, which *)
(* leave the page headers out.  Record 0 began in an earlier segment.      *)
(***************************************************************************)
EXTENDS WalReader, FiniteSets

CONSTANTS
  Layouts      \* the segments to read: see IsLayout

VARIABLES
  wal,         \* the layout of this segment
  flushed,     \* content cells the server has written
  at_open      \* the value of flushed when the reader opened the file

live == <<wal, flushed, at_open>>

(***************************************************************************)
(* A layout: the lengths of the records, lens[0] and left giving the       *)
(* record carried over from the earlier segment and how much of it is in   *)
(* this one; the page cut where the server, restarted after a crash, went  *)
(* on over the rest of the record that the crash had left unfinished; the  *)
(* content positions where the records start, which follow from these; the *)
(* damaged cells; the page with a damaged header and how; what the pages   *)
(* hold that the server has not written; and after which cells of a record *)
(* its writing can be seen half done, if a page can be caught half copied. *)
(***************************************************************************)
PageFaults == {"magic", "flags", "long", "addr", "tli"}

-----------------------------------------------------------------------------
(* Where the content is.                                                   *)

HeaderOf(p)     == IF p = 0 THEN LongHdr ELSE ShortHdr
FirstContent(p) == IF p = 0 THEN 0 ELSE (Blcksz - LongHdr) + (p - 1) * (Blcksz - ShortHdr)

\* The content position of offset o of page p, and the file cell of position u.
ContentAt(p, o) == FirstContent(p) + o - HeaderOf(p)
FileCell(u) ==
  LET v == u - (Blcksz - LongHdr)
      p == IF v < 0 THEN 0 ELSE 1 + v \div (Blcksz - ShortHdr)
  IN  p * Blcksz + HeaderOf(p) + (u - FirstContent(p))

\* Is a record of len cells from content position u on cut off by the crash?
Cuts(w, u, len) == w.cut # NO_PAGE /\ u < FirstContent(w.cut) /\ FirstContent(w.cut) < u + len

\* Where record r starts, when those before it start where start says.
StartAfter(w, r, start) ==
  IF r = 0 THEN w.left - w.lens[0]
  ELSE IF Cuts(w, start[r - 1], w.lens[r - 1]) THEN FirstContent(w.cut)
  ELSE IF r = 1 THEN maxalign(w.left)
  ELSE start[r - 1] + maxalign(w.lens[r - 1])

Capacity == FirstContent(PagesPerSegment)

IsLayout(w) ==
  /\ IsFiniteSet(DOMAIN w.lens) /\ DOMAIN w.lens = 0 .. Cardinality(DOMAIN w.lens) - 1
  /\ 0 \in DOMAIN w.lens /\ \A r \in DOMAIN w.lens : w.lens[r] \in Nat
  /\ w.left = 0 \/ w.left \in 1 .. w.lens[0] - 1
  /\ \A r \in DOMAIN w.lens \ {0} : LengthInRange(w.lens[r]) /\ w.start[r] < Capacity
  /\ w.cut \in PageNo \cup {NO_PAGE}
  /\ \A r \in DOMAIN w.lens : w.start[r] = StartAfter(w, r, w.start)
  /\ w.flipped \subseteq UNION {{r} \X (0 .. w.lens[r] - 1) : r \in DOMAIN w.lens}
  /\ w.torn \subseteq Nat
  /\ w.fault_page \in PageNo \cup {NO_PAGE} /\ w.fault \in PageFaults
  /\ w.base \in {"zero", "recycled"}
  /\ w.pages \in 0 .. PagesPerSegment

Aborted(w, r) == Cuts(w, w.start[r], w.lens[r])
EndOf(w, r) == IF Aborted(w, r) THEN FirstContent(w.cut) ELSE w.start[r] + w.lens[r]

Last(w)      == Cardinality(DOMAIN w.lens) - 1
WalRecords(w) == 1 .. Last(w)
WalEnd(w)    == EndOf(w, Last(w))
Written(w)   == IF WalEnd(w) < FirstContent(PagesPerSegment) THEN WalEnd(w)
                                                             ELSE FirstContent(PagesPerSegment)

CellOf(w, u) ==
  LET holds == {r \in DOMAIN w.lens : w.start[r] <= u /\ u < EndOf(w, r)} IN
  IF holds = {} THEN Zero
  ELSE LET r == CHOOSE r \in holds : TRUE
           i == u - w.start[r]
       IN  RecordCell(r, w.lens[r], i, <<r, i>> \notin w.flipped)

\* How much of an earlier record the page opens with.
RemLen(w, p) ==
  LET u == FirstContent(p)
      opens == {q \in DOMAIN w.lens : w.start[q] < u /\ u < EndOf(w, q)}
  IN  IF opens = {} THEN 0
      ELSE LET r == CHOOSE r \in opens : TRUE IN w.start[r] + w.lens[r] - u

PageHeaderOf(w, p) ==
  [zeroed |-> FALSE, magic_ok |-> TRUE,
   xlp_info |-> (IF p = 0 THEN {"LONG_HEADER"} ELSE {})
                  \cup (IF RemLen(w, p) > 0 THEN {"FIRST_IS_CONTRECORD"} ELSE {})
                  \cup (IF p = w.cut THEN {"FIRST_IS_OVERWRITE_CONTRECORD"} ELSE {}),
   xlp_pageaddr |-> page_start_lsn(p), xlp_tli |-> Tli, xlp_rem_len |-> RemLen(w, p)]

Damaged(h, fault) ==
  CASE fault = "magic" -> [h EXCEPT !.magic_ok = FALSE]
    [] fault = "flags" -> [h EXCEPT !.xlp_info = @ \cup {"UNKNOWN"}]
    [] fault = "long"  -> [h EXCEPT !.xlp_info =
                             IF "LONG_HEADER" \in @ THEN @ \ {"LONG_HEADER"}
                                                    ELSE @ \cup {"LONG_HEADER"}]
    [] fault = "addr"  -> [h EXCEPT !.xlp_pageaddr = @ + SegSize]
    [] fault = "tli"   -> [h EXCEPT !.xlp_tli = @ + 1]

WithBody(h, cell(_)) ==
  [zeroed |-> h.zeroed, magic_ok |-> h.magic_ok, xlp_info |-> h.xlp_info,
   xlp_pageaddr |-> h.xlp_pageaddr, xlp_tli |-> h.xlp_tli, xlp_rem_len |-> h.xlp_rem_len,
   body |-> [o \in Offset |-> cell(o)]]

\* A page the server has started: the cells it has not reached are zeroes.
WrittenPage(w, p, f) ==
  LET h == PageHeaderOf(w, p)
      Content(o) == IF o < HeaderOf(p) THEN Hdr
                    ELSE IF ContentAt(p, o) < f THEN CellOf(w, ContentAt(p, o))
                    ELSE Zero
  IN  WithBody(IF p = w.fault_page THEN Damaged(h, w.fault) ELSE h, Content)

\* A page of the recycled segment: valid, but for another address.
RecycledPage(p) ==
  LET h == [PageHeaderOf([lens |-> [r \in {0} |-> 0], start |-> [r \in {0} |-> 0], cut |-> NO_PAGE], p)
              EXCEPT !.xlp_pageaddr = @ + PagesPerSegment * SegSize]
      Old(o) == IF o < HeaderOf(p) THEN Hdr ELSE Stale
  IN  WithBody(h, Old)

FileContent(w, f) ==
  [p \in PageNo |->
     IF f > FirstContent(p) THEN WrittenPage(w, p, f)
     ELSE IF w.base = "zero" THEN ZeroPage ELSE RecycledPage(p)]

(***************************************************************************)
(* Where the server's writing can be seen to stand: at the end of a record *)
(* or of a page, and where a record can be seen half written.              *)
(***************************************************************************)
Stops(w) ==
  {u \in 0 .. Written(w) :
     \/ \E p \in PageNo \cup {PagesPerSegment} : u = FirstContent(p)
     \/ \E r \in DOMAIN w.lens : u = EndOf(w, r)
     \/ \E r \in WalRecords(w), i \in w.torn : u = w.start[r] + i /\ u < EndOf(w, r)}

\* Every layout is one, and makes pages.
ASSUME LayoutAssumption ==
  \A w \in Layouts :
    IsLayout(w) /\ \A f \in Stops(w) : FileContent(w, f) \in [PageNo -> Page]

-----------------------------------------------------------------------------
LiveInit ==
  /\ wal \in Layouts
  /\ flushed \in Stops(wal)
  /\ at_open = flushed
  /\ segment = FileContent(wal, flushed) /\ file_pages = wal.pages
  /\ ReaderInit

\* The server writes more while the reader is at work.
ServerWrites ==
  /\ pc \notin {"open", "viewing", "failed"}
  /\ \E f \in Stops(wal) :
       /\ f > flushed
       /\ flushed' = f
       /\ segment' = FileContent(wal, f)
  /\ UNCHANGED <<wal, at_open, file_pages, reader>>

ReaderSteps == Step /\ UNCHANGED live

LiveNext == ReaderSteps \/ ServerWrites

LiveVars == <<vars, live>>

\* The program reads the file without waiting for anything: it always goes
\* on.  The server owes nobody another record.
LiveSpec == LiveInit /\ [][LiveNext]_LiveVars /\ WF_LiveVars(ReaderSteps)

-----------------------------------------------------------------------------
(* The layouts of which what follows is true.                              *)

(***************************************************************************)
(* A read pointer that reaches the end of a segment that is all there goes *)
(* back to page 0 (see the run wrap_around): no record may end there, and  *)
(* none may have begun before the segment and reach its end.               *)
(***************************************************************************)
NeverAtSegmentEnd(w) ==
  w.pages < PagesPerSegment \/
    /\ w.left < Capacity
    /\ maxalign(WalEnd(w)) # Capacity

Undamaged(w) == w.flipped = {} /\ w.fault_page = NO_PAGE
Uncut(w)     == \A r \in WalRecords(w) : ~Aborted(w, r)

-----------------------------------------------------------------------------
(* Safety.                                                                 *)

Ended == pc \in {"stopped", "viewing", "failed"}

\* The records that are in the first f content cells and in the file.
InFile(w, f) == Cardinality({r \in WalRecords(w) :
                               EndOf(w, r) <= f /\ EndOf(w, r) <= FirstContent(w.pages)})

\* The records before the first damaged or unfinished one.
Intact(w) == Cardinality({r \in WalRecords(w) :
  /\ \A d \in w.flipped : d[1] = 0 \/ d[1] > r
  /\ \A q \in 1 .. r : ~Aborted(w, q)
  /\ w.fault_page = NO_PAGE \/ EndOf(w, r) <= FirstContent(w.fault_page)})

\* Only the last record can be bad (OnlyLastFails), so the others are the good ones.
GoodCount == Cardinality({k \in 1 .. Len(records) : records[k].crc_ok})

CellsOf(ranges) == UNION {ranges[j].start .. ranges[j].end - 1 : j \in 1 .. Len(ranges)}

DumpCells == 0 .. SegSize - 1

\* The size of the page header is read out of the page as it is in the dump.
page_header_size(c) ==
  IF "LONG_HEADER" \in dump[c \div Blcksz].xlp_info THEN LongHdr ELSE ShortHdr

\* What a cell of the dump is shown as, when the record in ranges is selected.
classify(c, ranges) ==
  CASE c % Blcksz < page_header_size(c)                  -> "PageHeader"
    [] c % Blcksz >= page_header_size(c) /\ c \in CellsOf(ranges) -> "Record"
    [] OTHER -> IF dump[c \div Blcksz].body[c % Blcksz] = Zero THEN "Zero" ELSE "Plain"

(***************************************************************************)
(* The k-th record handed to the application is the k-th record of the     *)
(* segment, at its LSN; if its checksum is good it is that record cell for *)
(* cell, and file_ranges are the cells of the file that hold it.  This is  *)
(* what load_next_record and its skipping of tails, padding and page       *)
(* headers are for.                                                        *)
(***************************************************************************)
RecordsAreWal ==
  \A k \in 1 .. Len(records) :
    LET len == wal.lens[k]
        At(i) == FileCell(wal.start[k] + i) IN
    /\ k \in WalRecords(wal)
    /\ records[k].lsn = SegStart + At(0)
    /\ records[k].crc_ok =>
         /\ records[k].raw = [i \in 1 .. len |-> RecordCell(k, len, i - 1, TRUE)]
         /\ CellsOf(records[k].file_ranges) = {At(i) : i \in 0 .. len - 1}

(***************************************************************************)
(* The hex pane shows a second reading of the file, made after the scan;   *)
(* the cells it marks as belonging to a good record are as many as the     *)
(* record has and hold it, cell for cell, although the page headers that   *)
(* part them are looked up in that second reading (HexDump::classify).     *)
(***************************************************************************)
DumpHoldsRecords ==
  pc = "viewing" =>
    \A k \in 1 .. Len(records) : records[k].crc_ok =>
      LET cells == {c \in DumpCells : classify(c, records[k].file_ranges) = "Record"} IN
      /\ Cardinality(cells) = Len(records[k].raw)
      /\ \A c \in cells :
           dump[c \div Blcksz].body[c % Blcksz]
             = records[k].raw[1 + Cardinality({d \in cells : d < c})]

(***************************************************************************)
(* An undamaged segment, seen only at the end of a record or of a page, is *)
(* read without complaint: no record is flagged, and where the server has  *)
(* not written yet is the end of the data and not an error.                *)
(***************************************************************************)
NoFalseAlarm ==
  /\ Undamaged(wal) /\ Uncut(wal) /\ wal.torn = {}
  /\ wal.base = "zero" /\ wal.pages > 0 /\ at_open > 0
  =>
    stop_reason = "none" /\ \A k \in 1 .. Len(records) : records[k].crc_ok

(***************************************************************************)
(* A damaged page header that the scan could reach is reported.  It cannot *)
(* reach one behind damage to a record, or behind the rest of a record     *)
(* that a crash of the server left unfinished (see the run crashed).       *)
(***************************************************************************)
HeaderDamageIsReported ==
  /\ Ended
  /\ wal.flipped = {} /\ wal.fault_page \in 0 .. wal.pages - 1
  /\ Uncut(wal) \/ wal.fault_page <= wal.cut
  /\ at_open > FirstContent(wal.fault_page)
  => stop_reason \notin {"none", "ZeroedPage"}

(***************************************************************************)
(* What README.md says of checksums: a record whose bytes were damaged is  *)
(* flagged, if the scan came to it at all.                                 *)
(***************************************************************************)
DamagedRecordIsFlagged ==
  Ended /\ Intact(wal) < InFile(wal, at_open) =>
    Len(records) = Intact(wal) + 1 /\ ~records[Len(records)].crc_ok

(***************************************************************************)
(* What README.md says of a segment in use: reading stops where the WAL    *)
(* has been written up to, so no finished record before that is left out,  *)
(* be it before or after a crash of the server.                            *)
(***************************************************************************)
ReadsUpToWritten ==
  Ended /\ Undamaged(wal) /\ at_open > 0 =>
    InFile(wal, at_open) <= GoodCount
      + Cardinality({r \in WalRecords(wal) : Aborted(wal, r)})

-----------------------------------------------------------------------------
(* The scan implements WalScan, and ends.                                  *)

Scan == INSTANCE WalScan WITH
  durable  <- InFile(wal, flushed),
  at_open  <- InFile(wal, at_open),
  intact   <- Intact(wal),
  shown    <- [k \in 1 .. GoodCount |-> records[k].raw[1].rec],
  broken   <- \E k \in 1 .. Len(records) : ~records[k].crc_ok,
  scanning <- ~Ended

(***************************************************************************)
(* Whatever the server does meanwhile, the scan shows the records in WAL   *)
(* order, without gap or repetition, none that is not there, all the       *)
(* intact ones that were there when the file was opened, and then ends.    *)
(***************************************************************************)
ImplementsScan == Scan!Spec

\* App::new ends: it never goes round in a segment.
Termination == <>(pc \in {"viewing", "failed"})
=============================================================================
