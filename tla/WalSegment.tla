----------------------------- MODULE WalSegment -----------------------------
(***************************************************************************)
(* What a WAL segment file looks like to the reader: the geometry (pages,  *)
(* page headers, MAXALIGN), the LSN arithmetic, the validation of a page   *)
(* header, and what the reader can learn from the bytes of a record.       *)
(*                                                                         *)
(* Lengths count CELLS, not bytes.  A cell is 4 bytes, the size of         *)
(* xl_tot_len, so that a page header is 6 or 10 cells, an XLogRecord       *)
(* header 6 cells and MAXALIGN 2 cells.                                    *)
(***************************************************************************)
EXTENDS Integers, Sequences

CONSTANTS
  Blcksz,           \* cells of a page (xlog_blcksz)
  ShortHdr,         \* cells of the header of a page
  LongHdr,          \* cells of the header of the first page of a segment
  RecHdr,           \* cells of an XLogRecord header (SIZE_OF_XLOG_RECORD)
  MaxAlign,         \* records start at multiples of this
  PagesPerSegment,  \* seg_size / xlog_blcksz
  SegNo,            \* number of the segment in the WAL
  Tli,              \* the timeline the file name gives
  XLOG_RECORD_MAX_SIZE

ASSUME GeometryAssumption ==
  /\ MaxAlign \in Nat \ {0}
  /\ ShortHdr \in Nat \ {0} /\ LongHdr \in Nat /\ Blcksz \in Nat
  /\ ShortHdr < LongHdr /\ LongHdr < Blcksz
  /\ RecHdr \in Nat \ {0} /\ XLOG_RECORD_MAX_SIZE \in Nat
  /\ PagesPerSegment \in Nat \ {0}
  /\ SegNo \in Nat /\ Tli \in Nat

\* A page is a whole number of MAXALIGN units, and so are its headers.
ASSUME AlignmentAssumption ==
  \A n \in {Blcksz, ShortHdr, LongHdr} : n % MaxAlign = 0

-----------------------------------------------------------------------------
(* LSN arithmetic.                                                         *)

SegSize  == PagesPerSegment * Blcksz
SegStart == SegNo * SegSize
SegEnd   == SegStart + SegSize

maxalign(n) == ((n + MaxAlign - 1) \div MaxAlign) * MaxAlign

lsn_to_page_no(lsn)     == (lsn % SegSize) \div Blcksz
lsn_to_page_offset(lsn) == (lsn % SegSize) % Blcksz
page_start_lsn(n)       == SegStart + n * Blcksz

-----------------------------------------------------------------------------
(* Pages.                                                                  *)

NO_PAGE == -1   \* u32::MAX in the code: never the number of a page
PageNo  == 0 .. PagesPerSegment - 1
Offset  == 0 .. Blcksz - 1

Known   == {"FIRST_IS_CONTRECORD", "LONG_HEADER", "FIRST_IS_OVERWRITE_CONTRECORD"}
Flags   == Known \cup {"UNKNOWN"}

(***************************************************************************)
(* What is stored in a cell: zeroes, part of a page header, a leftover of  *)
(* the segment's earlier life, or cell number idx of a record rec of       *)
(* tot_len cells, good unless its bytes were damaged after they were       *)
(* written.  Only the four bytes of cell 0 (xl_tot_len) and the            *)
(* descriptors are ever interpreted.                                       *)
(***************************************************************************)
Zero  == [kind |-> "zero"]
Hdr   == [kind |-> "header"]
Stale == [kind |-> "stale"]
RecordCell(r, len, i, good) ==
  [kind |-> "record", rec |-> r, tot_len |-> len, idx |-> i, good |-> good]

Cell == {Zero, Hdr, Stale}
          \cup [kind : {"record"}, rec : Nat, tot_len : Nat, idx : Nat, good : BOOLEAN]

Page == [zeroed : BOOLEAN, magic_ok : BOOLEAN, xlp_info : SUBSET Flags,
         xlp_pageaddr : Nat, xlp_tli : Nat, xlp_rem_len : Nat,
         body : [Offset -> Cell]]

ZeroPage == [zeroed |-> TRUE, magic_ok |-> FALSE, xlp_info |-> {},
             xlp_pageaddr |-> 0, xlp_tli |-> 0, xlp_rem_len |-> 0,
             body |-> [o \in Offset |-> Zero]]

is_long(page)     == "LONG_HEADER" \in page.xlp_info
header_size(page) == IF is_long(page) THEN LongHdr ELSE ShortHdr

Errors == {"InvalidPageMagicNumber", "InvalidPageFlags", "UnexpectedPageAddr",
           "UnexpectedTimeLineId", "ZeroedPage", "EmptySegment",
           "MissingLongHeader", "Io", "InvalidRecordLength", "DecodeError"}

\* The checks of validate_page_header, in the order the code makes them.
validate_page_header(page, n) ==
  IF ~page.magic_ok
    THEN IF page.zeroed THEN "ZeroedPage" ELSE "InvalidPageMagicNumber"
  ELSE IF ~(page.xlp_info \subseteq Known) \/ is_long(page) # (n = 0)
    THEN "InvalidPageFlags"
  ELSE IF page.xlp_pageaddr # page_start_lsn(n)
    THEN "UnexpectedPageAddr"
  ELSE IF page.xlp_tli # Tli
    THEN "UnexpectedTimeLineId"
  ELSE "none"

-----------------------------------------------------------------------------
(* What the bytes of a record tell the reader.                             *)

(***************************************************************************)
(* The values xl_tot_len can have in a cell.  Bytes that are not an intact *)
(* xl_tot_len read as some number: a zero length, one too short, one in    *)
(* range, or one that is absurd.                                           *)
(***************************************************************************)
GarbageLengths == {0, RecHdr - 1, RecHdr, RecHdr + 3, XLOG_RECORD_MAX_SIZE + 1}

TotLens(cell) ==
  IF cell = Zero THEN {0}
  ELSE IF cell.kind = "record" /\ cell.idx = 0 /\ cell.good THEN {cell.tot_len}
  ELSE GarbageLengths

\* xl_crc matches when the buffer is one whole record as it was written.
verify_record_crc(buf) ==
  /\ buf[1].kind = "record"
  /\ \A i \in 1 .. Len(buf) : buf[i] = RecordCell(buf[1].rec, Len(buf), i - 1, TRUE)

(***************************************************************************)
(* Whether decode_wal_record can succeed.  The cell after the record       *)
(* header stands for the descriptors.  Intact, and in a buffer of the      *)
(* length they were written for, they account for every byte of it.  Any   *)
(* other descriptors, and any other length, may decode by chance, or not:  *)
(* see RecordDecode.                                                       *)
(***************************************************************************)
DecodeOutcomes(buf) ==
  LET d == buf[RecHdr + 1] IN
  IF Len(buf) = RecHdr \/ (d.kind = "record" /\ d.good /\ d.idx = RecHdr /\ d.tot_len = Len(buf))
    THEN {TRUE}
    ELSE BOOLEAN
=============================================================================
