------------------------------ MODULE WalReader ------------------------------
(***************************************************************************)
(* WALReader (walreader.rs) and the loop of App::new (main.rs) that drains *)
(* it.  One step is one call of load_page: one pass of the loop of         *)
(* find_next_record, one pass of the loop of copy_record_bytes, or the     *)
(* code between two such passes.  That is as often as a process that       *)
(* writes the file can come between.                                       *)
(*                                                                         *)
(* The module is open: what the file holds may change in any way whatever  *)
(* (Environment).  LiveSegment closes it with a server that writes WAL.    *)
(***************************************************************************)
EXTENDS WalSegment

VARIABLES
  segment,         \* the pages of the file, as they are now
  file_pages,      \* how many pages long the file is
  \* fields of WALReader
  readable_pages, page_no, page_buffer, read_lsn, record_lsn, record_buffer, done,
  \* locals of load_next_record and copy_record_bytes
  offset, remaining, header_bytes, file_ranges, tot_len,
  \* App::new
  records, stop_reason,
  dump,            \* Segment::bytes, what the hex pane shows
  pc

env     == <<segment, file_pages>>
buffer  == <<page_no, page_buffer>>
locals  == <<offset, remaining, header_bytes, file_ranges, tot_len>>
app     == <<records, stop_reason, dump>>
reader  == <<readable_pages, buffer, read_lsn, record_lsn, record_buffer, done,
             locals, app, pc>>
vars    == <<env, reader>>

ReaderInit ==
  /\ readable_pages = 0
  /\ page_no = NO_PAGE /\ page_buffer = ZeroPage
  /\ read_lsn = SegStart /\ record_lsn = 0 /\ record_buffer = <<>>
  /\ done = FALSE
  /\ offset = 0 /\ remaining = 0 /\ header_bytes = 0 /\ file_ranges = <<>>
  /\ tot_len = 0
  /\ records = <<>> /\ stop_reason = "none"
  /\ dump = [p \in PageNo |-> ZeroPage]
  /\ pc = "open"

Init ==
  /\ segment \in [PageNo -> Page] /\ file_pages \in 0 .. PagesPerSegment
  /\ ReaderInit

-----------------------------------------------------------------------------
(* load_page overwrites the buffer before it validates the header, and     *)
(* moves page_no only when the header is valid.                            *)

load_page(n) ==
  /\ page_buffer' = segment[n]
  /\ page_no' = IF validate_page_header(segment[n], n) = "none" THEN n ELSE page_no

\* Faulty: a page is good if its magic is; any bad page ends the data; none does.
Valid_MagicOnly(n)       == segment[n].magic_ok
Zeroed_AnyBadPage(n)     == validate_page_header(segment[n], n) # "none"
Zeroed_Never(n)          == FALSE

Valid(n)  == validate_page_header(segment[n], n) = "none"
Zeroed(n) == validate_page_header(segment[n], n) = "ZeroedPage"

\* Pages past this one do not exist, in the segment or in the file.
PageLimit == IF readable_pages < PagesPerSegment THEN readable_pages ELSE PagesPerSegment

\* load_next_record returned Ok(None): App::new leaves its loop.
ReturnNone == done' = TRUE /\ pc' = "stopped" /\ UNCHANGED app

\* load_next_record returned an error: App::new keeps its text and leaves.
ReturnErr(e) ==
  /\ stop_reason' = e /\ pc' = "stopped"
  /\ UNCHANGED <<records, dump>>

-----------------------------------------------------------------------------
(* WALReader::new.  The first page is read twice: for the geometry, then   *)
(* by load_page(0) for the full validation.                                *)

OpenFails ==
  /\ pc = "open"
  /\ \E e \in Errors :
       /\ e = IF file_pages = 0 THEN "Io"
              ELSE IF ~segment[0].magic_ok
                THEN IF segment[0].zeroed THEN "EmptySegment" ELSE "InvalidPageMagicNumber"
              ELSE IF ~is_long(segment[0]) THEN "MissingLongHeader"
              ELSE "none"
       /\ ReturnErr(e)
  /\ UNCHANGED <<env, readable_pages, buffer, read_lsn, record_lsn, record_buffer, done, locals>>

Open ==
  /\ pc = "open"
  /\ file_pages > 0 /\ segment[0].magic_ok /\ is_long(segment[0])
  /\ readable_pages' = file_pages
  /\ pc' = "first_page"
  /\ UNCHANGED <<env, buffer, read_lsn, record_lsn, record_buffer, done, locals, app>>

LoadFirstPage ==
  /\ pc = "first_page"
  /\ load_page(0)
  /\ \/ Valid(0) /\ pc' = "idle" /\ UNCHANGED app
     \/ ~Valid(0) /\ ReturnErr(validate_page_header(segment[0], 0))
  /\ UNCHANGED <<env, readable_pages, read_lsn, record_lsn, record_buffer, done, locals>>

-----------------------------------------------------------------------------
(* load_next_record, entered from the loop of App::new.                    *)

LoadNextRecord ==
  /\ pc = "idle"
  /\ \/ done /\ ReturnNone
     \/ ~done /\ pc' = "find" /\ UNCHANGED <<done, app>>
  /\ UNCHANGED <<env, readable_pages, buffer, read_lsn, record_lsn, record_buffer, locals>>

(***************************************************************************)
(* One pass of the loop of find_next_record.  The page is the buffered one *)
(* when page_no says so, even if the file has changed since.               *)
(***************************************************************************)
FindReachesEnd ==
  /\ pc = "find"
  /\ lsn_to_page_no(read_lsn) >= PageLimit
  /\ ReturnNone
  /\ UNCHANGED <<env, readable_pages, buffer, read_lsn, record_lsn, record_buffer, locals>>

FindCannotLoad ==
  LET n == lsn_to_page_no(read_lsn) IN
  /\ pc = "find"
  /\ n < PageLimit /\ page_no # n /\ ~Valid(n)
  /\ load_page(n)
  /\ \/ Zeroed(n) /\ ReturnNone
     \/ ~Zeroed(n) /\ ReturnErr(validate_page_header(segment[n], n)) /\ UNCHANGED done
  /\ UNCHANGED <<env, readable_pages, read_lsn, record_lsn, record_buffer, locals>>

\* The page find_next_record looks at, loaded if it must be.
PageAt(n) == IF page_no = n THEN page_buffer ELSE segment[n]

\* Faulty: the page header is not skipped, or how far the page was read is forgotten.
PastHeader_NotSkipped(page) == lsn_to_page_offset(read_lsn)
PastHeader_PageStart(page)  == header_size(page)

\* The read pointer, moved past the page header.
PastHeader(page) ==
  LET o == lsn_to_page_offset(read_lsn)
  IN  IF o < header_size(page) THEN header_size(page) ELSE o

OpensWithTail(page) ==
  PastHeader(page) = header_size(page) /\ "FIRST_IS_CONTRECORD" \in page.xlp_info

\* Faulty: off by one for a tail that ends with the page.
TailFillsPage_Beyond(page) == maxalign(page.xlp_rem_len) > Blcksz - header_size(page)

TailFillsPage(page) == maxalign(page.xlp_rem_len) >= Blcksz - header_size(page)

FindOn(n) ==
  /\ pc = "find"
  /\ n < PageLimit
  /\ page_no = n \/ Valid(n)
  /\ page_no' = n /\ page_buffer' = PageAt(n)
  /\ UNCHANGED <<env, readable_pages, done, app>>

\* Faulty: the pointer is left on the page that was to be skipped.
FindSkipsPage_Stays ==
  LET page == PageAt(lsn_to_page_no(read_lsn)) IN
  /\ FindOn(lsn_to_page_no(read_lsn))
  /\ OpensWithTail(page) /\ TailFillsPage(page)
  /\ UNCHANGED <<read_lsn, record_lsn, record_buffer, locals, pc>>

FindSkipsPage ==
  LET n == lsn_to_page_no(read_lsn)
      page == PageAt(n) IN
  /\ FindOn(n)
  /\ OpensWithTail(page) /\ TailFillsPage(page)
  /\ read_lsn' = page_start_lsn(n + 1)
  /\ UNCHANGED <<record_lsn, record_buffer, locals, pc>>

\* Found: load_next_record starts on the XLogRecord header.
FindRecord ==
  LET n == lsn_to_page_no(read_lsn)
      page == PageAt(n)
      o == IF OpensWithTail(page) THEN header_size(page) + maxalign(page.xlp_rem_len)
                                  ELSE PastHeader(page) IN
  /\ FindOn(n)
  /\ ~(OpensWithTail(page) /\ TailFillsPage(page))
  /\ read_lsn' = page_start_lsn(n) + o
  /\ record_lsn' = read_lsn' /\ record_buffer' = <<>>
  /\ offset' = lsn_to_page_offset(read_lsn')
  /\ header_bytes' = 0 /\ file_ranges' = <<>>
  /\ remaining' = RecHdr /\ tot_len' = 0
  /\ pc' = "copy_header"

-----------------------------------------------------------------------------
(* copy_record_bytes, called for the XLogRecord header and for the body.   *)

Copying == pc \in {"copy_header", "copy_body"} /\ remaining > 0

CopyReachesEnd ==
  LET next == page_no + 1 IN
  /\ Copying /\ offset = Blcksz
  /\ \/ next >= PageLimit /\ ReturnNone /\ UNCHANGED buffer
     \/ /\ next < PageLimit /\ ~Valid(next)
        /\ load_page(next)
        /\ \/ Zeroed(next) /\ ReturnNone
           \/ ~Zeroed(next) /\ ReturnErr(validate_page_header(segment[next], next))
                /\ UNCHANGED done
  /\ UNCHANGED <<env, readable_pages, read_lsn, record_lsn, record_buffer, locals>>

CopyNextPage ==
  LET next == page_no + 1 IN
  /\ Copying /\ offset = Blcksz
  /\ next < PageLimit /\ Valid(next)
  /\ load_page(next)
  /\ offset' = header_size(segment[next])
  /\ header_bytes' = header_bytes + header_size(segment[next])
  /\ UNCHANGED <<env, readable_pages, read_lsn, record_lsn, record_buffer, done,
                 remaining, file_ranges, tot_len, app, pc>>

\* Faulty: ranges are merged across the page header between them.
AddRange_AlwaysMerges(ranges, start, take) ==
  IF ranges # <<>>
    THEN [ranges EXCEPT ![Len(ranges)] = [start |-> @.start, end |-> start + take]]
    ELSE Append(ranges, [start |-> start, end |-> start + take])

\* The header and the body of a record are adjacent: they share a range.
AddRange(ranges, start, take) ==
  LET last == Len(ranges) IN
  IF ranges # <<>> /\ ranges[last].end = start
    THEN [ranges EXCEPT ![last] = [start |-> @.start, end |-> start + take]]
    ELSE Append(ranges, [start |-> start, end |-> start + take])

CopyTake ==
  LET room == Blcksz - offset
      take == IF remaining < room THEN remaining ELSE room IN
  /\ Copying /\ offset < Blcksz
  /\ record_buffer' = record_buffer \o [i \in 1 .. take |-> page_buffer.body[offset + i - 1]]
  /\ file_ranges' = AddRange(file_ranges, page_no * Blcksz + offset, take)
  /\ offset' = offset + take /\ remaining' = remaining - take
  /\ UNCHANGED <<env, readable_pages, buffer, read_lsn, record_lsn, done,
                 header_bytes, tot_len, app, pc>>

-----------------------------------------------------------------------------
(* The rest of load_next_record.                                           *)

LengthInRange(len) == RecHdr <= len /\ len <= XLOG_RECORD_MAX_SIZE

\* A zero length is the end of what has been written; a wrong one an error.
HeaderEndsScan ==
  /\ pc = "copy_header" /\ remaining = 0
  /\ \E len \in TotLens(record_buffer[1]) :
       \/ len = 0 /\ ReturnNone
       \/ /\ len # 0 /\ ~LengthInRange(len)
          /\ done' = TRUE /\ ReturnErr("InvalidRecordLength")
  /\ UNCHANGED <<env, readable_pages, buffer, read_lsn, record_lsn, record_buffer, locals>>

HeaderCopied ==
  /\ pc = "copy_header" /\ remaining = 0
  /\ \E len \in TotLens(record_buffer[1]) :
       LengthInRange(len) /\ tot_len' = len /\ remaining' = len - RecHdr
  /\ pc' = "copy_body"
  /\ UNCHANGED <<env, readable_pages, buffer, read_lsn, record_lsn, record_buffer, done,
                 offset, header_bytes, file_ranges, app>>

\* Faulty: the padding is not stepped over.
AdvanceReadLsn_NoPadding == read_lsn' = read_lsn + header_bytes + tot_len

AdvanceReadLsn == read_lsn' = read_lsn + header_bytes + maxalign(tot_len)

DecodeFails ==
  /\ pc = "copy_body" /\ remaining = 0
  /\ AdvanceReadLsn
  /\ FALSE \in DecodeOutcomes(record_buffer)
  /\ ReturnErr("DecodeError")
  /\ UNCHANGED <<env, readable_pages, buffer, record_lsn, record_buffer, done, locals>>

\* Faulty: reading goes on.
StopAtBadCrc_Never(crc_ok) == UNCHANGED done

\* Past a bad CRC nothing in the stream can be trusted.
StopAtBadCrc(crc_ok) == done' = (done \/ ~crc_ok)

\* The record goes to the application, its checksum good or bad.
ReturnRecord ==
  LET crc_ok == verify_record_crc(record_buffer) IN
  /\ pc = "copy_body" /\ remaining = 0
  /\ AdvanceReadLsn
  /\ TRUE \in DecodeOutcomes(record_buffer)
  /\ records' = Append(records, [lsn |-> record_lsn, raw |-> record_buffer,
                                 crc_ok |-> crc_ok, file_ranges |-> file_ranges])
  /\ StopAtBadCrc(crc_ok)
  /\ pc' = "idle"
  /\ UNCHANGED <<env, readable_pages, buffer, record_lsn, record_buffer, locals,
                 stop_reason, dump>>

(***************************************************************************)
(* After the scan App::new reads the whole file a second time, for the hex *)
(* pane.  A scan that failed before its first record fails the program, as *)
(* does a file that is gone by now.                                        *)
(***************************************************************************)
NothingToShow ==
  /\ pc = "stopped"
  /\ records = <<>> /\ stop_reason # "none"
  /\ pc' = "failed"
  /\ UNCHANGED <<env, readable_pages, buffer, read_lsn, record_lsn, record_buffer, done,
                 locals, app>>

\* Faulty: the pane shows the page the reader has in its buffer.
ReadFileAgain_BufferedPage ==
  /\ pc = "stopped"
  /\ records # <<>> \/ stop_reason = "none"
  /\ dump' = [p \in PageNo |-> IF p = page_no THEN page_buffer ELSE ZeroPage]
  /\ pc' = "viewing"
  /\ UNCHANGED <<env, readable_pages, buffer, read_lsn, record_lsn, record_buffer, done,
                 locals, records, stop_reason>>

ReadFileAgain ==
  /\ pc = "stopped"
  /\ records # <<>> \/ stop_reason = "none"
  /\ \/ dump' = segment /\ pc' = "viewing"
     \/ pc' = "failed" /\ UNCHANGED dump
  /\ UNCHANGED <<env, readable_pages, buffer, read_lsn, record_lsn, record_buffer, done,
                 locals, records, stop_reason>>

-----------------------------------------------------------------------------
Step ==
  \/ OpenFails \/ Open \/ LoadFirstPage
  \/ LoadNextRecord
  \/ FindReachesEnd \/ FindCannotLoad \/ FindSkipsPage \/ FindRecord
  \/ CopyReachesEnd \/ CopyNextPage \/ CopyTake
  \/ HeaderEndsScan \/ HeaderCopied
  \/ DecodeFails \/ ReturnRecord
  \/ NothingToShow \/ ReadFileAgain

\* Someone else writes the file.  Its length stays what it was.
Environment ==
  /\ segment' \in [PageNo -> Page]
  /\ UNCHANGED <<file_pages, reader>>

Next == Step \/ Environment

Spec == Init /\ [][Next]_vars

-----------------------------------------------------------------------------
(* Properties that hold whatever the file contains and whoever writes it.  *)

FileRange == [start : Nat, end : Nat]
Record == [lsn : Nat, raw : Seq(Cell), crc_ok : BOOLEAN, file_ranges : Seq(FileRange)]

PC == {"open", "first_page", "idle", "find", "copy_header", "copy_body",
       "stopped", "viewing", "failed"}

\* The type invariant.
TypeOK ==
  /\ segment \in [PageNo -> Page] /\ file_pages \in 0 .. PagesPerSegment
  /\ readable_pages \in 0 .. PagesPerSegment
  /\ page_no \in PageNo \cup {NO_PAGE} /\ page_buffer \in Page
  /\ read_lsn \in Nat /\ record_lsn \in Nat
  /\ record_buffer \in Seq(Cell) /\ done \in BOOLEAN
  /\ offset \in 0 .. Blcksz
  /\ remaining \in Nat /\ header_bytes \in Nat /\ tot_len \in Nat
  /\ file_ranges \in Seq(FileRange)
  /\ records \in Seq(Record) /\ stop_reason \in Errors \cup {"none"}
  /\ dump \in [PageNo -> Page]
  /\ pc \in PC

Reading == pc \in {"idle", "find", "copy_header", "copy_body"}

(***************************************************************************)
(* While the scan is on, the buffered page is one that was validated as    *)
(* page page_no of this segment and timeline: the reader never takes bytes *)
(* from a page it has rejected, although load_page overwrites the buffer   *)
(* before it looks at the header.                                          *)
(***************************************************************************)
BufferedPageIsValid ==
  Reading => /\ page_no \in 0 .. readable_pages - 1
             /\ validate_page_header(page_buffer, page_no) = "none"

(***************************************************************************)
(* copy_record_bytes keeps three accounts of how far it has come: the page *)
(* and the offset in it, the bytes copied plus the header bytes stepped    *)
(* over, and the end of the last file range.  They never disagree, which   *)
(* is why adding header_bytes to read_lsn, still at the first byte of the  *)
(* record, leaves it at the next one; and no byte of a page header is ever *)
(* among those copied.                                                     *)
(***************************************************************************)
Accounts ==
  pc \in {"copy_header", "copy_body"} =>
    LET at == page_no * Blcksz + offset IN
    /\ SegStart + at = record_lsn + header_bytes + Len(record_buffer)
    /\ read_lsn = record_lsn
    /\ offset >= header_size(page_buffer)
    /\ record_buffer # <<>> /\ offset > header_size(page_buffer)
         => file_ranges[Len(file_ranges)].end = at

(***************************************************************************)
(* The read pointer stays within the segment and stays MAXALIGNed, even if *)
(* what it reads as lengths is garbage.                                    *)
(***************************************************************************)
ReadPointerInSegment == read_lsn \in SegStart .. SegEnd /\ read_lsn % MaxAlign = 0

(***************************************************************************)
(* A record the application shows as failing its checksum is the last one: *)
(* done is set behind it, and nothing follows.                             *)
(***************************************************************************)
OnlyLastFails ==
  \A k \in 1 .. Len(records) : ~records[k].crc_ok => k = Len(records) /\ done

(***************************************************************************)
(* The read pointer only moves forward, unless it stands at the very end   *)
(* of the segment.                                                         *)
(***************************************************************************)
ReadPointerAdvances == [][read_lsn' >= read_lsn \/ read_lsn = SegEnd]_vars
=============================================================================
