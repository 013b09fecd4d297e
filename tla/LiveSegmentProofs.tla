--------------------------- MODULE LiveSegmentProofs ---------------------------
(***************************************************************************)
(* Proofs of the properties that WalReader states, for every geometry,     *)
(* every content of the file and every process that writes to it; and of   *)
(* those of LiveSegment, where a server writes the file: the reader on     *)
(* such a segment is a reader of WalReader, and what is proved first for   *)
(* every file is true of it.                                               *)
(***************************************************************************)
EXTENDS LiveSegment, TLAPS, SequenceTheorems, FiniteSetTheorems, WellFoundedInduction


-----------------------------------------------------------------------------
(* Arithmetic.                                                             *)

LEMMA DivMod ==
  ASSUME NEW a \in Nat, NEW b \in Nat \ {0}
  PROVE  /\ a \div b \in Nat /\ a % b \in 0 .. b - 1
         /\ a = b * (a \div b) + (a % b)
  OBVIOUS

LEMMA DivUnique ==
  ASSUME NEW b \in Nat \ {0}, NEW q \in Nat, NEW r \in 0 .. b - 1
  PROVE  (q * b + r) \div b = q /\ (q * b + r) % b = r
  OBVIOUS

LEMMA DivBelow ==
  ASSUME NEW a \in Nat, NEW b \in Nat \ {0}, NEW p \in Nat, a < p * b
  PROVE  a \div b \in 0 .. p - 1
  OBVIOUS

LEMMA MaxAlignNat ==
  ASSUME NEW n \in Nat
  PROVE  maxalign(n) \in Nat /\ maxalign(n) >= n
<1> DEFINE m == n + MaxAlign - 1
<1>1. m \in Nat /\ MaxAlign \in Nat \ {0}
  BY GeometryAssumption
<1>2. m \div MaxAlign \in Nat /\ m % MaxAlign \in 0 .. MaxAlign - 1
        /\ m = MaxAlign * (m \div MaxAlign) + (m % MaxAlign)
  BY <1>1, DivMod
<1>3. (m \div MaxAlign) * MaxAlign = MaxAlign * (m \div MaxAlign)
  BY <1>1, <1>2
<1>4. (m \div MaxAlign) * MaxAlign \in Nat
  BY <1>1, <1>2
<1> QED
  BY <1>1, <1>2, <1>3, <1>4 DEF maxalign

LEMMA Segment ==
  /\ Blcksz \in Nat \ {0} /\ PagesPerSegment \in Nat \ {0}
  /\ SegSize \in Nat \ {0} /\ SegStart \in Nat
<1>1. Blcksz \in Nat \ {0} /\ PagesPerSegment \in Nat \ {0} /\ SegNo \in Nat
  BY GeometryAssumption
<1>2. \A x, y \in Nat \ {0} : x * y \in Nat \ {0}
  OBVIOUS
<1>3. \A x, y \in Nat : x * y \in Nat
  OBVIOUS
<1> QED
  BY <1>1, <1>2, <1>3 DEF SegSize, SegStart

\* An LSN is on some page of a segment, at some offset.
LEMMA PageOfLsn ==
  ASSUME NEW lsn \in Nat
  PROVE  lsn_to_page_no(lsn) \in PageNo /\ lsn_to_page_offset(lsn) \in Offset
<1>1. lsn % SegSize \in 0 .. SegSize - 1
  BY Segment, DivMod
<1>2. lsn % SegSize \in Nat /\ lsn % SegSize < PagesPerSegment * Blcksz
  BY <1>1, Segment DEF SegSize
<1> QED
  BY <1>2, Segment, DivMod, DivBelow
     DEF lsn_to_page_no, lsn_to_page_offset, PageNo, Offset

\* The conversions are each other's inverse within the segment.
LEMMA LsnOfPage ==
  ASSUME NEW p \in PageNo, NEW o \in Offset
  PROVE  /\ page_start_lsn(p) + o \in Nat
         /\ lsn_to_page_no(page_start_lsn(p) + o) = p
         /\ lsn_to_page_offset(page_start_lsn(p) + o) = o
<1> DEFINE x == p * Blcksz + o
<1>1. p \in Nat /\ p + 1 <= PagesPerSegment /\ o \in 0 .. Blcksz - 1
  BY Segment DEF PageNo, Offset
<1>2. x \in Nat /\ (p + 1) * Blcksz \in Nat /\ (p + 1) * Blcksz <= SegSize /\ x < (p + 1) * Blcksz
  BY <1>1, Segment DEF SegSize
<1> HIDE DEF x
<1>3. x \in 0 .. SegSize - 1
  BY <1>2, Segment
<1>4. page_start_lsn(p) + o = SegNo * SegSize + x
  BY <1>1, <1>2, Segment, GeometryAssumption DEF page_start_lsn, SegStart, x
<1>5. (SegNo * SegSize + x) % SegSize = x
  BY <1>3, Segment, DivUnique, GeometryAssumption
<1>6. x \div Blcksz = p /\ x % Blcksz = o
  BY <1>1, Segment, DivUnique DEF x
<1>7. page_start_lsn(p) + o \in Nat
  BY <1>2, <1>4, Segment DEF SegStart
<1> QED
  BY <1>4, <1>5, <1>6, <1>7 DEF lsn_to_page_no, lsn_to_page_offset

LEMMA HeaderSize ==
  ASSUME NEW page
  PROVE  header_size(page) \in Nat \ {0} /\ header_size(page) < Blcksz
  BY GeometryAssumption DEF header_size

-----------------------------------------------------------------------------
(* Facts about the data of a segment.                                      *)

LEMMA ZeroPageType == ZeroPage \in Page
  BY DEF ZeroPage, Page, Cell

LEMMA ValidationResult ==
  ASSUME NEW page, NEW n
  PROVE  validate_page_header(page, n) \in Errors \cup {"none"}
  BY DEF validate_page_header, Errors

LEMMA TotLenType ==
  ASSUME NEW cell \in Cell, NEW len \in TotLens(cell)
  PROVE  len \in Nat
<1>1. GarbageLengths \subseteq Nat
  BY GeometryAssumption DEF GarbageLengths
<1>2. CASE cell.kind = "record" /\ cell.idx = 0 /\ cell.good /\ cell # Zero
  <2>1. cell \notin {Zero, Hdr, Stale}
    BY <1>2 DEF Zero, Hdr, Stale
  <2>2. cell.tot_len \in Nat
    BY <2>1 DEF Cell
  <2> QED
    BY <1>2, <2>2 DEF TotLens
<1>3. CASE cell = Zero
  BY <1>3 DEF TotLens
<1>4. CASE cell # Zero /\ ~(cell.kind = "record" /\ cell.idx = 0 /\ cell.good)
  BY <1>1, <1>4 DEF TotLens
<1> QED
  BY <1>2, <1>3, <1>4

\* load_page puts a page of the file in the buffer.
LEMMA LoadPageType ==
  ASSUME TypeOK, NEW n \in PageNo, load_page(n)
  PROVE  page_buffer' \in Page /\ page_no' \in PageNo \cup {NO_PAGE}
  BY DEF load_page, TypeOK

LEMMA PageLimitType ==
  ASSUME TypeOK
  PROVE  PageLimit \in 0 .. PagesPerSegment /\ PageLimit <= readable_pages
  BY GeometryAssumption DEF TypeOK, PageLimit

\* What is copied from a page is cells.
LEMMA CopyType ==
  ASSUME TypeOK, CopyTake
  PROVE  /\ record_buffer' \in Seq(Cell)
         /\ Len(record_buffer') + remaining' = Len(record_buffer) + remaining
         /\ Len(record_buffer') - offset' = Len(record_buffer) - offset
         /\ remaining' \in Nat /\ offset' \in 0 .. Blcksz
<1> DEFINE room == Blcksz - offset
           take == IF remaining < room THEN remaining ELSE room
           copied == [i \in 1 .. take |-> page_buffer.body[offset + i - 1]]
<1>1. /\ offset \in Nat /\ remaining \in Nat /\ Blcksz \in Nat /\ offset < Blcksz
      /\ record_buffer \in Seq(Cell)
  BY Segment DEF TypeOK, CopyTake
<1>2. take \in Nat /\ take <= remaining /\ offset + take <= Blcksz
  BY <1>1
<1>3. \A i \in 1 .. take : page_buffer.body[offset + i - 1] \in Cell
  <2> TAKE i \in 1 .. take
  <2>1. offset + i - 1 \in Offset
    BY <1>1, <1>2 DEF Offset
  <2> QED
    BY <2>1 DEF TypeOK, Page
<1> HIDE DEF take
<1>4. copied \in Seq(Cell) /\ Len(copied) = take
  BY <1>2, <1>3
<1>5. record_buffer' = record_buffer \o copied /\ offset' = offset + take
        /\ remaining' = remaining - take
  BY DEF CopyTake, take
<1> HIDE DEF copied
<1>6. record_buffer' \in Seq(Cell) /\ Len(record_buffer') = Len(record_buffer) + take
  BY <1>1, <1>4, <1>5, ConcatProperties
<1>7. Len(record_buffer) \in Nat
  BY <1>1, LenProperties
<1> QED
  BY <1>1, <1>2, <1>5, <1>6, <1>7

LEMMA AddRangeType ==
  ASSUME NEW ranges \in Seq(FileRange), NEW start \in Nat, NEW take \in Nat
  PROVE  /\ AddRange(ranges, start, take) \in Seq(FileRange)
         /\ AddRange(ranges, start, take) # <<>>
         /\ LET new == AddRange(ranges, start, take) IN new[Len(new)].end = start + take
<1>1. CASE ranges # <<>> /\ ranges[Len(ranges)].end = start
  <2>1. Len(ranges) \in 1 .. Len(ranges) /\ Len(ranges) \in DOMAIN ranges
    BY <1>1, EmptySeq, LenProperties
  <2>2. ranges[Len(ranges)] \in FileRange
    BY <2>1
  <2> DEFINE last == [start |-> ranges[Len(ranges)].start, end |-> start + take]
             new == [ranges EXCEPT ![Len(ranges)] = last]
  <2>3. AddRange(ranges, start, take) = new
    BY <1>1 DEF AddRange
  <2>4. last \in FileRange
    BY <2>2 DEF FileRange
  <2> HIDE DEF last
  <2>5. new \in Seq(FileRange) /\ Len(new) = Len(ranges) /\ new[Len(ranges)] = last
    BY <2>1, <2>4, ExceptSeq
  <2>6. last.end = start + take
    BY DEF last
  <2> QED
    BY <2>1, <2>3, <2>5, <2>6
<1>2. CASE ~(ranges # <<>> /\ ranges[Len(ranges)].end = start)
  <2>1. [start |-> start, end |-> start + take] \in FileRange
    BY DEF FileRange
  <2> QED
    BY <1>2, <2>1, AppendProperties DEF AddRange
<1> QED
  BY <1>1, <1>2

-----------------------------------------------------------------------------
(* Types.  They rest on where the scan stands: that the cells copied so far*)
(* are enough to hold an xl_tot_len, and that there is a page in the buffer*)
(* to copy from.                                                           *)

ScanState ==
  /\ pc = "first_page" => readable_pages > 0
  /\ pc = "copy_header" => Len(record_buffer) + remaining = RecHdr
  /\ pc = "copy_body" => /\ Len(record_buffer) + remaining = tot_len
                         /\ LengthInRange(tot_len)

ScanInv == TypeOK /\ ScanState /\ BufferedPageIsValid

LEMMA InitScanInv == Init => ScanInv
<1> SUFFICES ASSUME Init PROVE ScanInv
  OBVIOUS
<1>1. dump \in [PageNo -> Page] /\ page_buffer \in Page
  BY ZeroPageType DEF Init, ReaderInit
<1>2. <<>> \in Seq(Cell) /\ <<>> \in Seq(FileRange) /\ <<>> \in Seq(Record)
  BY EmptySeq
<1>3. offset \in 0 .. Blcksz /\ readable_pages \in 0 .. PagesPerSegment /\ read_lsn \in Nat
  BY Segment DEF Init, ReaderInit
<1> QED
  BY <1>1, <1>2, <1>3
     DEF Init, ReaderInit, ScanInv, TypeOK, ScanState, BufferedPageIsValid, Reading, PC

\* A page that find_next_record goes on with is in the buffer, and valid.
LEMMA FindOnLoads ==
  ASSUME ScanInv, NEW n \in PageNo, FindOn(n)
  PROVE  /\ page_buffer' \in Page /\ page_buffer' = PageAt(n)
         /\ page_no' = n /\ page_no' \in 0 .. readable_pages - 1
         /\ validate_page_header(page_buffer', page_no') = "none"
<1>1. n \in Nat /\ n < readable_pages /\ readable_pages \in Nat
  BY PageLimitType, GeometryAssumption DEF FindOn, ScanInv, TypeOK, PageNo
<1> QED
  BY <1>1 DEF FindOn, PageAt, Valid, ScanInv, TypeOK, BufferedPageIsValid, Reading

\* A record begins on the page in the buffer, past its header.
LEMMA RecordBegins ==
  ASSUME ScanInv, FindRecord
  PROVE  /\ page_no' \in PageNo /\ page_no' = lsn_to_page_no(read_lsn)
         /\ FindOn(page_no')
         /\ offset' \in Offset /\ offset' >= lsn_to_page_offset(read_lsn)
         /\ offset' >= header_size(page_buffer')
         /\ read_lsn' = page_start_lsn(page_no') + offset' /\ read_lsn' \in Nat
<1> DEFINE n == lsn_to_page_no(read_lsn)
           page == PageAt(n)
           o == IF OpensWithTail(page) THEN header_size(page) + maxalign(page.xlp_rem_len)
                                       ELSE PastHeader(page)
<1>1. n \in PageNo /\ lsn_to_page_offset(read_lsn) \in Offset
  BY PageOfLsn DEF ScanInv, TypeOK
<1>2. FindOn(n) /\ ~(OpensWithTail(page) /\ TailFillsPage(page))
        /\ read_lsn' = page_start_lsn(n) + o /\ offset' = lsn_to_page_offset(read_lsn')
  BY DEF FindRecord
<1>3. page_no' = n /\ page_buffer' = page /\ page \in Page
  BY <1>1, <1>2, FindOnLoads
<1>4. page.xlp_rem_len \in Nat
  BY <1>3 DEF Page
<1>5. maxalign(page.xlp_rem_len) \in Nat
  BY <1>4, MaxAlignNat
<1>6. o \in Offset /\ o >= lsn_to_page_offset(read_lsn) /\ o >= header_size(page)
  BY <1>1, <1>2, <1>5, HeaderSize, Segment
     DEF OpensWithTail, TailFillsPage, PastHeader, Offset
<1>7. offset' = o /\ read_lsn' \in Nat
  BY <1>1, <1>2, <1>6, LsnOfPage
<1> QED
  BY <1>1, <1>2, <1>3, <1>6, <1>7

LEMMA NextScanInv == ScanInv /\ [Next]_vars => ScanInv'
<1> SUFFICES ASSUME ScanInv, [Next]_vars PROVE ScanInv'
  OBVIOUS
<1> USE DEF ScanInv
<1>0. 0 \in PageNo
  BY Segment DEF PageNo
<1>1. CASE OpenFails
  BY <1>1
     DEF OpenFails, TypeOK, ScanState, BufferedPageIsValid, ReturnNone, ReturnErr, env, buffer, locals, app, reader, PC, Reading
<1>2. CASE Open
  <2>1. readable_pages' \in 0 .. PagesPerSegment /\ readable_pages' > 0
    BY <1>2 DEF Open, TypeOK
  <2> QED
    BY <1>2, <2>1
       DEF Open, TypeOK, ScanState, BufferedPageIsValid, ReturnNone, ReturnErr, env, buffer, locals, app, reader, PC, Reading
<1>3. CASE LoadFirstPage
  <2>1. page_buffer' \in Page /\ page_no' \in PageNo \cup {NO_PAGE}
    BY <1>0, <1>3, LoadPageType DEF LoadFirstPage
  <2>2. validate_page_header(segment[0], 0) \in Errors \cup {"none"}
    BY ValidationResult
  <2>3. readable_pages \in Nat /\ readable_pages > 0
    BY <1>3 DEF LoadFirstPage, TypeOK, ScanState
  <2> QED
    BY <1>3, <2>1, <2>2, <2>3
       DEF LoadFirstPage, load_page, Valid, TypeOK, ScanState, BufferedPageIsValid, ReturnNone, ReturnErr, env, buffer, locals, app, reader, PC, Reading
<1>4. CASE LoadNextRecord
  BY <1>4
     DEF LoadNextRecord, TypeOK, ScanState, BufferedPageIsValid, ReturnNone, ReturnErr, env, buffer, locals, app, reader, PC, Reading
<1>5. CASE FindReachesEnd
  BY <1>5
     DEF FindReachesEnd, TypeOK, ScanState, BufferedPageIsValid, ReturnNone, ReturnErr, env, buffer, locals, app, reader, PC, Reading
<1>6. CASE FindCannotLoad
  <2> DEFINE n == lsn_to_page_no(read_lsn)
  <2>1. n \in PageNo
    BY PageOfLsn DEF TypeOK
  <2>2. page_buffer' \in Page /\ page_no' \in PageNo \cup {NO_PAGE}
    BY <1>6, <2>1, LoadPageType DEF FindCannotLoad
  <2>3. validate_page_header(segment[n], n) \in Errors \cup {"none"}
    BY ValidationResult
  <2> HIDE DEF n
  <2> QED
    BY <1>6, <2>2, <2>3
       DEF FindCannotLoad, n, TypeOK, ScanState, BufferedPageIsValid, ReturnNone, ReturnErr, env, buffer, locals, app, reader, PC, Reading
<1>7. CASE FindSkipsPage
  <2> DEFINE n == lsn_to_page_no(read_lsn)
  <2>1. n \in PageNo /\ FindOn(n)
    BY <1>7, PageOfLsn DEF TypeOK, FindSkipsPage
  <2>2. page_start_lsn(n + 1) \in Nat
    <3>1. n + 1 \in Nat /\ (n + 1) * Blcksz \in Nat
      BY <2>1, Segment DEF PageNo
    <3> QED
      BY <3>1, Segment DEF page_start_lsn
  <2>3. read_lsn' \in Nat
    BY <1>7, <2>2 DEF FindSkipsPage
  <2> QED
    BY <1>7, <2>1, <2>3, FindOnLoads
       DEF FindSkipsPage, FindOn, TypeOK, ScanState, BufferedPageIsValid, ReturnNone, ReturnErr, env, buffer, locals, app, reader, PC, Reading
<1>8. CASE FindRecord
  <2>1. FindOn(page_no') /\ page_no' \in PageNo /\ read_lsn' \in Nat /\ offset' \in 0 .. Blcksz
    BY <1>8, RecordBegins, Segment DEF Offset
  <2>2. <<>> \in Seq(Cell) /\ <<>> \in Seq(FileRange) /\ Len(<<>>) = 0
    BY EmptySeq
  <2>3. RecHdr \in Nat
    BY GeometryAssumption
  <2>4. /\ page_buffer' \in Page /\ page_no' \in 0 .. readable_pages - 1
        /\ validate_page_header(page_buffer', page_no') = "none"
    BY <2>1, FindOnLoads
  <2>5. /\ record_lsn' = read_lsn' /\ record_buffer' = <<>> /\ file_ranges' = <<>>
        /\ header_bytes' = 0 /\ remaining' = RecHdr /\ tot_len' = 0 /\ pc' = "copy_header"
    BY <1>8 DEF FindRecord
  <2> QED
    BY <2>1, <2>2, <2>3, <2>4, <2>5
       DEF FindOn, TypeOK, ScanState, BufferedPageIsValid, ReturnNone, ReturnErr, env, buffer, locals, app, reader, PC, Reading
<1>9. CASE CopyReachesEnd
  <2> DEFINE next == page_no + 1
  <2>1. next \in Nat
    BY <1>9 DEF CopyReachesEnd, Copying, TypeOK, BufferedPageIsValid, Reading
  <2>2. next < PageLimit => next \in PageNo
    BY <2>1, PageLimitType, Segment DEF PageNo
  <2>3. page_buffer' \in Page /\ page_no' \in PageNo \cup {NO_PAGE}
    BY <1>9, <2>2, LoadPageType DEF CopyReachesEnd, TypeOK, buffer
  <2>4. validate_page_header(segment[next], next) \in Errors \cup {"none"}
    BY ValidationResult
  <2> QED
    BY <1>9, <2>3, <2>4
       DEF CopyReachesEnd, TypeOK, ScanState, BufferedPageIsValid, ReturnNone, ReturnErr, env, buffer, locals, app, reader, PC, Reading
<1>10. CASE CopyNextPage
  <2> DEFINE next == page_no + 1
  <2>1. next \in Nat /\ next < PageLimit
    BY <1>10 DEF CopyNextPage, Copying, TypeOK, BufferedPageIsValid, Reading
  <2>2. next \in PageNo /\ next \in 0 .. readable_pages - 1
    BY <2>1, PageLimitType, Segment DEF PageNo, TypeOK
  <2>3. page_buffer' \in Page /\ page_buffer' = segment[next] /\ page_no' = next
    BY <1>10, <2>2, LoadPageType DEF CopyNextPage, load_page, Valid
  <2>4. offset' \in 0 .. Blcksz /\ header_bytes' \in Nat
    BY <1>10, HeaderSize, Segment DEF CopyNextPage, TypeOK
  <2> QED
    BY <1>10, <2>2, <2>3, <2>4
       DEF CopyNextPage, Copying, Valid, TypeOK, ScanState, BufferedPageIsValid, ReturnNone, ReturnErr, env, buffer, locals, app, reader, PC, Reading
<1>11. CASE CopyTake
  <2> DEFINE room == Blcksz - offset
             take == IF remaining < room THEN remaining ELSE room
  <2>1. page_no \in Nat /\ offset \in Nat /\ take \in Nat
    BY <1>11, Segment DEF CopyTake, Copying, TypeOK, BufferedPageIsValid, Reading
  <2>2. page_no * Blcksz + offset \in Nat
    BY <2>1, Segment
  <2>3. file_ranges' \in Seq(FileRange)
    BY <1>11, <2>1, <2>2, AddRangeType DEF CopyTake, TypeOK
  <2>4. /\ record_buffer' \in Seq(Cell)
        /\ Len(record_buffer') + remaining' = Len(record_buffer) + remaining
        /\ remaining' \in Nat /\ offset' \in 0 .. Blcksz
    BY <1>11, CopyType
  <2> QED
    BY <1>11, <2>3, <2>4
       DEF CopyTake, Copying, TypeOK, ScanState, BufferedPageIsValid, ReturnNone, ReturnErr, env, buffer, locals, app, reader, PC, Reading
<1>12. CASE HeaderEndsScan
  <2>1. "InvalidRecordLength" \in Errors
    BY DEF Errors
  <2> QED
    BY <1>12, <2>1
       DEF HeaderEndsScan, TypeOK, ScanState, BufferedPageIsValid, ReturnNone, ReturnErr, env, buffer, locals, app, reader, PC, Reading
<1>13. CASE HeaderCopied
  <2>1. record_buffer \in Seq(Cell) /\ Len(record_buffer) = RecHdr /\ RecHdr \in Nat \ {0}
    BY <1>13, GeometryAssumption DEF HeaderCopied, TypeOK, ScanState
  <2>2. record_buffer[1] \in Cell
    BY <2>1
  <2>3. PICK len \in TotLens(record_buffer[1]) :
          LengthInRange(len) /\ tot_len' = len /\ remaining' = len - RecHdr
    BY <1>13 DEF HeaderCopied
  <2>4. len \in Nat
    BY <2>2, TotLenType
  <2>5. remaining' \in Nat /\ tot_len' \in Nat /\ LengthInRange(tot_len')
          /\ Len(record_buffer) + remaining' = tot_len'
    BY <2>1, <2>3, <2>4 DEF LengthInRange
  <2> QED
    BY <1>13, <2>5
       DEF HeaderCopied, LengthInRange, TypeOK, ScanState, BufferedPageIsValid, ReturnNone, ReturnErr, env, buffer, locals, app, reader, PC, Reading
<1>14. CASE DecodeFails
  <2>1. maxalign(tot_len) \in Nat
    BY MaxAlignNat DEF TypeOK
  <2>2. read_lsn' \in Nat /\ "DecodeError" \in Errors
    BY <1>14, <2>1 DEF DecodeFails, AdvanceReadLsn, TypeOK, Errors
  <2> QED
    BY <1>14, <2>2
       DEF DecodeFails, TypeOK, ScanState, BufferedPageIsValid, ReturnNone, ReturnErr, env, buffer, locals, app, reader, PC, Reading
<1>15. CASE ReturnRecord
  <2>1. maxalign(tot_len) \in Nat
    BY MaxAlignNat DEF TypeOK
  <2>2. read_lsn' \in Nat
    BY <1>15, <2>1 DEF ReturnRecord, AdvanceReadLsn, TypeOK
  <2>3. verify_record_crc(record_buffer) \in BOOLEAN
    BY DEF verify_record_crc
  <2> DEFINE r == [lsn |-> record_lsn, raw |-> record_buffer,
                   crc_ok |-> verify_record_crc(record_buffer), file_ranges |-> file_ranges]
  <2>4. r \in Record
    BY <2>3 DEF TypeOK, Record
  <2> HIDE DEF r
  <2>5. records' = Append(records, r) /\ done' \in BOOLEAN
    BY <1>15, <2>3 DEF ReturnRecord, StopAtBadCrc, r, TypeOK
  <2>6. records' \in Seq(Record)
    BY <2>4, <2>5, AppendProperties DEF TypeOK
  <2> QED
    BY <1>15, <2>2, <2>5, <2>6
       DEF ReturnRecord, TypeOK, ScanState, BufferedPageIsValid, ReturnNone, ReturnErr, env, buffer, locals, app, reader, PC, Reading
<1>16. CASE NothingToShow
  BY <1>16
     DEF NothingToShow, TypeOK, ScanState, BufferedPageIsValid, ReturnNone, ReturnErr, env, buffer, locals, app, reader, PC, Reading
<1>17. CASE ReadFileAgain
  BY <1>17
     DEF ReadFileAgain, TypeOK, ScanState, BufferedPageIsValid, ReturnNone, ReturnErr, env, buffer, locals, app, reader, PC, Reading
<1>18. CASE Environment
  BY <1>18
     DEF Environment, TypeOK, ScanState, BufferedPageIsValid, ReturnNone, ReturnErr, env, buffer, locals, app, reader, PC, Reading
<1>19. CASE UNCHANGED vars
  BY <1>19 DEF vars, TypeOK, ScanState, BufferedPageIsValid, ReturnNone, ReturnErr, env, buffer, locals, app, reader, PC, Reading
<1> QED
  BY <1>1, <1>2, <1>3, <1>4, <1>5, <1>6, <1>7, <1>8, <1>9, <1>10, <1>11, <1>12, <1>13, <1>14, <1>15, <1>16, <1>17, <1>18, <1>19 DEF Next, Step

LEMMA ScanInvariant == Spec => []ScanInv
  BY InitScanInv, NextScanInv, PTL DEF Spec

\* Whatever the file holds, every variable of the reader keeps its type.
THEOREM TypeCorrect == Spec => []TypeOK
  BY ScanInvariant, PTL DEF ScanInv

(***************************************************************************)
(* BufferedPageIsValid holds however the file changes under the reader: a  *)
(* page it has rejected is never read from.                                *)
(***************************************************************************)
THEOREM BufferedPageValid == Spec => []BufferedPageIsValid
  BY ScanInvariant, PTL DEF ScanInv

-----------------------------------------------------------------------------
(* The accounts of copy_record_bytes agree.                                *)

LEMMA NextAccounts == ScanInv /\ Accounts /\ [Next]_vars => Accounts'
<1> SUFFICES ASSUME ScanInv, Accounts, [Next]_vars, pc' \in {"copy_header", "copy_body"}
             PROVE  Accounts'
  BY DEF Accounts
<1> DEFINE at == page_no * Blcksz + offset
<1>1. CASE FindRecord
  <2>1. /\ page_no' \in PageNo /\ offset' \in Offset
        /\ offset' >= header_size(page_buffer')
        /\ read_lsn' = page_start_lsn(page_no') + offset'
    BY <1>1, RecordBegins
  <2>2. record_lsn' = read_lsn' /\ header_bytes' = 0 /\ record_buffer' = <<>>
    BY <1>1 DEF FindRecord
  <2>3. page_no' * Blcksz \in Nat /\ offset' \in Nat /\ SegStart \in Nat
    <3>1. page_no' \in Nat /\ offset' \in Nat /\ Blcksz \in Nat
      BY <2>1, Segment DEF PageNo, Offset
    <3>2. \A x, y \in Nat : x * y \in Nat
      OBVIOUS
    <3> QED
      BY <3>1, <3>2, Segment
  <2>4. SegStart + at' = record_lsn' + header_bytes' + Len(record_buffer')
    BY <2>1, <2>2, <2>3, EmptySeq DEF page_start_lsn
  <2> QED
    BY <2>1, <2>2, <2>4 DEF Accounts
<1>2. CASE CopyNextPage
  <2>1. /\ page_no' = page_no + 1 /\ page_no \in Nat /\ offset = Blcksz
        /\ page_buffer' = segment[page_no + 1]
        /\ pc \in {"copy_header", "copy_body"}
    BY <1>2 DEF CopyNextPage, Copying, load_page, Valid,
                ScanInv, TypeOK, BufferedPageIsValid, Reading
  <2>2. offset' = header_size(page_buffer') /\ header_bytes' = header_bytes + offset'
          /\ header_size(page_buffer') \in Nat
    BY <1>2, <2>1, HeaderSize DEF CopyNextPage
  <2>3. (page_no + 1) * Blcksz = page_no * Blcksz + Blcksz /\ page_no * Blcksz \in Nat
    BY <2>1, Segment
  <2>4. UNCHANGED <<record_buffer, record_lsn, read_lsn>>
    BY <1>2 DEF CopyNextPage
  <2>5. SegStart + at = record_lsn + header_bytes + Len(record_buffer) /\ read_lsn = record_lsn
    BY <2>1 DEF Accounts
  <2>6. Len(record_buffer) \in Nat /\ record_lsn \in Nat /\ header_bytes \in Nat
    BY LenProperties DEF ScanInv, TypeOK
  <2>7. SegStart + at' = record_lsn' + header_bytes' + Len(record_buffer')
    <3>1. at' = at + offset' /\ at \in Nat
      BY <2>1, <2>2, <2>3, Segment
    <3> HIDE DEF at
    <3> QED
      BY SMTT(30), <2>2, <2>4, <2>5, <2>6, <3>1, Segment
  <2> QED
    BY <2>2, <2>4, <2>5, <2>7 DEF Accounts
<1>3. CASE CopyTake
  <2> DEFINE room == Blcksz - offset
             take == IF remaining < room THEN remaining ELSE room
  <2>1. /\ page_no \in Nat /\ offset \in Nat /\ take \in Nat
        /\ pc \in {"copy_header", "copy_body"}
    BY <1>3, Segment DEF CopyTake, Copying, ScanInv, TypeOK, BufferedPageIsValid, Reading
  <2>2. page_no * Blcksz \in Nat
    BY <2>1, Segment
  <2>3. /\ offset' = offset + take
        /\ file_ranges' = AddRange(file_ranges, at, take)
        /\ UNCHANGED <<page_no, page_buffer, record_lsn, read_lsn, header_bytes>>
    BY <1>3 DEF CopyTake, buffer
  <2>4. file_ranges'[Len(file_ranges')].end = at + take
    BY SMTT(30), <2>1, <2>2, <2>3, AddRangeType DEF ScanInv, TypeOK
  <2>5. Len(record_buffer') - offset' = Len(record_buffer) - offset
          /\ Len(record_buffer') \in Nat /\ Len(record_buffer) \in Nat
    BY <1>3, CopyType, LenProperties DEF ScanInv, TypeOK
  <2>6. /\ SegStart + at = record_lsn + header_bytes + Len(record_buffer)
        /\ read_lsn = record_lsn /\ offset >= header_size(page_buffer)
    BY <2>1 DEF Accounts
  <2>7. record_lsn \in Nat /\ header_bytes \in Nat /\ header_size(page_buffer) \in Nat
    BY HeaderSize DEF ScanInv, TypeOK
  <2> HIDE DEF take
  <2>8. SegStart + at' = record_lsn' + header_bytes' + Len(record_buffer')
    BY <2>1, <2>2, <2>3, <2>5, <2>6, <2>7, Segment
  <2>9. at' = at + take /\ offset' >= header_size(page_buffer')
    BY <2>1, <2>2, <2>3, <2>6, <2>7
  <2> QED
    BY <2>3, <2>4, <2>6, <2>8, <2>9 DEF Accounts
<1>4. CASE HeaderCopied
  BY <1>4 DEF HeaderCopied, Accounts, buffer
<1>5. CASE Environment
  BY <1>5 DEF Environment, Accounts, reader, buffer, locals
<1>6. CASE UNCHANGED vars
  BY <1>6 DEF vars, Accounts, reader, buffer, locals
<1>7. CASE Step /\ ~FindRecord /\ ~CopyNextPage /\ ~CopyTake /\ ~HeaderCopied
  <2>1. pc' \notin {"copy_header", "copy_body"}
    BY <1>7 DEF Step, OpenFails, Open, LoadFirstPage, LoadNextRecord, FindReachesEnd,
                FindCannotLoad, FindSkipsPage, CopyReachesEnd, HeaderEndsScan,
                DecodeFails, ReturnRecord, NothingToShow, ReadFileAgain,
                ReturnNone, ReturnErr, FindOn
  <2> QED
    BY <2>1
<1> QED
  BY <1>1, <1>2, <1>3, <1>4, <1>5, <1>6, <1>7 DEF Next

(***************************************************************************)
(* Accounts holds on any file: the reader's bookkeeping across page breaks *)
(* is exact even where the file is garbage or changes.                     *)
(***************************************************************************)
THEOREM AccountsAgree == Spec => []Accounts
<1>1. Init => Accounts
  BY DEF Init, ReaderInit, Accounts
<1> QED
  BY <1>1, ScanInvariant, NextAccounts, PTL DEF Spec

-----------------------------------------------------------------------------
(* Only the last record can be one that failed its checksum.               *)

\* While load_next_record is under way, done is not set.
WorkingNotDone == pc \in {"find", "copy_header", "copy_body"} => ~done

LEMMA NextOnlyLastFails ==
  ScanInv /\ WorkingNotDone /\ OnlyLastFails /\ [Next]_vars => OnlyLastFails'
<1> SUFFICES ASSUME ScanInv, WorkingNotDone, OnlyLastFails, [Next]_vars
             PROVE  OnlyLastFails'
  OBVIOUS
<1>1. CASE ReturnRecord
  <2> DEFINE r == [lsn |-> record_lsn, raw |-> record_buffer,
                   crc_ok |-> verify_record_crc(record_buffer), file_ranges |-> file_ranges]
  <2>1. records' = Append(records, r) /\ done' = (done \/ ~r.crc_ok) /\ ~done
    BY <1>1 DEF ReturnRecord, StopAtBadCrc, WorkingNotDone
  <2>2. \A k \in 1 .. Len(records) : records[k].crc_ok
    BY <2>1 DEF OnlyLastFails
  <2> HIDE DEF r
  <2>3. records \in Seq(Record)
    BY DEF ScanInv, TypeOK
  <2>4. /\ Len(records') = Len(records) + 1 /\ Len(records) \in Nat
        /\ \A k \in 1 .. Len(records) : records'[k] = records[k]
        /\ records'[Len(records) + 1] = r
    BY <2>1, <2>3
  <2>5. ASSUME NEW k \in 1 .. Len(records'), ~records'[k].crc_ok
        PROVE  k = Len(records') /\ done'
    <3>1. k = Len(records) + 1
      BY <2>2, <2>4, <2>5
    <3> QED
      BY <2>1, <2>4, <2>5, <3>1
  <2> QED
    BY <2>5 DEF OnlyLastFails
<1>2. CASE ~ReturnRecord
  <2>1. records' = records
    BY <1>2 DEF Next, Step, OpenFails, Open, LoadFirstPage, LoadNextRecord, FindReachesEnd,
                FindCannotLoad, FindSkipsPage, FindRecord, CopyReachesEnd, CopyNextPage,
                CopyTake, HeaderEndsScan, HeaderCopied, DecodeFails, NothingToShow,
                ReadFileAgain, Environment, FindOn, ReturnNone, ReturnErr,
                vars, reader, app
  <2>2. done => done'
    BY <1>2 DEF Next, Step, OpenFails, Open, LoadFirstPage, LoadNextRecord, FindReachesEnd,
                FindCannotLoad, FindSkipsPage, FindRecord, CopyReachesEnd, CopyNextPage,
                CopyTake, HeaderEndsScan, HeaderCopied, DecodeFails, NothingToShow,
                ReadFileAgain, Environment, FindOn, ReturnNone, ReturnErr,
                vars, reader, app
  <2> QED
    BY <2>1, <2>2 DEF OnlyLastFails
<1> QED
  BY <1>1, <1>2

LEMMA NextWorkingNotDone == WorkingNotDone /\ [Next]_vars => WorkingNotDone'
  BY DEF WorkingNotDone, Next, Step, OpenFails, Open, LoadFirstPage, LoadNextRecord,
         FindReachesEnd, FindCannotLoad, FindSkipsPage, FindRecord, CopyReachesEnd,
         CopyNextPage, CopyTake, HeaderEndsScan, HeaderCopied, DecodeFails, ReturnRecord,
         NothingToShow, ReadFileAgain, Environment, FindOn, ReturnNone, ReturnErr,
         vars, reader, app

(***************************************************************************)
(* OnlyLastFails holds on any file: behind a record shown as failing its   *)
(* checksum the application never shows another.                           *)
(***************************************************************************)
THEOREM NothingAfterBadCrc == Spec => []OnlyLastFails
<1>1. Init => WorkingNotDone /\ OnlyLastFails
  BY DEF Init, ReaderInit, WorkingNotDone, OnlyLastFails
<1>2. ScanInv /\ WorkingNotDone /\ OnlyLastFails /\ [Next]_vars
        => (WorkingNotDone /\ OnlyLastFails)'
  BY NextWorkingNotDone, NextOnlyLastFails
<1> QED
  BY <1>1, <1>2, ScanInvariant, PTL DEF Spec

-----------------------------------------------------------------------------
(* Alignment.                                                              *)

Aligned(x) == x % MaxAlign = 0

LEMMA AlignedIff ==
  ASSUME NEW x \in Nat
  PROVE  Aligned(x) <=> \E k \in Nat : x = k * MaxAlign
<1>1. MaxAlign \in Nat \ {0}
  BY GeometryAssumption
<1>2. x \div MaxAlign \in Nat /\ x = MaxAlign * (x \div MaxAlign) + (x % MaxAlign)
  BY <1>1, DivMod
<1>3. ASSUME Aligned(x) PROVE \E k \in Nat : x = k * MaxAlign
  <2>1. x = (x \div MaxAlign) * MaxAlign
    BY <1>1, <1>2, <1>3 DEF Aligned
  <2> QED
    BY <1>2, <2>1
<1>4. ASSUME NEW k \in Nat, x = k * MaxAlign PROVE Aligned(x)
  <2>1. (k * MaxAlign + 0) % MaxAlign = 0
    BY <1>1, DivUnique
  <2> QED
    BY <1>1, <1>4, <2>1 DEF Aligned
<1> QED
  BY <1>3, <1>4

LEMMA AlignedSum ==
  ASSUME NEW x \in Nat, NEW y \in Nat, Aligned(x), Aligned(y)
  PROVE  Aligned(x + y) /\ (x >= y => Aligned(x - y))
<1>1. PICK k \in Nat : x = k * MaxAlign
  BY AlignedIff
<1>2. PICK m \in Nat : y = m * MaxAlign
  BY AlignedIff
<1>3. MaxAlign \in Nat \ {0}
  BY GeometryAssumption
<1>4. x + y = (k + m) * MaxAlign /\ k + m \in Nat /\ x + y \in Nat
  BY <1>1, <1>2, <1>3
<1>5. ASSUME x >= y PROVE Aligned(x - y)
  <2>1. k >= m
    BY <1>1, <1>2, <1>3, <1>5
  <2>2. x - y = (k - m) * MaxAlign /\ k - m \in Nat /\ x - y \in Nat
    BY <1>1, <1>2, <1>3, <1>5, <2>1
  <2> QED
    BY <2>2, AlignedIff
<1> QED
  BY <1>4, <1>5, AlignedIff

LEMMA AlignedMultiple ==
  ASSUME NEW x \in Nat, NEW n \in Nat, Aligned(x)
  PROVE  n * x \in Nat /\ Aligned(n * x)
<1>1. PICK k \in Nat : x = k * MaxAlign
  BY AlignedIff
<1>2. n * x = (n * k) * MaxAlign /\ n * k \in Nat /\ n * x \in Nat
  BY <1>1, GeometryAssumption
<1> QED
  BY <1>2, AlignedIff

\* maxalign(n) is the least multiple of MaxAlign that is not below n.
LEMMA MaxAlignLeast ==
  ASSUME NEW n \in Nat
  PROVE  /\ maxalign(n) \in Nat /\ Aligned(maxalign(n))
         /\ \A x \in Nat : Aligned(x) /\ n <= x => maxalign(n) <= x
<1> DEFINE q == (n + MaxAlign - 1) \div MaxAlign
<1>1. MaxAlign \in Nat \ {0} /\ n + MaxAlign - 1 \in Nat
  BY GeometryAssumption
<1>2. q \in Nat /\ MaxAlign * q <= n + MaxAlign - 1 /\ maxalign(n) = q * MaxAlign
  BY <1>1, DivMod DEF maxalign
<1> HIDE DEF q
<1>3. ASSUME NEW x \in Nat, Aligned(x), n <= x PROVE maxalign(n) <= x
  <2>1. PICK k \in Nat : x = k * MaxAlign
    BY <1>3, AlignedIff
  <2>2. q * MaxAlign < (k + 1) * MaxAlign
    BY <1>1, <1>2, <1>3, <2>1
  <2>3. q <= k
    BY <1>1, <1>2, <2>2
  <2> QED
    BY <1>1, <1>2, <2>1, <2>3
<1> QED
  BY <1>2, <1>3, MaxAlignNat, AlignedIff

LEMMA AlignedGeometry ==
  /\ Aligned(Blcksz) /\ Aligned(SegStart)
  /\ \A page : Aligned(header_size(page))
  /\ \A n \in Nat : page_start_lsn(n) \in Nat /\ Aligned(page_start_lsn(n))
<1>1. Aligned(Blcksz) /\ Aligned(ShortHdr) /\ Aligned(LongHdr)
  BY AlignmentAssumption DEF Aligned
<1>2. SegSize \in Nat /\ Aligned(SegSize)
  BY <1>1, Segment, AlignedMultiple DEF SegSize
<1>3. SegStart \in Nat /\ Aligned(SegStart)
  BY <1>2, AlignedMultiple, GeometryAssumption DEF SegStart
<1>4. ASSUME NEW n \in Nat PROVE page_start_lsn(n) \in Nat /\ Aligned(page_start_lsn(n))
  <2>1. n * Blcksz \in Nat /\ Aligned(n * Blcksz)
    BY <1>1, AlignedMultiple, Segment
  <2> QED
    BY <1>3, <2>1, AlignedSum DEF page_start_lsn
<1> QED
  BY <1>1, <1>3, <1>4 DEF header_size

\* An LSN of the segment is where its page starts plus its offset.
LEMMA LsnSplit ==
  ASSUME NEW lsn \in SegStart .. SegEnd - 1
  PROVE  page_start_lsn(lsn_to_page_no(lsn)) + lsn_to_page_offset(lsn) = lsn
<1> DEFINE x == lsn - SegStart
<1>1. x \in 0 .. SegSize - 1 /\ x \in Nat /\ lsn = SegNo * SegSize + x
  BY Segment DEF SegEnd, SegStart
<1> HIDE DEF x
<1>2. lsn % SegSize = x
  BY <1>1, Segment, DivUnique, GeometryAssumption
<1>3. x = Blcksz * (x \div Blcksz) + (x % Blcksz)
        /\ x \div Blcksz \in Nat /\ x % Blcksz \in 0 .. Blcksz - 1
  BY <1>1, Segment, DivMod
<1>4. Blcksz * (x \div Blcksz) = (x \div Blcksz) * Blcksz /\ Blcksz * (x \div Blcksz) \in Nat
  BY <1>3, Segment
<1>5. page_start_lsn(lsn_to_page_no(lsn)) = SegStart + (x \div Blcksz) * Blcksz
        /\ lsn_to_page_offset(lsn) = x % Blcksz
  BY <1>2 DEF lsn_to_page_no, lsn_to_page_offset, page_start_lsn
<1>6. lsn = SegStart + x
  BY <1>1 DEF SegStart
<1> QED
  BY <1>3, <1>4, <1>5, <1>6, Segment

\* The end of a page of the segment.
LEMMA PageEnd ==
  ASSUME NEW p \in PageNo
  PROVE  /\ page_start_lsn(p) + Blcksz = page_start_lsn(p + 1)
         /\ page_start_lsn(p) \in Nat /\ page_start_lsn(p) >= SegStart
         /\ page_start_lsn(p + 1) \in Nat /\ page_start_lsn(p + 1) <= SegEnd
<1>1. p \in Nat /\ p + 1 <= PagesPerSegment /\ Blcksz \in Nat /\ PagesPerSegment \in Nat
  BY Segment DEF PageNo
<1>2. (p + 1) * Blcksz <= SegSize /\ (p + 1) * Blcksz = p * Blcksz + Blcksz /\ p * Blcksz \in Nat
  BY <1>1 DEF SegSize
<1> QED
  BY <1>1, <1>2, Segment DEF page_start_lsn, SegEnd

-----------------------------------------------------------------------------
(* The read pointer stays in the segment, aligned, and only moves forward. *)

PointerInv ==
  /\ ReadPointerInSegment
  /\ pc \in {"copy_header", "copy_body"} => Aligned(header_bytes)

\* find_next_record does not go back, unless it stands at the segment's end.
LEMMA FindPointer ==
  ASSUME ScanInv, ReadPointerInSegment, FindSkipsPage \/ FindRecord
  PROVE  /\ ReadPointerInSegment'
         /\ read_lsn' >= read_lsn \/ read_lsn = SegEnd
<1> DEFINE n == lsn_to_page_no(read_lsn)
           o == lsn_to_page_offset(read_lsn)
<1>1. read_lsn \in Nat /\ n \in PageNo /\ o \in Offset
  BY PageOfLsn DEF ScanInv, TypeOK
<1>2. /\ page_start_lsn(n) \in Nat /\ page_start_lsn(n + 1) \in Nat
      /\ page_start_lsn(n) >= SegStart /\ page_start_lsn(n + 1) <= SegEnd
      /\ page_start_lsn(n) + Blcksz = page_start_lsn(n + 1)
      /\ Aligned(page_start_lsn(n)) /\ Aligned(page_start_lsn(n + 1))
  <2>1. n \in Nat /\ n + 1 \in Nat
    BY <1>1 DEF PageNo
  <2> QED
    BY <1>1, <2>1, PageEnd, AlignedGeometry
<1>3. read_lsn # SegEnd => page_start_lsn(n) + o = read_lsn
  BY LsnSplit, Segment DEF ReadPointerInSegment, SegEnd
<1>4. Aligned(read_lsn)
  BY DEF ReadPointerInSegment, Aligned
<1>5. CASE FindSkipsPage
  <2>1. read_lsn' = page_start_lsn(n + 1)
    BY <1>5 DEF FindSkipsPage
  <2> QED
    BY <1>1, <1>2, <1>3, <2>1, Segment DEF ReadPointerInSegment, Aligned, Offset, SegEnd
<1>6. CASE FindRecord
  <2> DEFINE page == PageAt(n)
             h == header_size(page)
             rem == maxalign(page.xlp_rem_len)
  <2>1. /\ offset' \in Offset /\ offset' >= o
        /\ read_lsn' = page_start_lsn(n) + offset' /\ read_lsn' \in Nat
        /\ FindOn(n)
    BY <1>6, RecordBegins
  <2>2. offset' \in Nat /\ o \in Nat /\ offset' < Blcksz
    BY <1>1, <2>1, Segment DEF Offset
  <2>3. read_lsn' >= read_lsn \/ read_lsn = SegEnd
    BY <1>1, <1>2, <1>3, <2>1, <2>2
  <2>4. SegStart <= read_lsn' /\ read_lsn' <= SegEnd
    BY <1>2, <2>1, <2>2, Segment DEF SegEnd
  <2>5. page_start_lsn(n) + (IF OpensWithTail(page) THEN h + rem ELSE PastHeader(page)) = read_lsn'
    BY <1>6 DEF FindRecord
  <2>6. h \in Nat /\ Aligned(h)
    BY HeaderSize, AlignedGeometry
  <2>7. page \in Page
    BY <1>1, <2>1, FindOnLoads
  <2>8. rem \in Nat /\ Aligned(rem)
    BY <2>7, MaxAlignLeast DEF Page
  <2>9. Aligned(read_lsn')
    <3>1. CASE OpensWithTail(page)
      <4>1. h + rem \in Nat /\ Aligned(h + rem)
        BY <2>6, <2>8, AlignedSum
      <4> QED
        BY <1>2, <2>5, <3>1, <4>1, AlignedSum
    <3>2. CASE ~OpensWithTail(page) /\ o < h
      <4>1. read_lsn' = page_start_lsn(n) + h
        BY <2>5, <3>2 DEF PastHeader
      <4> QED
        BY <1>2, <2>6, <4>1, AlignedSum
    <3>3. CASE ~OpensWithTail(page) /\ ~(o < h) /\ read_lsn # SegEnd
      <4>1. read_lsn' = page_start_lsn(n) + o
        BY <2>5, <3>3 DEF PastHeader
      <4> QED
        BY <1>3, <1>4, <3>3, <4>1
    <3>4. CASE ~OpensWithTail(page) /\ ~(o < h) /\ read_lsn = SegEnd
      <4>1. SegEnd = (SegNo + 1) * SegSize + 0 /\ SegNo + 1 \in Nat
        BY Segment, GeometryAssumption DEF SegEnd, SegStart
      <4>2. read_lsn % SegSize = 0
        BY <3>4, <4>1, DivUnique, Segment
      <4>3. o = 0
        BY <4>2, Segment, DivUnique DEF lsn_to_page_offset
      <4> QED
        BY <3>4, <4>3, HeaderSize
    <3> QED
      BY <3>1, <3>2, <3>3, <3>4
  <2> QED
    BY <2>1, <2>3, <2>4, <2>9 DEF ReadPointerInSegment, Aligned, SegEnd
<1> QED
  BY <1>5, <1>6

\* Behind a record the read pointer is on its last page, or at its end.
LEMMA RecordEndPointer ==
  ASSUME ScanInv, Accounts, PointerInv, DecodeFails \/ ReturnRecord
  PROVE  ReadPointerInSegment' /\ read_lsn' >= read_lsn
<1>1. pc = "copy_body" /\ remaining = 0 /\ read_lsn' = read_lsn + header_bytes + maxalign(tot_len)
  BY DEF DecodeFails, ReturnRecord, AdvanceReadLsn
<1>2. /\ SegStart + page_no * Blcksz + offset = read_lsn + header_bytes + tot_len
      /\ Len(record_buffer) = tot_len
  <2>1. Len(record_buffer) = tot_len
    BY <1>1, LenProperties DEF ScanInv, ScanState, TypeOK
  <2>2. SegStart + (page_no * Blcksz + offset) = read_lsn + header_bytes + tot_len
    BY <1>1, <2>1 DEF Accounts
  <2>3. page_no \in Nat /\ offset \in Nat
    BY <1>1, Segment DEF ScanInv, TypeOK, BufferedPageIsValid, Reading
  <2>4. page_no * Blcksz \in Nat
    BY <2>3, Segment
  <2> QED
    BY <2>1, <2>2, <2>3, <2>4, Segment
<1>3. /\ page_no \in PageNo /\ offset \in Nat /\ offset <= Blcksz
      /\ read_lsn \in Nat /\ header_bytes \in Nat /\ tot_len \in Nat
  BY <1>1, Segment DEF ScanInv, TypeOK, BufferedPageIsValid, Reading, PageNo, NO_PAGE
<1> DEFINE end == page_start_lsn(page_no + 1)
           x == end - (read_lsn + header_bytes)
<1>4. end \in Nat /\ end <= SegEnd /\ Aligned(end)
  BY <1>3, PageEnd, AlignedGeometry DEF PageNo
<1>5. page_start_lsn(page_no) + offset = read_lsn + header_bytes + tot_len
        /\ page_start_lsn(page_no) \in Nat
  BY <1>2, <1>3, PageEnd DEF page_start_lsn
<1>6. read_lsn + header_bytes + tot_len <= end
  BY <1>3, <1>5, PageEnd, Segment
<1>7. read_lsn + header_bytes \in Nat /\ Aligned(read_lsn + header_bytes)
  BY <1>1, <1>3, AlignedSum DEF PointerInv, ReadPointerInSegment, Aligned
<1> HIDE DEF end
<1>8. x \in Nat /\ Aligned(x) /\ tot_len <= x
  <2>1. end >= read_lsn + header_bytes /\ tot_len <= x /\ x \in Nat
    BY <1>3, <1>4, <1>6
  <2>2. Aligned(end - (read_lsn + header_bytes))
    BY <1>4, <1>7, <2>1, AlignedSum
  <2> QED
    BY <2>1, <2>2
<1>9. maxalign(tot_len) \in Nat /\ maxalign(tot_len) <= x /\ Aligned(maxalign(tot_len))
  BY <1>3, <1>8, MaxAlignLeast
<1>10. Aligned(read_lsn') /\ read_lsn' \in Nat
  BY SMTT(30), <1>1, <1>7, <1>9, AlignedSum
<1>11. read_lsn' <= SegEnd /\ read_lsn' >= read_lsn
  <2>1. SegEnd \in Nat
    BY Segment DEF SegEnd
  <2> QED
    BY <1>1, <1>3, <1>4, <1>9, <2>1
<1> QED
  BY <1>3, <1>10, <1>11, Segment DEF PointerInv, ReadPointerInSegment, Aligned, SegEnd

LEMMA NextPointer ==
  ASSUME ScanInv, Accounts, PointerInv, [Next]_vars
  PROVE  PointerInv' /\ (read_lsn' >= read_lsn \/ read_lsn = SegEnd)
<1>1. CASE FindSkipsPage
  BY <1>1, FindPointer DEF PointerInv, FindSkipsPage, FindOn
<1>2. CASE FindRecord
  <2>1. header_bytes' = 0 /\ Aligned(0)
    <3>1. Aligned(0)
      BY GeometryAssumption DEF Aligned
    <3> QED
      BY <1>2, <3>1 DEF FindRecord
  <2> QED
    BY <1>2, <2>1, FindPointer DEF PointerInv
<1>3. CASE DecodeFails \/ ReturnRecord
  <2>1. pc' \notin {"copy_header", "copy_body"}
    BY <1>3 DEF DecodeFails, ReturnRecord, ReturnErr
  <2> QED
    BY <1>3, <2>1, RecordEndPointer DEF PointerInv
<1>4. CASE ~FindSkipsPage /\ ~FindRecord /\ ~DecodeFails /\ ~ReturnRecord
  <2>1. read_lsn' = read_lsn /\ read_lsn \in Nat
    BY <1>4 DEF Next, Step, OpenFails, Open, LoadFirstPage, LoadNextRecord, FindReachesEnd,
                FindCannotLoad, CopyReachesEnd, CopyNextPage, CopyTake, HeaderEndsScan,
                HeaderCopied, NothingToShow, ReadFileAgain, Environment, vars, reader,
                ScanInv, TypeOK
  <2>2. ASSUME pc' \in {"copy_header", "copy_body"} PROVE Aligned(header_bytes')
    <3>1. CASE CopyNextPage
      <4>1. /\ header_bytes' = header_bytes + header_size(segment[page_no + 1])
            /\ Aligned(header_bytes) /\ header_bytes \in Nat
        BY <3>1 DEF CopyNextPage, Copying, PointerInv, ScanInv, TypeOK
      <4> QED
        BY <4>1, AlignedSum, AlignedGeometry, HeaderSize
    <3>2. CASE ~CopyNextPage
      <4>1. header_bytes' = header_bytes /\ pc \in {"copy_header", "copy_body"}
        BY <1>4, <2>2, <3>2
           DEF Next, Step, OpenFails, Open, LoadFirstPage, LoadNextRecord, FindReachesEnd,
               FindCannotLoad, CopyReachesEnd, CopyTake, HeaderEndsScan, HeaderCopied,
               NothingToShow, ReadFileAgain, Environment, vars, reader, locals,
               ReturnNone, ReturnErr, Copying
      <4> QED
        BY <4>1 DEF PointerInv
    <3> QED
      BY <3>1, <3>2
  <2> QED
    BY <2>1, <2>2 DEF PointerInv, ReadPointerInSegment, SegEnd, SegStart, SegSize
<1> QED
  BY <1>1, <1>2, <1>3, <1>4

LEMMA PointerInvariant == Spec => [](ScanInv /\ Accounts /\ PointerInv)
<1>1. Init => PointerInv
  <2>1. SegStart \in Nat /\ SegEnd >= SegStart /\ SegEnd \in Nat /\ SegStart % MaxAlign = 0
    BY Segment, AlignedGeometry DEF SegEnd, Aligned
  <2> QED
    BY <2>1 DEF Init, ReaderInit, PointerInv, ReadPointerInSegment
<1>2. ScanInv /\ Accounts /\ PointerInv /\ [Next]_vars => PointerInv'
  BY NextPointer
<1> QED
  BY <1>1, <1>2, ScanInvariant, AccountsAgree, PTL DEF Spec

(***************************************************************************)
(* ReadPointerInSegment holds on any file.                                 *)
(***************************************************************************)
THEOREM ReadPointerStays == Spec => []ReadPointerInSegment
  BY PointerInvariant, PTL DEF PointerInv

(***************************************************************************)
(* ReadPointerAdvances holds on any file: the end of a complete segment is *)
(* the one place from which the reader can go back, and so the only cause  *)
(* for it to go round for ever.                                            *)
(***************************************************************************)
THEOREM ReadPointerForward == Spec => ReadPointerAdvances
<1>1. ScanInv /\ Accounts /\ PointerInv /\ [Next]_vars
        => [read_lsn' >= read_lsn \/ read_lsn = SegEnd]_vars
  BY NextPointer
<1> QED
  BY <1>1, PointerInvariant, PTL DEF Spec, ReadPointerAdvances

-----------------------------------------------------------------------------
(* The segment that a server writes.                                       *)


(***************************************************************************)
(* A server that writes the file is one of those that WalReader reckons    *)
(* with: it changes the contents of pages and nothing of the reader.       *)
(***************************************************************************)
LEMMA ServerIsEnvironment ==
  ASSUME wal \in Layouts, ServerWrites
  PROVE  Environment
<1>1. PICK f \in Stops(wal) : segment' = FileContent(wal, f)
  BY DEF ServerWrites
<1>2. segment' \in [PageNo -> Page]
  BY <1>1, LayoutAssumption
<1> QED BY <1>2 DEF ServerWrites, Environment

(***************************************************************************)
(* The closed system implements the open one: LiveSegment only says what   *)
(* the file contains and who else writes it.                               *)
(***************************************************************************)
THEOREM ClosedIsOpen == LiveSpec => Spec
<1>1. LiveInit => Init /\ wal \in Layouts
  <2> SUFFICES ASSUME LiveInit PROVE Init /\ wal \in Layouts
    OBVIOUS
  <2>1. wal \in Layouts /\ flushed \in Stops(wal) /\ ReaderInit
    BY DEF LiveInit
  <2>2. segment \in [PageNo -> Page]
    BY <2>1, LayoutAssumption DEF LiveInit
  <2>3. file_pages \in 0 .. PagesPerSegment
    BY <2>1, LayoutAssumption DEF LiveInit, IsLayout
  <2> QED BY <2>1, <2>2, <2>3 DEF Init
<1>2. wal \in Layouts /\ [LiveNext]_LiveVars => [Next]_vars /\ (wal \in Layouts)'
  <2> SUFFICES ASSUME wal \in Layouts, [LiveNext]_LiveVars
               PROVE  [Next]_vars /\ (wal \in Layouts)'
    OBVIOUS
  <2>1. CASE ReaderSteps
    BY <2>1 DEF ReaderSteps, Next, live
  <2>2. CASE ServerWrites
    BY <2>2, ServerIsEnvironment DEF Next, ServerWrites
  <2>3. CASE UNCHANGED LiveVars
    BY <2>3 DEF LiveVars, live
  <2> QED BY <2>1, <2>2, <2>3 DEF LiveNext
<1> QED BY <1>1, <1>2, PTL DEF LiveSpec, Spec

(***************************************************************************)
(* What the reader keeps straight on any file, it keeps straight here,     *)
(* whatever the segment and however far the server has got: no byte is     *)
(* taken from a rejected page, the accounts of a copy agree, nothing       *)
(* follows a record that failed, and the read pointer stays in the segment.*)
(***************************************************************************)
THEOREM LiveReaderIsSound ==
  LiveSpec => [](BufferedPageIsValid /\ Accounts /\ OnlyLastFails /\ ReadPointerInSegment)
<1>1. Spec => [](BufferedPageIsValid /\ Accounts /\ OnlyLastFails /\ ReadPointerInSegment)
  BY BufferedPageValid, AccountsAgree, NothingAfterBadCrc, ReadPointerStays, PTL
<1> QED BY <1>1, ClosedIsOpen

-----------------------------------------------------------------------------
(* Content positions and cells of the file.                                *)

LEMMA HeaderOfType ==
  ASSUME NEW p
  PROVE  /\ HeaderOf(p) \in Nat \ {0} /\ HeaderOf(p) < Blcksz
         /\ Blcksz - HeaderOf(p) \in Nat \ {0} /\ Aligned(HeaderOf(p))
  BY GeometryAssumption, AlignmentAssumption DEF HeaderOf, Aligned

LEMMA FirstContentNext ==
  ASSUME NEW p \in Nat
  PROVE  /\ FirstContent(p) \in Nat /\ Aligned(FirstContent(p))
         /\ FirstContent(p + 1) = FirstContent(p) + (Blcksz - HeaderOf(p))
<1> DEFINE A == Blcksz - LongHdr
           B == Blcksz - ShortHdr
<1>1. A \in Nat /\ B \in Nat /\ Aligned(A) /\ Aligned(B)
  <2>1. Aligned(Blcksz) /\ Aligned(LongHdr) /\ Aligned(ShortHdr)
    BY AlignmentAssumption DEF Aligned
  <2> QED BY <2>1, AlignedSum, GeometryAssumption
<1> HIDE DEF A, B
<1>2. CASE p = 0
  <2>1. FirstContent(p + 1) = A + 0 * B /\ FirstContent(p) = 0
    BY <1>2 DEF FirstContent, A, B
  <2>2. Aligned(0) /\ 0 * B = 0
    BY <1>1, GeometryAssumption DEF Aligned
  <2> QED BY <1>1, <1>2, <2>1, <2>2 DEF HeaderOf, A
<1>3. CASE p # 0
  <2>1. p - 1 \in Nat /\ p + 1 # 0 /\ (p + 1) - 1 = p
    BY <1>3
  <2>2. FirstContent(p) = A + (p - 1) * B /\ FirstContent(p + 1) = A + p * B
    BY <1>3, <2>1 DEF FirstContent, A, B
  <2>3. (p - 1) * B \in Nat /\ Aligned((p - 1) * B)
    BY <1>1, <2>1, AlignedMultiple
  <2>4. p * B = (p - 1) * B + B
    BY <1>1
  <2>5. FirstContent(p) \in Nat /\ Aligned(FirstContent(p))
    <3> DEFINE x == (p - 1) * B
    <3>1. x \in Nat /\ Aligned(x) /\ FirstContent(p) = A + x
      BY <2>2, <2>3
    <3> HIDE DEF x
    <3> QED BY <1>1, <3>1, AlignedSum
  <2>6. B = Blcksz - HeaderOf(p)
    BY <1>3 DEF HeaderOf, B
  <2> QED BY <1>1, <2>2, <2>3, <2>4, <2>5, <2>6
<1> QED BY <1>2, <1>3

LEMMA FirstContentGrows ==
  ASSUME NEW p \in Nat, NEW q \in Nat, p < q
  PROVE  FirstContent(p + 1) <= FirstContent(q) /\ FirstContent(p) < FirstContent(q)
<1> DEFINE A == Blcksz - LongHdr
           B == Blcksz - ShortHdr
<1>1. A \in Nat /\ B \in Nat
  BY GeometryAssumption
<1> HIDE DEF A, B
<1>2. FirstContent(p + 1) = A + p * B /\ FirstContent(q) = A + (q - 1) * B
  BY DEF FirstContent, A, B
<1>3. p * B <= (q - 1) * B /\ p * B \in Nat /\ (q - 1) * B \in Nat
  BY <1>1
<1>4. FirstContent(p + 1) <= FirstContent(q)
  BY <1>1, <1>2, <1>3
<1>5. /\ FirstContent(p) \in Nat /\ FirstContent(p + 1) = FirstContent(p) + (Blcksz - HeaderOf(p))
      /\ FirstContent(q) \in Nat /\ Blcksz - HeaderOf(p) \in Nat \ {0}
  BY FirstContentNext, HeaderOfType
<1> QED BY <1>4, <1>5

\* A content position and the cell of the file where it is.
LEMMA FileCellOf ==
  ASSUME NEW p \in Nat, NEW o \in HeaderOf(p) .. Blcksz - 1
  PROVE  /\ ContentAt(p, o) \in Nat
         /\ FirstContent(p) <= ContentAt(p, o) /\ ContentAt(p, o) < FirstContent(p + 1)
         /\ FileCell(ContentAt(p, o)) = p * Blcksz + o
         /\ FileCell(ContentAt(p, o)) \div Blcksz = p
         /\ FileCell(ContentAt(p, o)) % Blcksz = o
<1> DEFINE B == Blcksz - ShortHdr
           u == ContentAt(p, o)
           v == u - (Blcksz - LongHdr)
<1>1. o \in Nat /\ o >= HeaderOf(p) /\ o < Blcksz /\ Blcksz \in Nat \ {0}
  BY HeaderOfType, Segment
<1>2. /\ u = FirstContent(p) + o - HeaderOf(p) /\ u \in Nat
      /\ FirstContent(p) <= u /\ u < FirstContent(p + 1)
  BY <1>1, FirstContentNext, HeaderOfType DEF ContentAt
<1>3. FileCell(u) = p * Blcksz + o
  <2>1. CASE p = 0
    <3>1. v < 0
      BY <1>1, <1>2, <2>1, GeometryAssumption DEF FirstContent, HeaderOf
    <3>2. FileCell(u) = 0 * Blcksz + HeaderOf(0) + (u - FirstContent(0))
      BY <3>1 DEF FileCell
    <3>3. 0 * Blcksz = 0 /\ u - FirstContent(0) = o - HeaderOf(0) /\ HeaderOf(0) \in Nat
      BY <1>1, <1>2, <2>1, FirstContentNext, HeaderOfType
    <3> QED BY <1>1, <2>1, <3>2, <3>3
  <2>2. CASE p # 0
    <3>1. B \in Nat \ {0} /\ HeaderOf(p) = ShortHdr /\ o - ShortHdr \in 0 .. B - 1 /\ p - 1 \in Nat
      BY <1>1, <2>2, GeometryAssumption DEF HeaderOf
    <3>2. (p - 1) * B \in Nat /\ FirstContent(p) = (Blcksz - LongHdr) + (p - 1) * B
      BY <2>2, <3>1 DEF FirstContent
    <3> HIDE DEF B
    <3>3. v = (p - 1) * B + (o - ShortHdr) /\ v >= 0
      BY <1>1, <1>2, <3>1, <3>2, GeometryAssumption
    <3>4. ((p - 1) * B + (o - ShortHdr)) \div B = p - 1
      BY <3>1, DivUnique
    <3>5. 1 + v \div B = p
      BY <3>1, <3>3, <3>4
    <3>6. FileCell(u) = p * Blcksz + HeaderOf(p) + (u - FirstContent(p))
      <4>1. ~(v < 0) /\ (IF v < 0 THEN 0 ELSE 1 + v \div B) = p
        BY <1>2, <3>3, <3>5, GeometryAssumption
      <4> QED BY Zenon, <4>1 DEF FileCell, B
    <3>7. p * Blcksz \in Nat
      BY <1>1
    <3> QED BY <1>1, <1>2, <3>6, <3>7, FirstContentNext, HeaderOfType
  <2> QED BY <2>1, <2>2
<1>4. (p * Blcksz + o) \div Blcksz = p /\ (p * Blcksz + o) % Blcksz = o
  BY <1>1, DivUnique
<1> QED BY <1>2, <1>3, <1>4

\* Every content position is on a page, behind its header.
LEMMA PageOfContent ==
  ASSUME NEW u \in Nat
  PROVE  \E p \in Nat : \E o \in HeaderOf(p) .. Blcksz - 1 : u = ContentAt(p, o)
<1> DEFINE A == Blcksz - LongHdr
           B == Blcksz - ShortHdr
<1>1. A \in Nat \ {0} /\ B \in Nat \ {0} /\ LongHdr \in Nat /\ ShortHdr \in Nat /\ Blcksz \in Nat
  BY GeometryAssumption
<1>2. CASE u < A
  <2>1. LongHdr + u \in HeaderOf(0) .. Blcksz - 1
    BY <1>1, <1>2 DEF HeaderOf
  <2>2. u = ContentAt(0, LongHdr + u)
    BY <1>1 DEF ContentAt, FirstContent, HeaderOf
  <2> QED BY <2>1, <2>2
<1>3. CASE u >= A
  <2> DEFINE q == (u - A) \div B
             r == (u - A) % B
  <2>1. u - A \in Nat
    BY <1>1, <1>3
  <2>2. q \in Nat /\ r \in 0 .. B - 1 /\ u - A = B * q + r
    BY <1>1, <2>1, DivMod
  <2>3. ShortHdr + r \in HeaderOf(q + 1) .. Blcksz - 1
    BY <1>1, <2>2 DEF HeaderOf
  <2>4. FirstContent(q + 1) = A + q * B /\ HeaderOf(q + 1) = ShortHdr
    BY <2>2 DEF FirstContent, HeaderOf
  <2> HIDE DEF A, B, q, r
  <2>5. q * B = B * q /\ q * B \in Nat
    BY <1>1, <2>2
  <2>6. u = ContentAt(q + 1, ShortHdr + r)
    BY <1>1, <2>1, <2>2, <2>4, <2>5 DEF ContentAt
  <2> QED BY <2>2, <2>3, <2>6
<1> QED BY <1>1, <1>2, <1>3

\* Padding moves with the aligned position it is added to.
LEMMA MaxAlignShift ==
  ASSUME NEW a \in Nat, NEW x \in Nat, Aligned(a)
  PROVE  maxalign(a + x) = a + maxalign(x)
<1>1. maxalign(x) \in Nat /\ Aligned(maxalign(x)) /\ maxalign(x) >= x
  BY MaxAlignLeast, MaxAlignNat
<1>2. a + x \in Nat /\ a + maxalign(x) \in Nat /\ Aligned(a + maxalign(x))
  BY <1>1, AlignedSum
<1>3. /\ maxalign(a + x) \in Nat /\ Aligned(maxalign(a + x)) /\ maxalign(a + x) >= a + x
      /\ maxalign(a + x) <= a + maxalign(x)
  BY <1>1, <1>2, MaxAlignLeast, MaxAlignNat
<1>4. maxalign(a + x) - a \in Nat /\ Aligned(maxalign(a + x) - a) /\ x <= maxalign(a + x) - a
  <2> DEFINE m == maxalign(a + x)
  <2>1. m \in Nat /\ Aligned(m) /\ m >= a + x /\ m >= a /\ m - a \in Nat /\ x <= m - a
    BY <1>3
  <2> HIDE DEF m
  <2>2. Aligned(m - a)
    BY <2>1, AlignedSum
  <2> QED BY <2>1, <2>2 DEF m
<1>5. maxalign(x) <= maxalign(a + x) - a
  BY <1>4, MaxAlignLeast
<1> QED BY <1>1, <1>2, <1>3, <1>5

-----------------------------------------------------------------------------
(* Layouts: the records of a segment follow each other in order.           *)

\* Where record k + 1 starts, or what follows the last one.
NextPos(w, k) == StartAfter(w, k + 1, w.start)

LEMMA LayoutType ==
  ASSUME NEW w, IsLayout(w)
  PROVE  /\ Last(w) \in Nat /\ DOMAIN w.lens = 0 .. Last(w) /\ 0 \in 0 .. Last(w)
         /\ WalRecords(w) = 1 .. Last(w)
         /\ \A r \in 0 .. Last(w) : w.lens[r] \in Nat
         /\ w.left \in Nat /\ (w.left = 0 \/ w.left < w.lens[0])
         /\ \A r \in 1 .. Last(w) : /\ LengthInRange(w.lens[r]) /\ w.lens[r] > 0
                                    /\ w.start[r] < Capacity
         /\ w.start[0] = w.left - w.lens[0]
         /\ \A r \in 1 .. Last(w) : w.start[r] = NextPos(w, r - 1)
         /\ w.cut # NO_PAGE => w.cut \in PageNo /\ w.cut \in Nat
                                 /\ FirstContent(w.cut) \in Nat /\ Aligned(FirstContent(w.cut))
<1>1. Cardinality(DOMAIN w.lens) \in Nat
  BY FS_CardinalityType DEF IsLayout
<1>2. 0 \in DOMAIN w.lens /\ DOMAIN w.lens = 0 .. Cardinality(DOMAIN w.lens) - 1
  BY DEF IsLayout
<1>3. Last(w) \in Nat /\ DOMAIN w.lens = 0 .. Last(w) /\ 0 \in 0 .. Last(w)
  BY <1>1, <1>2 DEF Last
<1>4. \A r \in 0 .. Last(w) : w.lens[r] \in Nat
  BY <1>3 DEF IsLayout
<1>5. w.left \in Nat /\ (w.left = 0 \/ w.left < w.lens[0])
  BY <1>3, <1>4 DEF IsLayout
<1>6. ASSUME NEW r \in 1 .. Last(w)
      PROVE  LengthInRange(w.lens[r]) /\ w.lens[r] > 0 /\ w.start[r] < Capacity
  <2>1. r \in DOMAIN w.lens \ {0} /\ w.lens[r] \in Nat
    BY <1>3, <1>4
  <2>2. LengthInRange(w.lens[r]) /\ w.start[r] < Capacity
    BY <2>1 DEF IsLayout
  <2> QED BY <2>1, <2>2, GeometryAssumption DEF LengthInRange
<1>7. \A r \in 0 .. Last(w) : w.start[r] = StartAfter(w, r, w.start)
  BY <1>3 DEF IsLayout
<1>8. w.start[0] = w.left - w.lens[0]
  BY <1>3, <1>7 DEF StartAfter
<1>9. \A r \in 1 .. Last(w) : w.start[r] = NextPos(w, r - 1)
  <2>1. \A r \in 1 .. Last(w) : r \in 0 .. Last(w) /\ (r - 1) + 1 = r
    BY <1>3
  <2> QED BY <1>7, <2>1 DEF NextPos
<1>10. ASSUME w.cut # NO_PAGE
       PROVE  w.cut \in PageNo /\ w.cut \in Nat
                /\ FirstContent(w.cut) \in Nat /\ Aligned(FirstContent(w.cut))
  <2>1. w.cut \in PageNo
    BY <1>10 DEF IsLayout
  <2>2. w.cut \in Nat
    BY <2>1, GeometryAssumption DEF PageNo
  <2> QED BY <2>1, <2>2, FirstContentNext
<1> QED BY <1>3, <1>4, <1>5, <1>6, <1>8, <1>9, <1>10 DEF WalRecords

\* Behind record r, with the padding.
LEMMA NextPosBehind ==
  ASSUME NEW w, IsLayout(w), NEW r \in 0 .. Last(w),
         r # 0 => w.start[r] \in Nat /\ Aligned(w.start[r])
  PROVE  /\ w.start[r] \in Int /\ EndOf(w, r) \in Nat
         /\ NextPos(w, r) \in Nat /\ Aligned(NextPos(w, r))
         /\ w.start[r] <= EndOf(w, r) /\ EndOf(w, r) <= NextPos(w, r)
         /\ Aborted(w, r) => NextPos(w, r) = FirstContent(w.cut)
         /\ ~Aborted(w, r) => NextPos(w, r) = IF r = 0 THEN maxalign(w.left)
                                              ELSE w.start[r] + maxalign(w.lens[r])
<1>1. /\ r \in Nat /\ w.lens[r] \in Nat /\ w.left \in Nat /\ w.lens[0] \in Nat
      /\ w.start[0] = w.left - w.lens[0]
  BY LayoutType
<1>2. r + 1 # 0 /\ (r + 1) - 1 = r /\ (r + 1 = 1 <=> r = 0)
  BY <1>1
<1>3. NextPos(w, r) = IF Aborted(w, r) THEN FirstContent(w.cut)
                      ELSE IF r = 0 THEN maxalign(w.left)
                      ELSE w.start[r] + maxalign(w.lens[r])
  BY Zenon, <1>2 DEF NextPos, StartAfter, Aborted
<1>4. w.start[r] \in Int
  BY <1>1
<1>5. CASE Aborted(w, r)
  <2>1. /\ w.cut # NO_PAGE /\ w.start[r] < FirstContent(w.cut)
        /\ EndOf(w, r) = FirstContent(w.cut)
    BY <1>5 DEF Aborted, Cuts, EndOf
  <2>2. FirstContent(w.cut) \in Nat /\ Aligned(FirstContent(w.cut))
    BY <2>1, LayoutType
  <2> QED BY <1>3, <1>4, <1>5, <2>1, <2>2
<1>6. CASE ~Aborted(w, r) /\ r = 0
  <2>1. EndOf(w, r) = w.left /\ w.start[r] <= w.left /\ NextPos(w, r) = maxalign(w.left)
    BY <1>1, <1>3, <1>6 DEF EndOf
  <2>2. maxalign(w.left) \in Nat /\ maxalign(w.left) >= w.left /\ Aligned(maxalign(w.left))
    BY <1>1, MaxAlignNat, MaxAlignLeast
  <2> QED BY <1>1, <1>4, <1>6, <2>1, <2>2
<1>7. CASE ~Aborted(w, r) /\ r # 0
  <2> DEFINE s == w.start[r]
             l == w.lens[r]
  <2>1. EndOf(w, r) = s + l /\ NextPos(w, r) = s + maxalign(l)
    BY <1>3, <1>7 DEF EndOf
  <2>2. s \in Nat /\ Aligned(s) /\ l \in Nat
    BY <1>1, <1>7
  <2> HIDE DEF s, l
  <2>3. maxalign(l) \in Nat /\ maxalign(l) >= l /\ Aligned(maxalign(l))
    BY <2>2, MaxAlignNat, MaxAlignLeast
  <2>4. s + maxalign(l) \in Nat /\ Aligned(s + maxalign(l))
    <3>1. s + maxalign(l) \in Nat
      BY <2>2, <2>3
    <3> QED BY Zenon, <2>2, <2>3, <3>1, AlignedSum
  <2>5. EndOf(w, r) \in Nat /\ s <= EndOf(w, r) /\ EndOf(w, r) <= NextPos(w, r)
    BY <2>1, <2>2, <2>3
  <2> QED BY <1>4, <1>7, <2>1, <2>4, <2>5 DEF s, l
<1> QED BY <1>5, <1>6, <1>7

(***************************************************************************)
(* A record starts behind the end of every earlier one.  By induction: the *)
(* first record of which that were not so would start behind the one       *)
(* before it, of which it is so.                                           *)
(***************************************************************************)
StartsBehind(w, r) ==
  /\ w.start[r] \in Nat /\ Aligned(w.start[r])
  /\ \A q \in 0 .. r - 1 : EndOf(w, q) <= w.start[r] /\ w.start[q] <= w.start[r]

LEMMA StartsInOrder ==
  ASSUME NEW w, IsLayout(w)
  PROVE  \A r \in 1 .. Last(w) : StartsBehind(w, r)
<1> DEFINE T == {r \in 1 .. Last(w) : ~StartsBehind(w, r)}
<1>1. Last(w) \in Nat /\ T \subseteq Nat
  BY LayoutType
<1>2. SUFFICES ASSUME T # {} PROVE FALSE
  BY <1>1
<1>3. PICK m \in T : \A k \in T : ~ (<<k, m>> \in OpToRel(<, Nat))
  BY <1>1, <1>2, NatLessThanWellFounded, WFMin
<1>4. m \in 1 .. Last(w) /\ ~StartsBehind(w, m)
  BY <1>3
<1>5. m - 1 \in 0 .. Last(w) /\ m \in Nat /\ m - 1 \in Nat
  BY <1>1, <1>4
<1>6. m - 1 # 0 => StartsBehind(w, m - 1)
  <2> SUFFICES ASSUME m - 1 # 0, ~StartsBehind(w, m - 1) PROVE FALSE
    OBVIOUS
  <2>1. m - 1 \in 1 .. Last(w) /\ m - 1 < m
    BY <1>1, <1>5
  <2>2. m - 1 \in T /\ <<m - 1, m>> \in OpToRel(<, Nat)
    BY <1>5, <2>1 DEF OpToRel
  <2> QED BY <1>3, <2>2
<1>7. w.start[m] = NextPos(w, m - 1)
  BY <1>4, LayoutType
<1>8. /\ w.start[m - 1] \in Int /\ EndOf(w, m - 1) \in Nat
      /\ w.start[m] \in Nat /\ Aligned(w.start[m])
      /\ w.start[m - 1] <= EndOf(w, m - 1) /\ EndOf(w, m - 1) <= w.start[m]
  BY <1>5, <1>6, <1>7, NextPosBehind DEF StartsBehind
<1>9. ASSUME NEW q \in 0 .. m - 1
      PROVE  EndOf(w, q) <= w.start[m] /\ w.start[q] <= w.start[m]
  <2>1. CASE q = m - 1
    BY <1>8, <2>1
  <2>2. CASE q # m - 1
    <3>1. q \in 0 .. (m - 1) - 1 /\ m - 1 # 0 /\ q \in 0 .. Last(w)
      BY <1>1, <1>5, <2>2
    <3>2. EndOf(w, q) <= w.start[m - 1] /\ w.start[q] <= w.start[m - 1]
      BY <1>6, <3>1 DEF StartsBehind
    <3>3. w.start[q] \in Int /\ EndOf(w, q) \in Int
      <4>1. q # 0 => w.start[q] \in Nat /\ Aligned(w.start[q])
        <5> SUFFICES ASSUME q # 0, ~StartsBehind(w, q) PROVE FALSE
          BY DEF StartsBehind
        <5>1. q \in T /\ <<q, m>> \in OpToRel(<, Nat)
          BY <1>1, <1>5, <3>1 DEF OpToRel
        <5> QED BY <1>3, <5>1
      <4> QED BY <3>1, <4>1, NextPosBehind
    <3> QED BY <1>8, <3>2, <3>3
  <2> QED BY <2>1, <2>2
<1> QED BY <1>4, <1>8, <1>9 DEF StartsBehind

\* The same of the position behind a record: no earlier record reaches it.
LEMMA RecordsInOrder ==
  ASSUME NEW w, IsLayout(w)
  PROVE  /\ \A r \in 0 .. Last(w) :
              /\ w.start[r] \in Int /\ EndOf(w, r) \in Nat
              /\ NextPos(w, r) \in Nat /\ Aligned(NextPos(w, r))
              /\ w.start[r] <= EndOf(w, r) /\ EndOf(w, r) <= NextPos(w, r)
              /\ r # 0 => w.start[r] \in Nat /\ Aligned(w.start[r])
                            /\ w.start[r] < EndOf(w, r)
         /\ \A r, q \in 0 .. Last(w) :
              q < r => EndOf(w, q) <= w.start[r] /\ NextPos(w, q) <= w.start[r]
<1>1. Last(w) \in Nat
  BY LayoutType
<1>2. ASSUME NEW r \in 0 .. Last(w)
      PROVE  /\ w.start[r] \in Int /\ EndOf(w, r) \in Nat
             /\ NextPos(w, r) \in Nat /\ Aligned(NextPos(w, r))
             /\ w.start[r] <= EndOf(w, r) /\ EndOf(w, r) <= NextPos(w, r)
             /\ r # 0 => w.start[r] \in Nat /\ Aligned(w.start[r])
                           /\ w.start[r] < EndOf(w, r)
  <2>1. r # 0 => w.start[r] \in Nat /\ Aligned(w.start[r]) /\ w.lens[r] \in Nat /\ w.lens[r] > 0
    <3> SUFFICES ASSUME r # 0
                 PROVE  w.start[r] \in Nat /\ Aligned(w.start[r])
                          /\ w.lens[r] \in Nat /\ w.lens[r] > 0
      OBVIOUS
    <3>1. r \in 1 .. Last(w)
      BY <1>1
    <3> QED BY <3>1, StartsInOrder, LayoutType DEF StartsBehind
  <2>2. r # 0 => w.start[r] < EndOf(w, r)
    BY <2>1 DEF EndOf, Aborted, Cuts
  <2> QED BY <2>1, <2>2, NextPosBehind
<1>3. ASSUME NEW r \in 0 .. Last(w), NEW q \in 0 .. Last(w), q < r
      PROVE  EndOf(w, q) <= w.start[r] /\ NextPos(w, q) <= w.start[r]
  <2>1. r \in 1 .. Last(w) /\ q \in 0 .. r - 1
    BY <1>1, <1>3
  <2>2. EndOf(w, q) <= w.start[r]
    BY <2>1, StartsInOrder DEF StartsBehind
  <2>3. q + 1 \in 1 .. Last(w) /\ (q + 1) - 1 = q /\ q + 1 \in 0 .. Last(w)
    BY <1>1, <2>1
  <2>4. w.start[q + 1] = NextPos(w, q)
    BY <2>3, LayoutType
  <2>5. w.start[q + 1] <= w.start[r]
    <3>1. CASE q + 1 = r
      BY <1>2, <3>1
    <3>2. CASE q + 1 # r
      <4>1. q + 1 \in 0 .. r - 1
        BY <2>1, <3>2
      <4> QED BY <2>1, <4>1, StartsInOrder DEF StartsBehind
    <3> QED BY <3>1, <3>2
  <2> QED BY <2>2, <2>4, <2>5
<1> QED BY <1>2, <1>3

-----------------------------------------------------------------------------
(* What a content position holds.                                          *)

Holds(w, r, u) == w.start[r] <= u /\ u < EndOf(w, r)

\* Only one record holds a position.
LEMMA OneRecordHolds ==
  ASSUME NEW w, IsLayout(w), NEW u \in Int,
         NEW r \in 0 .. Last(w), NEW q \in 0 .. Last(w), Holds(w, r, u), Holds(w, q, u)
  PROVE  r = q
<1>1. /\ w.start[r] \in Int /\ EndOf(w, r) \in Nat /\ w.start[q] \in Int /\ EndOf(w, q) \in Nat
      /\ q < r => EndOf(w, q) <= w.start[r]
      /\ r < q => EndOf(w, r) <= w.start[q]
  BY RecordsInOrder
<1>2. Last(w) \in Nat
  BY LayoutType
<1> QED BY <1>1, <1>2 DEF Holds

LEMMA CellOfRecord ==
  ASSUME NEW w, IsLayout(w), NEW u \in Int, NEW r \in 0 .. Last(w), Holds(w, r, u)
  PROVE  CellOf(w, u) =
           RecordCell(r, w.lens[r], u - w.start[r], <<r, u - w.start[r]>> \notin w.flipped)
<1> DEFINE S == {q \in DOMAIN w.lens : w.start[q] <= u /\ u < EndOf(w, q)}
<1>1. r \in S /\ \A q \in S : q = r
  BY OneRecordHolds, LayoutType DEF Holds
<1>2. S # {} /\ (CHOOSE q \in S : TRUE) = r
  BY <1>1
<1> QED BY Zenon, <1>2 DEF CellOf

LEMMA CellOfNone ==
  ASSUME NEW w, IsLayout(w), NEW u \in Int, \A r \in 0 .. Last(w) : ~Holds(w, r, u)
  PROVE  CellOf(w, u) = Zero
<1>1. {q \in DOMAIN w.lens : w.start[q] <= u /\ u < EndOf(w, q)} = {}
  BY LayoutType DEF Holds
<1> QED BY Zenon, <1>1 DEF CellOf

\* Behind the last record there are zeroes.
LEMMA ZeroBehind ==
  ASSUME NEW w, IsLayout(w), NEW u \in Int, u >= NextPos(w, Last(w))
  PROVE  CellOf(w, u) = Zero
<1>1. Last(w) \in Nat /\ Last(w) \in 0 .. Last(w)
  BY LayoutType
<1>2. ASSUME NEW r \in 0 .. Last(w) PROVE ~Holds(w, r, u)
  <2>1. EndOf(w, r) <= NextPos(w, r) /\ EndOf(w, r) \in Nat /\ NextPos(w, r) \in Nat
    BY RecordsInOrder
  <2>2. NextPos(w, r) <= NextPos(w, Last(w))
    <3>1. CASE r = Last(w)
      BY <2>1, <3>1
    <3>2. CASE r # Last(w)
      <4>1. r < Last(w)
        BY <1>1, <3>2
      <4>2. /\ NextPos(w, r) <= w.start[Last(w)] /\ w.start[Last(w)] \in Int
            /\ w.start[Last(w)] <= EndOf(w, Last(w)) /\ EndOf(w, Last(w)) \in Nat
            /\ EndOf(w, Last(w)) <= NextPos(w, Last(w)) /\ NextPos(w, Last(w)) \in Nat
        BY <1>1, <4>1, RecordsInOrder
      <4> QED BY <2>1, <4>2
    <3> QED BY <3>1, <3>2
  <2>3. NextPos(w, Last(w)) \in Nat
    BY <1>1, RecordsInOrder
  <2> QED BY <2>1, <2>2, <2>3 DEF Holds
<1> QED BY <1>2, CellOfNone

\* A page that begins where the next record does opens with no tail.
LEMMA NoTail ==
  ASSUME NEW w, IsLayout(w), NEW k \in 0 .. Last(w), NEW p \in Nat,
         FirstContent(p) = NextPos(w, k)
  PROVE  RemLen(w, p) = 0
<1> DEFINE u == FirstContent(p)
           S == {q \in DOMAIN w.lens : w.start[q] < u /\ u < EndOf(w, q)}
<1>1. Last(w) \in Nat /\ DOMAIN w.lens = 0 .. Last(w) /\ u \in Nat
  BY LayoutType, FirstContentNext
<1>2. ASSUME NEW q \in 0 .. Last(w), w.start[q] < u, u < EndOf(w, q) PROVE FALSE
  <2>1. /\ w.start[q] \in Int /\ EndOf(w, q) \in Nat /\ NextPos(w, k) \in Nat
        /\ EndOf(w, q) <= NextPos(w, q) /\ NextPos(w, q) \in Nat
        /\ k < q => NextPos(w, k) <= w.start[q]
        /\ q < k => NextPos(w, q) <= w.start[k]
        /\ w.start[k] <= EndOf(w, k) /\ EndOf(w, k) <= NextPos(w, k)
        /\ w.start[k] \in Int /\ EndOf(w, k) \in Nat
    BY RecordsInOrder
  <2> QED BY <1>1, <1>2, <2>1
<1>3. S = {}
  BY <1>1, <1>2
<1> QED BY Zenon, <1>3 DEF RemLen

\* Before the first record there is nothing but the rest of the carried one.
LEMMA CarriedTail ==
  ASSUME NEW w, IsLayout(w), NEW p \in Nat, FirstContent(p) < NextPos(w, 0)
  PROVE  /\ FirstContent(p) < w.left
         /\ RemLen(w, p) = w.left - FirstContent(p)
         /\ Aborted(w, 0) => FirstContent(w.cut) < w.left
<1> DEFINE u == FirstContent(p)
           S == {q \in DOMAIN w.lens : w.start[q] < u /\ u < EndOf(w, q)}
<1>1. /\ Last(w) \in Nat /\ DOMAIN w.lens = 0 .. Last(w) /\ 0 \in 0 .. Last(w)
      /\ u \in Nat /\ Aligned(u) /\ w.left \in Nat /\ (w.left = 0 \/ w.left < w.lens[0])
      /\ w.lens[0] \in Nat /\ w.start[0] = w.left - w.lens[0]
  BY LayoutType, FirstContentNext
<1>2. w.start[0] + w.lens[0] = w.left
  BY <1>1
<1>3. Aborted(w, 0) => /\ w.cut # NO_PAGE /\ FirstContent(w.cut) < w.left
                       /\ EndOf(w, 0) = FirstContent(w.cut)
                       /\ NextPos(w, 0) = FirstContent(w.cut)
  BY <1>1, <1>2, NextPosBehind DEF Aborted, Cuts, EndOf
<1>4. ~Aborted(w, 0) => EndOf(w, 0) = w.left /\ NextPos(w, 0) = maxalign(w.left)
  BY <1>1, <1>2, NextPosBehind DEF EndOf
<1>5. u < w.left /\ u < EndOf(w, 0)
  <2>1. CASE Aborted(w, 0)
    <3>1. FirstContent(w.cut) \in Nat
      BY <1>3, <2>1, LayoutType
    <3> QED BY <1>1, <1>3, <2>1, <3>1
  <2>2. CASE ~Aborted(w, 0)
    <3>1. w.left <= u => maxalign(w.left) <= u
      BY <1>1, MaxAlignLeast
    <3>2. maxalign(w.left) \in Nat
      BY <1>1, MaxAlignNat
    <3> QED BY <1>1, <1>4, <2>2, <3>1, <3>2
  <2> QED BY <2>1, <2>2
<1>6. 0 \in S
  BY <1>1, <1>5
<1>7. ASSUME NEW q \in S PROVE q = 0
  <2>1. q \in 0 .. Last(w) /\ w.start[q] < u
    BY <1>1
  <2>2. 0 < q => NextPos(w, 0) <= w.start[q] /\ w.start[q] \in Int /\ NextPos(w, 0) \in Nat
    BY <1>1, <2>1, RecordsInOrder
  <2> QED BY <1>1, <2>1, <2>2
<1>8. S # {} /\ (CHOOSE q \in S : TRUE) = 0
  BY <1>6, <1>7
<1>9. RemLen(w, p) = w.start[0] + w.lens[0] - u
  <2> DEFINE c == CHOOSE q \in S : TRUE
  <2>1. RemLen(w, p) = w.start[c] + w.lens[c] - u
    BY <1>8 DEF RemLen
  <2> QED BY <1>8, <2>1
<1> QED BY <1>1, <1>2, <1>3, <1>5, <1>9

-----------------------------------------------------------------------------
(* Pages that pass validate_page_header are pages of the WAL.              *)

\* The page is page n as the server had it at some time since the file was opened,
\* and undamaged.
HoldsWal(page, n) ==
  /\ n # wal.fault_page
  /\ \E f \in Stops(wal) :
       /\ FirstContent(n) < f /\ at_open <= f /\ f <= flushed
       /\ page = WrittenPage(wal, n, f)

\* The cell was read at content position u, from a page with a good header and since
\* the file was opened.
ReadAt(cell, u) ==
  /\ (cell = Zero /\ at_open <= u) \/ (cell = CellOf(wal, u) /\ u < flushed)
  /\ FileCell(u) \div Blcksz # wal.fault_page

LEMMA StopsType ==
  ASSUME NEW w, NEW f \in Stops(w)
  PROVE  f \in Nat
  BY DEF Stops

\* What a written page is made of.
LEMMA WrittenPageIs ==
  ASSUME NEW w, NEW p, NEW f
  PROVE  LET h == IF p = w.fault_page THEN Damaged(PageHeaderOf(w, p), w.fault)
                                      ELSE PageHeaderOf(w, p)
             page == WrittenPage(w, p, f) IN
         /\ page.zeroed = h.zeroed /\ page.magic_ok = h.magic_ok
         /\ page.xlp_info = h.xlp_info /\ page.xlp_pageaddr = h.xlp_pageaddr
         /\ page.xlp_tli = h.xlp_tli /\ page.xlp_rem_len = h.xlp_rem_len
         /\ \A o \in Offset :
              page.body[o] = IF o < HeaderOf(p) THEN Hdr
                             ELSE IF ContentAt(p, o) < f THEN CellOf(w, ContentAt(p, o))
                             ELSE Zero
  BY DEF WrittenPage, WithBody

LEMMA DamageShows ==
  ASSUME NEW w, NEW p \in PageNo, NEW f, IsLayout(w), p = w.fault_page
  PROVE  validate_page_header(WrittenPage(w, p, f), p) # "none"
<1> DEFINE g == PageHeaderOf(w, p)
           h == Damaged(g, w.fault)
           page == WrittenPage(w, p, f)
<1>1. /\ page.magic_ok = h.magic_ok /\ page.xlp_info = h.xlp_info
      /\ page.xlp_pageaddr = h.xlp_pageaddr /\ page.xlp_tli = h.xlp_tli
  BY WrittenPageIs
<1>2. /\ "LONG_HEADER" \in g.xlp_info <=> p = 0
      /\ g.xlp_pageaddr = page_start_lsn(p) /\ g.xlp_tli = Tli
  BY DEF PageHeaderOf
<1>3. /\ page_start_lsn(p) \in Nat /\ SegSize \in Nat \ {0} /\ Tli \in Nat
  BY PageEnd, Segment, GeometryAssumption
<1>4. w.fault \in PageFaults
  BY DEF IsLayout
<1> HIDE DEF page
<1>5. CASE w.fault = "magic"
  <2>1. ~h.magic_ok
    BY <1>2, <1>5 DEF Damaged, PageHeaderOf
  <2> QED BY <1>1, <2>1 DEF validate_page_header, page
<1>6. CASE w.fault = "flags"
  <2>1. "UNKNOWN" \in h.xlp_info
    BY <1>2, <1>6 DEF Damaged, PageHeaderOf
  <2>2. ~(page.xlp_info \subseteq Known)
    BY <1>1, <2>1 DEF Known
  <2> QED BY <2>2 DEF validate_page_header, page
<1>7. CASE w.fault = "long"
  <2>1. ("LONG_HEADER" \in h.xlp_info) # (p = 0)
    BY <1>2, <1>7 DEF Damaged, PageHeaderOf
  <2>2. is_long(page) # (p = 0)
    BY <1>1, <2>1 DEF is_long
  <2> QED BY <2>2 DEF validate_page_header, page
<1>8. CASE w.fault = "addr"
  <2>1. h.xlp_pageaddr = page_start_lsn(p) + SegSize
    BY <1>2, <1>8 DEF Damaged, PageHeaderOf
  <2>2. page.xlp_pageaddr # page_start_lsn(p)
    BY <1>1, <1>3, <2>1
  <2> QED BY <2>2 DEF validate_page_header, page
<1>9. CASE w.fault = "tli"
  <2>1. h.xlp_tli = Tli + 1
    BY <1>2, <1>9 DEF Damaged, PageHeaderOf
  <2>2. page.xlp_tli # Tli
    BY <1>1, <1>3, <2>1
  <2> QED BY <2>2 DEF validate_page_header, page
<1> QED BY <1>4, <1>5, <1>6, <1>7, <1>8, <1>9 DEF PageFaults

LEMMA RecycledShows ==
  ASSUME NEW p \in PageNo
  PROVE  validate_page_header(RecycledPage(p), p) # "none"
<1>1. RecycledPage(p).xlp_pageaddr = page_start_lsn(p) + PagesPerSegment * SegSize
  BY DEF RecycledPage, PageHeaderOf, WithBody
<1>2. page_start_lsn(p) \in Nat /\ PagesPerSegment * SegSize \in Nat \ {0}
  <2>1. \A x, y \in Nat \ {0} : x * y \in Nat \ {0}
    OBVIOUS
  <2> QED BY <2>1, PageEnd, Segment
<1>3. RecycledPage(p).xlp_pageaddr # page_start_lsn(p)
  BY <1>1, <1>2
<1> QED BY <1>3 DEF validate_page_header

LEMMA ValidIsWal ==
  ASSUME wal \in Layouts, flushed \in Stops(wal), at_open \in Nat, at_open <= flushed,
         segment = FileContent(wal, flushed), NEW n \in PageNo, Valid(n)
  PROVE  HoldsWal(segment[n], n)
<1>1. IsLayout(wal) /\ flushed \in Nat
  BY LayoutAssumption, StopsType
<1>2. segment[n] = IF flushed > FirstContent(n) THEN WrittenPage(wal, n, flushed)
                   ELSE IF wal.base = "zero" THEN ZeroPage ELSE RecycledPage(n)
  BY DEF FileContent
<1>3. validate_page_header(ZeroPage, n) # "none"
  BY DEF validate_page_header, ZeroPage
<1>4. flushed > FirstContent(n) /\ segment[n] = WrittenPage(wal, n, flushed)
  BY <1>2, <1>3, RecycledShows DEF Valid
<1>5. n # wal.fault_page
  BY <1>1, <1>4, DamageShows DEF Valid
<1>6. FirstContent(n) \in Nat
  BY FirstContentNext, GeometryAssumption DEF PageNo
<1> QED BY <1>1, <1>4, <1>5, <1>6 DEF HoldsWal

\* What the reader can take from a page of the WAL.
LEMMA WalPage ==
  ASSUME wal \in Layouts, flushed \in Stops(wal), at_open \in Nat,
         NEW n \in PageNo, NEW page, HoldsWal(page, n)
  PROVE  /\ header_size(page) = HeaderOf(n)
         /\ "FIRST_IS_CONTRECORD" \in page.xlp_info <=> RemLen(wal, n) > 0
         /\ page.xlp_rem_len = RemLen(wal, n)
         /\ \A o \in HeaderOf(n) .. Blcksz - 1 : ReadAt(page.body[o], ContentAt(n, o))
<1>1. PICK f \in Stops(wal) : at_open <= f /\ f <= flushed /\ page = WrittenPage(wal, n, f)
  BY DEF HoldsWal
<1>2. n # wal.fault_page /\ f \in Nat /\ n \in Nat
  BY StopsType, GeometryAssumption DEF HoldsWal, PageNo
<1> DEFINE h == PageHeaderOf(wal, n)
<1>3. /\ page.xlp_info = h.xlp_info /\ page.xlp_rem_len = h.xlp_rem_len
      /\ \A o \in Offset :
           page.body[o] = IF o < HeaderOf(n) THEN Hdr
                          ELSE IF ContentAt(n, o) < f THEN CellOf(wal, ContentAt(n, o))
                          ELSE Zero
  BY <1>1, <1>2, WrittenPageIs
<1>4. /\ "LONG_HEADER" \in h.xlp_info <=> n = 0
      /\ "FIRST_IS_CONTRECORD" \in h.xlp_info <=> RemLen(wal, n) > 0
      /\ h.xlp_rem_len = RemLen(wal, n)
  BY DEF PageHeaderOf
<1>5. header_size(page) = HeaderOf(n)
  BY <1>3, <1>4 DEF header_size, is_long, HeaderOf
<1>6. ASSUME NEW o \in HeaderOf(n) .. Blcksz - 1
      PROVE  ReadAt(page.body[o], ContentAt(n, o))
  <2>1. o \in Offset /\ ~(o < HeaderOf(n))
    BY HeaderOfType, Segment DEF Offset
  <2>2. ContentAt(n, o) \in Nat /\ FileCell(ContentAt(n, o)) \div Blcksz = n
    BY <1>2, FileCellOf
  <2>3. IF ContentAt(n, o) < f THEN page.body[o] = CellOf(wal, ContentAt(n, o))
                                ELSE page.body[o] = Zero
    BY <1>3, <2>1
  <2>4. IF ContentAt(n, o) < f THEN ContentAt(n, o) < flushed ELSE at_open <= ContentAt(n, o)
    BY <1>1, <1>2, <2>2, StopsType DEF HoldsWal
  <2> QED BY <1>2, <2>2, <2>3, <2>4 DEF ReadAt
<1> QED BY <1>3, <1>4, <1>5, <1>6

-----------------------------------------------------------------------------
(* The buffer holds WAL, however long ago it was read.                     *)

FileIsWal ==
  /\ wal \in Layouts /\ flushed \in Stops(wal) /\ at_open \in Nat /\ at_open <= flushed
  /\ segment = FileContent(wal, flushed)
  /\ file_pages = wal.pages /\ readable_pages <= wal.pages
  /\ Reading => HoldsWal(page_buffer, page_no)

LEMMA InitFileIsWal == LiveInit => FileIsWal
<1> SUFFICES ASSUME LiveInit PROVE FileIsWal
  OBVIOUS
<1>1. /\ wal \in Layouts /\ flushed \in Stops(wal) /\ at_open = flushed
      /\ segment = FileContent(wal, flushed) /\ file_pages = wal.pages
      /\ readable_pages = 0 /\ ~Reading
  BY DEF LiveInit, ReaderInit, Reading
<1>2. wal.pages \in 0 .. PagesPerSegment
  BY <1>1, LayoutAssumption DEF IsLayout
<1> QED BY <1>1, <1>2, StopsType, GeometryAssumption DEF FileIsWal

LEMMA NextFileIsWal ==
  ASSUME ScanInv, FileIsWal, [LiveNext]_LiveVars
  PROVE  FileIsWal'
<1>1. CASE ServerWrites
  <2>1. PICK f \in Stops(wal) : f > flushed /\ flushed' = f /\ segment' = FileContent(wal, f)
    BY <1>1 DEF ServerWrites
  <2>2. /\ wal' = wal /\ at_open' = at_open /\ file_pages' = file_pages /\ readable_pages' = readable_pages
        /\ page_buffer' = page_buffer /\ page_no' = page_no /\ Reading' = Reading
    BY <1>1 DEF ServerWrites, reader, buffer, Reading
  <2>3. ASSUME Reading, HoldsWal(page_buffer, page_no)
        PROVE  HoldsWal(page_buffer, page_no)'
    <3>1. PICK g \in Stops(wal) : /\ FirstContent(page_no) < g /\ at_open <= g /\ g <= flushed
                                  /\ page_buffer = WrittenPage(wal, page_no, g)
      BY <2>3 DEF HoldsWal
    <3>2. g \in Nat /\ f \in Nat /\ flushed \in Nat
      BY StopsType DEF FileIsWal
    <3>3. g <= flushed'
      BY <2>1, <3>1, <3>2
    <3>4. page_no # wal.fault_page
      BY <2>3 DEF HoldsWal
    <3> QED BY <2>2, <3>1, <3>3, <3>4 DEF HoldsWal
  <2>4. at_open' \in Nat /\ at_open' <= flushed'
    <3>1. f \in Nat /\ flushed \in Nat
      BY StopsType DEF FileIsWal
    <3> QED BY <2>1, <2>2, <3>1 DEF FileIsWal
  <2> QED BY <2>1, <2>2, <2>3, <2>4 DEF FileIsWal
<1>2. CASE ReaderSteps
  <2>1. /\ wal' = wal /\ flushed' = flushed /\ at_open' = at_open /\ segment' = segment /\ file_pages' = file_pages
        /\ Step
    BY <1>2 DEF ReaderSteps, live, Step, OpenFails, Open, LoadFirstPage, LoadNextRecord,
                FindReachesEnd, FindCannotLoad, FindSkipsPage, FindRecord, FindOn,
                CopyReachesEnd, CopyNextPage, CopyTake, HeaderEndsScan, HeaderCopied,
                DecodeFails, ReturnRecord, NothingToShow, ReadFileAgain, env
  <2>2. readable_pages' <= wal.pages
    <3>1. CASE Open
      <4>1. readable_pages' = file_pages /\ file_pages = wal.pages /\ file_pages \in Nat
        BY <3>1, Segment DEF Open, FileIsWal, ScanInv, TypeOK
      <4> QED BY <4>1
    <3>2. CASE ~Open
      <4>1. readable_pages' = readable_pages
        BY <2>1, <3>2
           DEF Step, OpenFails, LoadFirstPage, LoadNextRecord, FindReachesEnd, FindCannotLoad,
               FindSkipsPage, FindRecord, FindOn, CopyReachesEnd, CopyNextPage, CopyTake,
               HeaderEndsScan, HeaderCopied, DecodeFails, ReturnRecord, NothingToShow,
               ReadFileAgain
      <4> QED BY <4>1 DEF FileIsWal
    <3> QED BY <3>1, <3>2
  <2>3. ASSUME Reading' PROVE HoldsWal(page_buffer', page_no')
    <3>1. \A n \in PageNo : Valid(n) => HoldsWal(segment[n], n)
      BY ValidIsWal DEF FileIsWal
    <3>2. Reading => HoldsWal(page_buffer, page_no)
      BY DEF FileIsWal
    <3>3. CASE LoadFirstPage
      <4>1. Valid(0) /\ page_no' = 0 /\ page_buffer' = segment[0] /\ 0 \in PageNo
        BY <2>3, <3>3, Segment DEF LoadFirstPage, load_page, Valid, ReturnErr, Reading, PageNo
      <4> QED BY <3>1, <4>1
    <3>4. CASE FindSkipsPage \/ FindRecord
      <4> DEFINE n == lsn_to_page_no(read_lsn)
      <4>1. n \in PageNo /\ FindOn(n) /\ Reading
        BY <3>4, PageOfLsn DEF FindSkipsPage, FindRecord, FindOn, ScanInv, TypeOK, Reading
      <4> HIDE DEF n
      <4>2. /\ page_no' = n /\ page_buffer' = IF page_no = n THEN page_buffer ELSE segment[n]
            /\ page_no = n \/ Valid(n)
        BY <4>1 DEF FindOn, PageAt
      <4> QED BY <3>1, <3>2, <4>1, <4>2
    <3>5. CASE CopyNextPage
      <4> DEFINE n == page_no + 1
      <4>1. /\ Valid(n) /\ page_no' = n /\ page_buffer' = segment[n]
            /\ n < PageLimit /\ page_no \in Nat
        BY <3>5 DEF CopyNextPage, Copying, load_page, Valid, ScanInv, TypeOK,
                    BufferedPageIsValid, Reading
      <4>2. n \in PageNo
        BY <4>1, PageLimitType, GeometryAssumption DEF PageNo, ScanInv
      <4> QED BY <3>1, <4>1, <4>2
    <3>6. CASE ~LoadFirstPage /\ ~FindSkipsPage /\ ~FindRecord /\ ~CopyNextPage
      <4>1. Reading /\ page_no' = page_no /\ page_buffer' = page_buffer
        BY <2>1, <2>3, <3>6
           DEF Step, OpenFails, Open, LoadNextRecord, FindReachesEnd, FindCannotLoad,
               CopyReachesEnd, CopyTake, Copying, HeaderEndsScan, HeaderCopied, DecodeFails,
               ReturnRecord, NothingToShow, ReadFileAgain, ReturnNone, ReturnErr, Reading, buffer
      <4> QED BY <3>2, <4>1
    <3> QED BY <3>3, <3>4, <3>5, <3>6
  <2> QED BY <2>1, <2>2, <2>3 DEF FileIsWal, HoldsWal
<1>3. CASE UNCHANGED LiveVars
  BY <1>3 DEF LiveVars, live, vars, env, reader, buffer, FileIsWal, HoldsWal, Reading
<1> QED BY <1>1, <1>2, <1>3 DEF LiveNext

-----------------------------------------------------------------------------
(* find_next_record finds the next record.                                 *)

\* Where the next record is looked for.
SeeksNext ==
  pc \in {"open", "first_page", "idle", "find"} /\ ~done =>
    LET n == lsn_to_page_no(read_lsn)
        o == lsn_to_page_offset(read_lsn)
        u == NextPos(wal, Len(records)) IN
    /\ read_lsn = page_start_lsn(n) + o
    /\ \/ o >= HeaderOf(n) /\ ContentAt(n, o) = u
       \/ o = 0 /\ FirstContent(n) = u
       \/ o = 0 /\ FirstContent(n) < u /\ records = <<>>

\* Behind a page that is read there is another, if the next record is there.
LEMMA NotAtSegmentEnd ==
  ASSUME NEW w, IsLayout(w), NeverAtSegmentEnd(w), NEW k \in 0 .. Last(w), ~Aborted(w, k),
         NEW p \in PageNo, p < w.pages,
         \/ FirstContent(p + 1) = NextPos(w, k)
         \/ k = 0 /\ FirstContent(p + 1) <= NextPos(w, k)
  PROVE  p + 1 \in PageNo
<1> SUFFICES ASSUME p + 1 \notin PageNo PROVE FALSE
  OBVIOUS
<1>1. /\ p \in Nat /\ p + 1 = PagesPerSegment /\ FirstContent(p + 1) = Capacity
      /\ Capacity \in Nat /\ Aligned(Capacity)
  <2>1. p \in Nat /\ p + 1 = PagesPerSegment
    BY GeometryAssumption DEF PageNo
  <2>2. PagesPerSegment \in Nat
    BY GeometryAssumption
  <2> QED BY <2>1, <2>2, FirstContentNext DEF Capacity
<1>2. w.left < Capacity /\ maxalign(WalEnd(w)) # Capacity
  <2>1. w.pages \in 0 .. PagesPerSegment
    BY DEF IsLayout
  <2> QED BY <1>1, <2>1, GeometryAssumption DEF NeverAtSegmentEnd
<1>3. NextPos(w, k) \in Nat /\ NextPos(w, k) >= Capacity /\ Last(w) \in Nat
  BY <1>1, RecordsInOrder, LayoutType
<1>4. k = Last(w)
  <2> SUFFICES ASSUME k # Last(w) PROVE FALSE
    OBVIOUS
  <2>1. k + 1 \in 1 .. Last(w) /\ (k + 1) - 1 = k
    BY <1>3
  <2>2. w.start[k + 1] = NextPos(w, k) /\ w.start[k + 1] < Capacity
    BY <2>1, LayoutType
  <2> QED BY <1>1, <1>3, <2>2
<1>5. CASE k = 0
  <2>1. NextPos(w, k) = maxalign(w.left) /\ w.left \in Nat
    BY <1>5, NextPosBehind, LayoutType
  <2>2. EndOf(w, k) = w.left
    BY <1>5, LayoutType DEF EndOf
  <2>3. maxalign(w.left) <= Capacity
    BY <1>1, <1>2, <2>1, MaxAlignLeast
  <2> QED BY <1>1, <1>2, <1>3, <1>4, <2>1, <2>2, <2>3 DEF WalEnd
<1>6. CASE k # 0
  <2>1. w.start[k] \in Nat /\ Aligned(w.start[k]) /\ w.lens[k] \in Nat
    BY <1>6, RecordsInOrder, LayoutType
  <2>2. NextPos(w, k) = w.start[k] + maxalign(w.lens[k]) /\ EndOf(w, k) = w.start[k] + w.lens[k]
    BY <1>6, <2>1, NextPosBehind DEF EndOf
  <2>3. maxalign(EndOf(w, k)) = NextPos(w, k)
    BY <2>1, <2>2, MaxAlignShift
  <2> QED BY <1>1, <1>2, <1>4, <1>6, <2>3 DEF WalEnd
<1> QED BY <1>5, <1>6

\* What find_next_record makes of a page where the next record may be.
LEMMA LooksOnPage ==
  ASSUME FileIsWal, SeeksNext, pc = "find", ~done, read_lsn \in Nat,
         Len(records) \in 0 .. Last(wal),
         HoldsWal(PageAt(lsn_to_page_no(read_lsn)), lsn_to_page_no(read_lsn))
  PROVE  LET n == lsn_to_page_no(read_lsn)
             page == PageAt(n)
             u == NextPos(wal, Len(records)) IN
         /\ OpensWithTail(page) /\ TailFillsPage(page) =>
              /\ Len(records) = 0 /\ records = <<>> /\ FirstContent(n + 1) <= u
              /\ Aborted(wal, 0) => n + 1 \in PageNo
         /\ ~(OpensWithTail(page) /\ TailFillsPage(page)) =>
              ContentAt(n, IF OpensWithTail(page) THEN header_size(page) + maxalign(page.xlp_rem_len)
                                                  ELSE PastHeader(page)) = u
<1> DEFINE n == lsn_to_page_no(read_lsn)
           o == lsn_to_page_offset(read_lsn)
           page == PageAt(n)
           u == NextPos(wal, Len(records))
           h == HeaderOf(n)
           c == FirstContent(n)
<1>1. n \in PageNo /\ n \in Nat /\ o \in Nat /\ o < Blcksz
  BY PageOfLsn, GeometryAssumption DEF PageNo, Offset
<1>2. IsLayout(wal) /\ wal \in Layouts /\ flushed \in Stops(wal) /\ at_open \in Nat
  BY LayoutAssumption DEF FileIsWal
<1>3. /\ \/ o >= h /\ ContentAt(n, o) = u
         \/ o = 0 /\ c = u
         \/ o = 0 /\ c < u /\ records = <<>>
  BY DEF SeeksNext
<1>4. /\ header_size(page) = h
      /\ "FIRST_IS_CONTRECORD" \in page.xlp_info <=> RemLen(wal, n) > 0
      /\ page.xlp_rem_len = RemLen(wal, n)
  BY <1>1, <1>2, WalPage
<1>5. /\ h \in Nat \ {0} /\ h < Blcksz /\ Blcksz \in Nat /\ c \in Nat /\ Aligned(c)
      /\ FirstContent(n + 1) = c + (Blcksz - h)
  BY <1>1, HeaderOfType, FirstContentNext, GeometryAssumption
<1>6. /\ PastHeader(page) = IF o < h THEN h ELSE o
      /\ OpensWithTail(page) <=> PastHeader(page) = h /\ RemLen(wal, n) > 0
      /\ TailFillsPage(page) <=> maxalign(RemLen(wal, n)) >= Blcksz - h
  BY <1>4 DEF PastHeader, OpensWithTail, TailFillsPage
<1>7. \A x : ContentAt(n, x) = c + x - h
  BY DEF ContentAt
<1> HIDE DEF n, o, page, u, h, c
<1>8. CASE (o >= h /\ ContentAt(n, o) = u) \/ (o = 0 /\ c = u)
  <2>1. ContentAt(n, PastHeader(page)) = u
    BY <1>1, <1>5, <1>6, <1>7, <1>8
  <2>2. ~OpensWithTail(page)
    <3> SUFFICES ASSUME PastHeader(page) = h, RemLen(wal, n) > 0 PROVE FALSE
      BY <1>6
    <3>1. c = u
      BY <1>5, <1>7, <2>1
    <3>2. RemLen(wal, n) = 0
      BY <1>1, <1>2, <3>1, NoTail DEF c, u
    <3> QED BY <3>2
  <2> QED BY <2>1, <2>2 DEF n, page, u
<1>9. CASE o = 0 /\ c < u /\ records = <<>>
  <2> DEFINE x == wal.left - c
  <2>1. Len(records) = 0 /\ u = NextPos(wal, 0)
    BY <1>9 DEF u
  <2>2. /\ RemLen(wal, n) = x /\ c < wal.left /\ wal.left \in Nat
        /\ Aborted(wal, 0) => FirstContent(wal.cut) < wal.left
    BY <1>1, <1>2, <1>9, <2>1, CarriedTail, LayoutType DEF c
  <2>3. x \in Nat /\ x > 0 /\ c + x = wal.left
    BY <1>5, <2>2
  <2> HIDE DEF x
  <2>4. maxalign(x) \in Nat /\ maxalign(x) >= x
    BY <2>3, MaxAlignNat
  <2>5. OpensWithTail(page) /\ (TailFillsPage(page) <=> maxalign(x) >= Blcksz - h)
    BY <1>5, <1>6, <1>9, <2>2, <2>3
  <2>6. CASE Aborted(wal, 0)
    <3>1. /\ u = FirstContent(wal.cut) /\ wal.cut \in Nat /\ wal.cut \in PageNo
          /\ FirstContent(wal.cut) \in Nat /\ FirstContent(wal.cut) < wal.left
      BY <1>2, <2>1, <2>2, <2>6, NextPosBehind, LayoutType DEF Aborted, Cuts
    <3>2. n < wal.cut
      <4> SUFFICES ASSUME ~(n < wal.cut) PROVE FALSE
        OBVIOUS
      <4>1. FirstContent(wal.cut) <= c
        <5>1. CASE wal.cut = n
          BY <3>1, <5>1 DEF c
        <5>2. CASE wal.cut # n
          <6>1. wal.cut < n
            BY <1>1, <3>1, <5>2
          <6> QED BY <1>1, <3>1, <1>5, <6>1, FirstContentGrows DEF c
        <5> QED BY <5>1, <5>2
      <4> QED BY <1>5, <1>9, <3>1, <4>1
    <3>3. FirstContent(n + 1) <= u /\ FirstContent(n + 1) \in Nat
      BY <1>1, <1>5, <3>1, <3>2, FirstContentGrows
    <3>4. n + 1 \in PageNo
      BY <1>1, <3>1, <3>2, GeometryAssumption DEF PageNo
    <3>5. TailFillsPage(page)
      BY <1>5, <2>3, <2>4, <2>5, <3>1, <3>3
    <3> QED BY <1>9, <2>1, <2>5, <3>3, <3>4, <3>5 DEF n, page, u
  <2>7. CASE ~Aborted(wal, 0)
    <3>1. u = maxalign(wal.left)
      BY <1>2, <2>1, <2>7, NextPosBehind, LayoutType
    <3>2. u = c + maxalign(x)
      BY <1>5, <2>3, <3>1, MaxAlignShift
    <3>3. CASE TailFillsPage(page)
      <4>1. FirstContent(n + 1) <= u
        BY <1>5, <2>4, <2>5, <3>2, <3>3
      <4> QED BY <1>9, <2>1, <2>5, <2>7, <3>3, <4>1 DEF n, page, u
    <3>4. CASE ~TailFillsPage(page)
      <4>1. ContentAt(n, h + maxalign(x)) = u
        BY <1>5, <1>7, <2>4, <3>2
      <4>2. h + maxalign(x) = header_size(page) + maxalign(page.xlp_rem_len)
        BY <1>4, <2>2
      <4> QED BY <2>5, <3>4, <4>1, <4>2 DEF n, page, u
    <3> QED BY <3>3, <3>4
  <2> QED BY <2>6, <2>7
<1> QED BY <1>3, <1>8, <1>9

\* Every record handed over is one of the segment, so there are no more.
LEMMA RecordCount ==
  ASSUME FileIsWal, RecordsAreWal, records \in Seq(Record)
  PROVE  Len(records) \in 0 .. Last(wal) /\ (Len(records) = 0 <=> records = <<>>)
<1>1. Len(records) \in Nat /\ (Len(records) = 0 <=> records = <<>>)
  BY EmptySeq, LenProperties
<1>2. Last(wal) \in Nat /\ WalRecords(wal) = 1 .. Last(wal)
  BY LayoutType, LayoutAssumption DEF FileIsWal
<1>3. Len(records) # 0 => Len(records) \in WalRecords(wal)
  <2>1. \A k \in 1 .. Len(records) : k \in WalRecords(wal)
    BY Zenon DEF RecordsAreWal
  <2>2. Len(records) # 0 => Len(records) \in 1 .. Len(records)
    BY <1>1
  <2> QED BY <2>1, <2>2
<1> QED BY <1>1, <1>2, <1>3

\* What LooksOnPage asks for, in a step that goes on from a page.
LEMMA LooksOn ==
  ASSUME ScanInv, WorkingNotDone, FileIsWal, RecordsAreWal, FindOn(lsn_to_page_no(read_lsn))
  PROVE  LET n == lsn_to_page_no(read_lsn) IN
         /\ n \in PageNo /\ n < wal.pages /\ pc = "find" /\ ~done /\ read_lsn \in Nat
         /\ HoldsWal(PageAt(n), n)
         /\ Len(records) \in 0 .. Last(wal) /\ (Len(records) = 0 <=> records = <<>>)
<1> DEFINE n == lsn_to_page_no(read_lsn)
<1>1. n \in PageNo /\ read_lsn \in Nat
  BY PageOfLsn DEF ScanInv, TypeOK
<1> HIDE DEF n
<1>2. pc = "find" /\ n < PageLimit /\ (page_no = n \/ Valid(n))
  BY DEF FindOn, n
<1>3. n < wal.pages
  <2>1. wal.pages \in Nat
    BY LayoutAssumption, Segment DEF FileIsWal, IsLayout
  <2> QED BY <1>1, <1>2, <2>1, PageLimitType, GeometryAssumption
          DEF FileIsWal, ScanInv, TypeOK, PageNo
<1>4. HoldsWal(PageAt(n), n)
  BY <1>1, <1>2, ValidIsWal DEF PageAt, FileIsWal, Reading
<1>5. records \in Seq(Record)
  BY DEF ScanInv, TypeOK
<1> QED BY <1>1, <1>2, <1>3, <1>4, <1>5, RecordCount DEF WorkingNotDone, n

LEMMA SkipSeeksNext ==
  ASSUME ScanInv, WorkingNotDone, FileIsWal, NeverAtSegmentEnd(wal), SeeksNext, RecordsAreWal,
         FindSkipsPage, wal' = wal
  PROVE  SeeksNext'
<1> DEFINE n == lsn_to_page_no(read_lsn)
           page == PageAt(n)
           u == NextPos(wal, Len(records))
<1>1. /\ FindOn(n) /\ OpensWithTail(page) /\ TailFillsPage(page)
      /\ read_lsn' = page_start_lsn(n + 1) /\ records' = records
  BY DEF FindSkipsPage, FindOn, app
<1>2. /\ n \in PageNo /\ n < wal.pages /\ pc = "find" /\ ~done /\ read_lsn \in Nat
      /\ HoldsWal(page, n) /\ Len(records) \in 0 .. Last(wal)
  BY <1>1, LooksOn
<1>3. /\ Len(records) = 0 /\ records = <<>> /\ FirstContent(n + 1) <= u
      /\ Aborted(wal, 0) => n + 1 \in PageNo
  BY <1>1, <1>2, LooksOnPage
<1> HIDE DEF n
<1>4. IsLayout(wal)
  BY LayoutAssumption DEF FileIsWal
<1>5. n + 1 \in PageNo
  BY <1>2, <1>3, <1>4, NotAtSegmentEnd
<1>6. 0 \in Offset /\ page_start_lsn(n + 1) + 0 = page_start_lsn(n + 1)
  BY <1>5, PageEnd, Segment DEF Offset
<1>7. lsn_to_page_no(read_lsn') = n + 1 /\ lsn_to_page_offset(read_lsn') = 0
        /\ read_lsn' = page_start_lsn(n + 1) + 0
  BY <1>1, <1>5, <1>6, LsnOfPage
<1>8. FirstContent(n + 1) \in Nat /\ u \in Nat
  <2>1. n + 1 \in Nat
    BY <1>5, GeometryAssumption DEF PageNo
  <2> QED BY <1>2, <1>4, <2>1, FirstContentNext, RecordsInOrder
<1>9. FirstContent(n + 1) = u \/ FirstContent(n + 1) < u
  BY <1>3, <1>8
<1>10. NextPos(wal', Len(records')) = u
  BY <1>1
<1> QED BY <1>1, <1>3, <1>7, <1>9, <1>10 DEF SeeksNext

-----------------------------------------------------------------------------
(* copy_record_bytes copies it.                                            *)

CopiesNext ==
  pc \in {"copy_header", "copy_body"} =>
    LET u == NextPos(wal, Len(records)) IN
    /\ ContentAt(page_no, offset) = u + Len(record_buffer)
    /\ record_lsn = SegStart + FileCell(u)
    /\ \A i \in 1 .. Len(record_buffer) : ReadAt(record_buffer[i], u + i - 1)
    /\ \A j \in 1 .. Len(file_ranges) : file_ranges[j].start <= file_ranges[j].end
    /\ CellsOf(file_ranges) = {FileCell(u + i) : i \in 0 .. Len(record_buffer) - 1}
    /\ pc = "copy_body" =>
         tot_len \in TotLens(record_buffer[1]) /\ RecHdr <= Len(record_buffer)

LEMMA FindCopiesNext ==
  ASSUME ScanInv, WorkingNotDone, FileIsWal, SeeksNext, RecordsAreWal, FindRecord, wal' = wal
  PROVE  CopiesNext'
<1> DEFINE n == lsn_to_page_no(read_lsn)
           page == PageAt(n)
           u == NextPos(wal, Len(records))
           o == IF OpensWithTail(page) THEN header_size(page) + maxalign(page.xlp_rem_len)
                                       ELSE PastHeader(page)
<1>1. /\ FindOn(n) /\ ~(OpensWithTail(page) /\ TailFillsPage(page))
      /\ read_lsn' = page_start_lsn(n) + o /\ records' = records
      /\ record_lsn' = read_lsn' /\ record_buffer' = <<>> /\ file_ranges' = <<>>
      /\ pc' = "copy_header"
  BY DEF FindRecord, FindOn, app
<1>2. /\ n \in PageNo /\ pc = "find" /\ ~done /\ read_lsn \in Nat
      /\ HoldsWal(page, n) /\ Len(records) \in 0 .. Last(wal)
  BY <1>1, LooksOn
<1>3. ContentAt(n, o) = u
  BY <1>1, <1>2, LooksOnPage
<1>4. /\ page_no' = n /\ page_buffer' = page /\ offset' \in Offset
      /\ offset' >= header_size(page_buffer') /\ read_lsn' = page_start_lsn(n) + offset'
  BY <1>1, RecordBegins DEF FindOn
<1> HIDE DEF n, o, page
<1>5. /\ header_size(page) = HeaderOf(n) /\ n \in Nat
  BY <1>2, WalPage, GeometryAssumption DEF FileIsWal, PageNo
<1>6. offset' = o
  <2>1. o \in Nat
    <3>1. page \in Page
      BY <1>1, <1>2, <1>4, FindOnLoads
    <3>2. page.xlp_rem_len \in Nat
      BY <3>1 DEF Page
    <3>3. maxalign(page.xlp_rem_len) \in Nat /\ header_size(page) \in Nat
      BY <3>2, MaxAlignNat, HeaderSize
    <3>4. lsn_to_page_offset(read_lsn) \in Nat
      BY <1>2, PageOfLsn DEF Offset
    <3> QED BY <3>3, <3>4 DEF o, PastHeader
  <2>2. page_start_lsn(n) \in Nat /\ offset' \in Nat
    BY <1>2, <1>4, PageEnd DEF Offset
  <2> QED BY <1>1, <1>4, <2>1, <2>2
<1>7. /\ FileCell(u) = n * Blcksz + offset' /\ u \in Nat
  <2>1. offset' \in HeaderOf(n) .. Blcksz - 1
    BY <1>4, <1>5, HeaderOfType DEF Offset
  <2> QED BY <1>3, <1>5, <1>6, <2>1, FileCellOf
<1>8. record_lsn' = SegStart + FileCell(u)
  <2>1. n * Blcksz \in Nat /\ SegStart \in Nat /\ offset' \in Nat
    BY <1>4, <1>5, Segment DEF Offset
  <2> QED BY <1>1, <1>4, <1>7, <2>1 DEF page_start_lsn
<1>9. Len(record_buffer') = 0 /\ Len(file_ranges') = 0
  BY <1>1
<1>10. CellsOf(file_ranges') = {}
  BY <1>9 DEF CellsOf
<1>11. {FileCell(u + i) : i \in 0 .. Len(record_buffer') - 1} = {}
  BY <1>9
<1>12. ContentAt(page_no', offset') = u + Len(record_buffer')
  BY <1>3, <1>4, <1>6, <1>7, <1>9
<1>13. NextPos(wal', Len(records')) = u
  BY <1>1
<1> QED BY <1>1, <1>8, <1>9, <1>10, <1>11, <1>12, <1>13 DEF CopiesNext

\* AddRange adds the cells it is told to, and no others.
LEMMA AddRangeCells ==
  ASSUME NEW ranges \in Seq(FileRange), NEW start \in Nat, NEW take \in Nat,
         \A j \in 1 .. Len(ranges) : ranges[j].start <= ranges[j].end
  PROVE  LET new == AddRange(ranges, start, take) IN
         /\ \A j \in 1 .. Len(new) : new[j].start <= new[j].end
         /\ CellsOf(new) = CellsOf(ranges) \cup (start .. start + take - 1)
<1> DEFINE new == AddRange(ranges, start, take)
           last == Len(ranges)
<1>1. last \in Nat /\ \A j \in 1 .. last : ranges[j] \in FileRange
  BY LenProperties
<1>2. \A j \in 1 .. last : ranges[j].start \in Nat /\ ranges[j].end \in Nat
  BY <1>1 DEF FileRange
<1>3. \A rs, c : c \in CellsOf(rs) <=> \E j \in 1 .. Len(rs) : c \in rs[j].start .. rs[j].end - 1
  BY DEF CellsOf
<1>4. CASE ranges # <<>> /\ ranges[last].end = start
  <2> DEFINE r == [start |-> ranges[last].start, end |-> start + take]
  <2>1. last \in 1 .. last
    BY <1>1, <1>4, EmptySeq
  <2>2. new = [ranges EXCEPT ![last] = r]
    BY <1>4 DEF AddRange
  <2>3. Len(new) = last /\ \A j \in 1 .. last : new[j] = IF j = last THEN r ELSE ranges[j]
    BY <2>1, <2>2
  <2>4. r.start = ranges[last].start /\ r.end = start + take
    OBVIOUS
  <2> HIDE DEF new, r
  <2>5. \A j \in 1 .. Len(new) : new[j].start <= new[j].end
    BY <1>1, <1>2, <1>4, <2>1, <2>3, <2>4
  <2>6. ASSUME NEW c \in CellsOf(new) PROVE c \in CellsOf(ranges) \cup (start .. start + take - 1)
    <3>1. PICK j \in 1 .. last : c \in new[j].start .. new[j].end - 1
      BY <1>3, <2>3
    <3>2. CASE j # last
      BY <1>3, <2>3, <3>1, <3>2
    <3>3. CASE j = last
      <4>1. c \in ranges[last].start .. start + take - 1
        BY <2>3, <2>4, <3>1, <3>3
      <4>2. c \in ranges[last].start .. ranges[last].end - 1 \/ c \in start .. start + take - 1
        BY <1>2, <1>4, <2>1, <4>1
      <4> QED BY <1>3, <2>1, <4>2
    <3> QED BY <3>2, <3>3
  <2>7. ASSUME NEW c \in CellsOf(ranges) \cup (start .. start + take - 1) PROVE c \in CellsOf(new)
    <3>1. CASE c \in start .. start + take - 1
      <4>1. c \in ranges[last].start .. start + take - 1
        <5>1. ranges[last].start \in Nat /\ ranges[last].start <= start
          BY <1>2, <1>4, <2>1
        <5> QED BY <3>1, <5>1
      <4> QED BY <1>3, <2>1, <2>3, <2>4, <4>1
    <3>2. CASE c \in CellsOf(ranges)
      <4>1. PICK j \in 1 .. last : c \in ranges[j].start .. ranges[j].end - 1
        BY <1>3, <3>2
      <4>2. CASE j # last
        BY <1>3, <2>3, <4>1, <4>2
      <4>3. CASE j = last
        <5>1. c \in r.start .. r.end - 1
          BY <1>2, <1>4, <2>1, <2>4, <4>1, <4>3
        <5> QED BY <1>3, <2>1, <2>3, <4>3, <5>1
      <4> QED BY <4>2, <4>3
    <3> QED BY <2>7, <3>1, <3>2
  <2> QED BY <2>5, <2>6, <2>7 DEF new
<1>5. CASE ~(ranges # <<>> /\ ranges[last].end = start)
  <2> DEFINE r == [start |-> start, end |-> start + take]
  <2>1. new = Append(ranges, r)
    BY <1>5 DEF AddRange
  <2>2. /\ Len(new) = last + 1 /\ new[last + 1] = r
        /\ \A j \in 1 .. last : new[j] = ranges[j]
    BY <2>1
  <2>3. r.start = start /\ r.end = start + take
    OBVIOUS
  <2> HIDE DEF new, r
  <2>4. \A j \in 1 .. Len(new) : new[j].start <= new[j].end
    <3> TAKE j \in 1 .. Len(new)
    <3>1. CASE j = last + 1
      BY <2>2, <2>3, <3>1
    <3>2. CASE j # last + 1
      <4>1. j \in 1 .. last
        BY <1>1, <2>2, <3>2
      <4> QED BY <2>2, <4>1
    <3> QED BY <3>1, <3>2
  <2>5. ASSUME NEW c \in CellsOf(new) PROVE c \in CellsOf(ranges) \cup (start .. start + take - 1)
    <3>1. PICK j \in 1 .. last + 1 : c \in new[j].start .. new[j].end - 1
      BY <1>3, <2>2
    <3>2. CASE j = last + 1
      BY <2>2, <2>3, <3>1, <3>2
    <3>3. CASE j # last + 1
      <4>1. j \in 1 .. last
        BY <1>1, <3>3
      <4> QED BY <1>3, <2>2, <3>1, <4>1
    <3> QED BY <3>2, <3>3
  <2>6. ASSUME NEW c \in CellsOf(ranges) \cup (start .. start + take - 1) PROVE c \in CellsOf(new)
    <3>1. CASE c \in start .. start + take - 1
      <4>1. last + 1 \in 1 .. Len(new)
        BY <1>1, <2>2
      <4> QED BY <1>3, <2>2, <2>3, <3>1, <4>1
    <3>2. CASE c \in CellsOf(ranges)
      <4>1. PICK j \in 1 .. last : c \in ranges[j].start .. ranges[j].end - 1
        BY <1>3, <3>2
      <4>2. j \in 1 .. Len(new)
        BY <1>1, <2>2
      <4> QED BY <1>3, <2>2, <4>1, <4>2
    <3> QED BY <2>6, <3>1, <3>2
  <2> QED BY <2>4, <2>5, <2>6 DEF new
<1> QED BY <1>4, <1>5

\* What CopyTake appends, and where on the page it comes from.
LEMMA TakeReads ==
  ASSUME ScanInv, Accounts, FileIsWal, RecordsAreWal, CopiesNext, CopyTake
  PROVE  LET u == NextPos(wal, Len(records))
             L == Len(record_buffer)
             room == Blcksz - offset
             take == IF remaining < room THEN remaining ELSE room IN
         /\ offset \in Nat /\ offset < Blcksz /\ page_no \in PageNo /\ page_no \in Nat
         /\ offset >= HeaderOf(page_no) /\ HeaderOf(page_no) \in Nat
         /\ L \in Nat /\ u \in Nat /\ ContentAt(page_no, offset) = u + L
         /\ take \in Nat \ {0} /\ take <= remaining /\ offset + take <= Blcksz
         /\ Len(record_buffer') = L + take
         /\ \A i \in 1 .. L : record_buffer'[i] = record_buffer[i]
         /\ \A i \in Nat : i < take =>
              /\ offset + i \in HeaderOf(page_no) .. Blcksz - 1
              /\ ContentAt(page_no, offset + i) = u + L + i
              /\ record_buffer'[L + i + 1] = page_buffer.body[offset + i]
<1> DEFINE u == NextPos(wal, Len(records))
           L == Len(record_buffer)
           room == Blcksz - offset
           take == IF remaining < room THEN remaining ELSE room
           copied == [i \in 1 .. take |-> page_buffer.body[offset + i - 1]]
<1>1. /\ pc \in {"copy_header", "copy_body"} /\ remaining \in Nat /\ remaining > 0
      /\ offset \in Nat /\ offset < Blcksz /\ Blcksz \in Nat
      /\ page_no \in PageNo /\ page_no \in Nat
      /\ record_buffer \in Seq(Cell) /\ L \in Nat
  BY GeometryAssumption, LenProperties
     DEF CopyTake, Copying, ScanInv, TypeOK, BufferedPageIsValid, Reading, PageNo
<1>2. take \in Nat /\ take # 0 /\ take <= remaining /\ offset + take <= Blcksz
  BY <1>1
<1>3. record_buffer' = record_buffer \o copied
  BY DEF CopyTake
<1> HIDE DEF take
<1>4. /\ Len(record_buffer') = L + take
      /\ \A i \in 1 .. L : record_buffer'[i] = record_buffer[i]
      /\ \A i \in 1 .. take : record_buffer'[L + i] = page_buffer.body[offset + i - 1]
  <2>1. copied \in Seq(Cell) /\ Len(copied) = take
    <3>1. \A i \in 1 .. take : page_buffer.body[offset + i - 1] \in Cell
      <4> TAKE i \in 1 .. take
      <4>1. offset + i - 1 \in Offset
        BY <1>1, <1>2 DEF Offset
      <4> QED BY <4>1 DEF ScanInv, TypeOK, Page
    <3> QED BY <1>2, <3>1
  <2>2. \A i \in 1 .. take : copied[i] = page_buffer.body[offset + i - 1]
    OBVIOUS
  <2> HIDE DEF copied
  <2>3. /\ Len(record_buffer \o copied) = L + take
        /\ \A i \in 1 .. L : (record_buffer \o copied)[i] = record_buffer[i]
        /\ \A i \in 1 .. take : (record_buffer \o copied)[L + i] = copied[i]
    BY <1>1, <1>2, <2>1
  <2> QED BY <1>3, <2>2, <2>3
<1>5. HoldsWal(page_buffer, page_no) /\ wal \in Layouts /\ flushed \in Stops(wal) /\ at_open \in Nat
  BY <1>1 DEF FileIsWal, Reading
<1>6. offset >= HeaderOf(page_no) /\ HeaderOf(page_no) \in Nat
  BY <1>1, <1>5, WalPage, HeaderOfType DEF Accounts
<1>7. ContentAt(page_no, offset) = u + L
  BY <1>1 DEF CopiesNext
<1>8. u \in Nat
  <2>1. records \in Seq(Record)
    BY DEF ScanInv, TypeOK
  <2>2. Len(records) \in 0 .. Last(wal)
    BY <2>1, RecordCount
  <2> QED BY <1>5, <2>2, LayoutAssumption, RecordsInOrder
<1> HIDE DEF copied, L, u
<1>9. ASSUME NEW i \in Nat, i < take
      PROVE  /\ offset + i \in HeaderOf(page_no) .. Blcksz - 1
             /\ ContentAt(page_no, offset + i) = u + L + i
             /\ record_buffer'[L + i + 1] = page_buffer.body[offset + i]
  <2>1. offset + i \in HeaderOf(page_no) .. Blcksz - 1
    BY <1>1, <1>2, <1>6, <1>9
  <2>2. ContentAt(page_no, offset + i) = u + L + i
    <3>1. FirstContent(page_no) \in Nat
      BY <1>1, FirstContentNext
    <3> QED BY SMTT(30), <1>1, <1>6, <1>7, <1>8, <3>1 DEF ContentAt
  <2>3. /\ i + 1 \in 1 .. take /\ L + (i + 1) = L + i + 1
        /\ offset + (i + 1) - 1 = offset + i
    BY <1>1, <1>2, <1>9
  <2> QED BY <1>4, <2>1, <2>2, <2>3
<1> QED BY <1>1, <1>2, <1>4, <1>6, <1>7, <1>8, <1>9 DEF take, L, u

LEMMA TakeCopiesNext ==
  ASSUME ScanInv, Accounts, FileIsWal, RecordsAreWal, CopiesNext, CopyTake,
         wal' = wal, flushed' = flushed, at_open' = at_open
  PROVE  CopiesNext'
<1> DEFINE u == NextPos(wal, Len(records))
           L == Len(record_buffer)
           room == Blcksz - offset
           take == IF remaining < room THEN remaining ELSE room
           at == page_no * Blcksz + offset
<1>1. /\ pc \in {"copy_header", "copy_body"} /\ Blcksz \in Nat
      /\ file_ranges \in Seq(FileRange)
      /\ file_ranges' = AddRange(file_ranges, at, take)
      /\ offset' = offset + take
      /\ UNCHANGED <<page_no, record_lsn, tot_len, records, pc>>
  BY GeometryAssumption DEF CopyTake, Copying, ScanInv, TypeOK, buffer, app
<1>2. /\ offset \in Nat /\ offset < Blcksz /\ page_no \in PageNo /\ page_no \in Nat
      /\ offset >= HeaderOf(page_no) /\ HeaderOf(page_no) \in Nat
      /\ L \in Nat /\ u \in Nat /\ ContentAt(page_no, offset) = u + L
      /\ take \in Nat /\ offset + take <= Blcksz
  BY TakeReads
<1>3. /\ Len(record_buffer') = L + take
      /\ \A i \in 1 .. L : record_buffer'[i] = record_buffer[i]
      /\ \A i \in Nat : i < take =>
           /\ offset + i \in HeaderOf(page_no) .. Blcksz - 1
           /\ ContentAt(page_no, offset + i) = u + L + i
           /\ record_buffer'[L + i + 1] = page_buffer.body[offset + i]
  BY TakeReads
<1> HIDE DEF take
<1>5. /\ HoldsWal(page_buffer, page_no)
      /\ wal \in Layouts /\ flushed \in Stops(wal) /\ at_open \in Nat
  BY <1>1 DEF FileIsWal, Reading
<1>7. /\ ContentAt(page_no, offset) = u + L /\ record_lsn = SegStart + FileCell(u)
      /\ \A i \in 1 .. L : ReadAt(record_buffer[i], u + i - 1)
      /\ \A j \in 1 .. Len(file_ranges) : file_ranges[j].start <= file_ranges[j].end
      /\ CellsOf(file_ranges) = {FileCell(u + i) : i \in 0 .. L - 1}
      /\ pc = "copy_body" => tot_len \in TotLens(record_buffer[1]) /\ RecHdr <= L
  BY <1>1 DEF CopiesNext
<1>9. ASSUME NEW i \in Nat, i < take
      PROVE  /\ FileCell(u + L + i) = at + i
             /\ ReadAt(page_buffer.body[offset + i], u + L + i)
  <2>1. offset + i \in HeaderOf(page_no) .. Blcksz - 1 /\ ContentAt(page_no, offset + i) = u + L + i
    BY <1>3, <1>9
  <2>2. FileCell(u + L + i) = page_no * Blcksz + (offset + i)
    BY <1>2, <2>1, FileCellOf
  <2>3. page_no * Blcksz \in Nat
    BY <1>1, <1>2
  <2>4. ReadAt(page_buffer.body[offset + i], u + L + i)
    BY <1>2, <1>5, <2>1, WalPage
  <2> QED BY <1>2, <2>2, <2>3, <2>4
<1>10. ContentAt(page_no, offset + take) = u + (L + take)
  <2>1. FirstContent(page_no) \in Nat
    BY <1>2, FirstContentNext
  <2>2. /\ FirstContent(page_no) + offset - HeaderOf(page_no) = u + L
        /\ ContentAt(page_no, offset + take)
             = FirstContent(page_no) + (offset + take) - HeaderOf(page_no)
    BY <1>7 DEF ContentAt
  <2>3. /\ offset \in Nat /\ take \in Nat /\ HeaderOf(page_no) \in Nat /\ u \in Nat /\ L \in Nat
    BY <1>2
  <2> HIDE DEF u, L
  <2> QED BY <2>1, <2>2, <2>3
<1>11. at \in Nat
  <2>1. page_no * Blcksz \in Nat
    BY <1>1, <1>2
  <2> QED BY <1>2, <2>1
<1> HIDE DEF at, L, u
<1>12. ASSUME NEW i \in 1 .. L + take PROVE ReadAt(record_buffer'[i], u + i - 1)
  <2>1. CASE i <= L
    <3>1. i \in 1 .. L
      BY <1>1, <1>2, <2>1
    <3> QED BY <1>3, <1>7, <3>1
  <2>2. CASE i > L
    <3> DEFINE m == i - L - 1
    <3>1. m \in Nat /\ m < take /\ L + m + 1 = i /\ u + L + m = u + i - 1
      BY <1>2, <2>2
    <3> HIDE DEF m
    <3>2. record_buffer'[i] = page_buffer.body[offset + m]
      BY <1>3, <3>1
    <3> QED BY <1>9, <3>1, <3>2
  <2> QED BY <1>1, <1>2, <2>1, <2>2
<1>13. /\ \A j \in 1 .. Len(file_ranges') : file_ranges'[j].start <= file_ranges'[j].end
       /\ CellsOf(file_ranges') = CellsOf(file_ranges) \cup (at .. at + take - 1)
  BY ZenonT(30), <1>1, <1>2, <1>3, <1>7, <1>11, AddRangeCells
<1>14. CellsOf(file_ranges') = {FileCell(u + i) : i \in 0 .. L + take - 1}
  <2>1. ASSUME NEW c \in at .. at + take - 1
        PROVE  \E i \in 0 .. L + take - 1 : c = FileCell(u + i)
    <3> DEFINE m == c - at
    <3>1. m \in Nat /\ m < take /\ at + m = c /\ L + m \in 0 .. L + take - 1 /\ u + L + m = u + (L + m)
      BY <1>1, <1>2, <1>11
    <3> HIDE DEF m
    <3> QED BY <1>9, <3>1
  <2>2. ASSUME NEW i \in 0 .. L + take - 1
        PROVE  FileCell(u + i) \in CellsOf(file_ranges) \cup (at .. at + take - 1)
    <3>1. CASE i < L
      <4>1. i \in 0 .. L - 1
        BY <1>2, <3>1
      <4> QED BY <1>7, <4>1
    <3>2. CASE ~(i < L)
      <4> DEFINE m == i - L
      <4>1. m \in Nat /\ m < take /\ u + L + m = u + i /\ at + m \in at .. at + take - 1
        BY <1>1, <1>2, <1>11, <3>2
      <4> HIDE DEF m
      <4> QED BY <1>9, <4>1
    <3> QED BY <3>1, <3>2
  <2>3. ASSUME NEW c \in CellsOf(file_ranges)
        PROVE  \E i \in 0 .. L + take - 1 : c = FileCell(u + i)
    <3>1. PICK i \in 0 .. L - 1 : c = FileCell(u + i)
      BY <1>7
    <3>2. i \in 0 .. L + take - 1
      BY <1>1, <1>2
    <3> QED BY <3>1, <3>2
  <2> QED BY <1>13, <2>1, <2>2, <2>3
<1>15. pc' = "copy_body" =>
         tot_len' \in TotLens(record_buffer'[1]) /\ RecHdr <= Len(record_buffer')
  <2> SUFFICES ASSUME pc = "copy_body"
               PROVE  tot_len' \in TotLens(record_buffer'[1]) /\ RecHdr <= Len(record_buffer')
    BY <1>1
  <2>1. tot_len \in TotLens(record_buffer[1]) /\ RecHdr <= L /\ RecHdr \in Nat \ {0}
    BY <1>7, GeometryAssumption
  <2>2. 1 \in 1 .. L /\ RecHdr <= L + take
    BY <1>2, <2>1
  <2> QED BY <1>1, <1>3, <2>1, <2>2
<1>16. NextPos(wal', Len(records')) = u
  BY <1>1 DEF u
<1>17. \A i \in 1 .. Len(record_buffer') : ReadAt(record_buffer[i], u + i - 1)'
  BY <1>3, <1>12, <1>16 DEF ReadAt, u
<1>18. CellsOf(file_ranges') = {FileCell(u + i) : i \in 0 .. Len(record_buffer') - 1}
  <2>1. 0 .. Len(record_buffer') - 1 = 0 .. L + take - 1
    BY <1>1, <1>2, <1>3 DEF L
  <2> QED BY Zenon, <1>14, <2>1
<1>19. ContentAt(page_no', offset') = u + Len(record_buffer')
  BY <1>1, <1>2, <1>3, <1>10
<1>20. record_lsn' = SegStart + FileCell(u)
  BY <1>1, <1>7
<1>21. u = u'
  BY <1>16 DEF u
<1> QED BY Zenon, <1>13, <1>15, <1>16, <1>17, <1>18, <1>19, <1>20, <1>21 DEF CopiesNext

LEMMA NextPageCopiesNext ==
  ASSUME ScanInv, Accounts, FileIsWal, CopiesNext, CopyNextPage, wal' = wal, flushed' = flushed, at_open' = at_open
  PROVE  CopiesNext'
<1> DEFINE n == page_no + 1
           u == NextPos(wal, Len(records))
<1>1. /\ pc \in {"copy_header", "copy_body"} /\ offset = Blcksz /\ page_no \in Nat
      /\ n < PageLimit /\ Valid(n) /\ page_no' = n /\ offset' = header_size(segment[n])
  BY DEF CopyNextPage, Copying, load_page, Valid, ScanInv, TypeOK, BufferedPageIsValid, Reading
<1>2. UNCHANGED <<record_buffer, record_lsn, file_ranges, tot_len, records, pc>>
  BY DEF CopyNextPage, app
<1>3. n \in PageNo /\ n \in Nat
  BY <1>1, PageLimitType, GeometryAssumption DEF ScanInv, PageNo
<1>4. header_size(segment[n]) = HeaderOf(n)
  <2>1. HoldsWal(segment[n], n)
    BY <1>1, <1>3, ValidIsWal DEF FileIsWal
  <2> QED BY <1>3, <2>1, WalPage DEF FileIsWal
<1>5. /\ ContentAt(page_no, Blcksz) = u + Len(record_buffer)
      /\ record_lsn = SegStart + FileCell(u)
      /\ \A i \in 1 .. Len(record_buffer) : ReadAt(record_buffer[i], u + i - 1)
      /\ \A j \in 1 .. Len(file_ranges) : file_ranges[j].start <= file_ranges[j].end
      /\ CellsOf(file_ranges) = {FileCell(u + i) : i \in 0 .. Len(record_buffer) - 1}
      /\ pc = "copy_body" =>
           tot_len \in TotLens(record_buffer[1]) /\ RecHdr <= Len(record_buffer)
  BY <1>1 DEF CopiesNext
<1>6. ContentAt(page_no', offset') = ContentAt(page_no, Blcksz)
  <2>1. /\ FirstContent(n) = FirstContent(page_no) + (Blcksz - HeaderOf(page_no))
        /\ FirstContent(page_no) \in Nat /\ Blcksz \in Nat
        /\ HeaderOf(page_no) \in Nat /\ HeaderOf(n) \in Nat
    BY <1>1, <1>3, FirstContentNext, HeaderOfType, GeometryAssumption
  <2>2. /\ ContentAt(page_no, Blcksz) = FirstContent(page_no) + Blcksz - HeaderOf(page_no)
        /\ ContentAt(n, HeaderOf(n)) = FirstContent(n) + HeaderOf(n) - HeaderOf(n)
    BY DEF ContentAt
  <2> HIDE DEF n
  <2> QED BY <1>1, <1>4, <2>1, <2>2
<1>7. \A i \in 1 .. Len(record_buffer') : ReadAt(record_buffer[i], u + i - 1)'
  BY <1>2, <1>5 DEF ReadAt
<1>8. u' = u
  BY <1>2
<1> HIDE DEF u
<1>9. NextPos(wal', Len(records')) = u
  BY <1>8 DEF u
<1> QED BY <1>2, <1>5, <1>6, <1>7, <1>8, <1>9 DEF CopiesNext

LEMMA HeaderCopiesNext ==
  ASSUME ScanInv, CopiesNext, HeaderCopied, wal' = wal, flushed' = flushed, at_open' = at_open
  PROVE  CopiesNext'
<1> DEFINE u == NextPos(wal, Len(records))
<1>1. /\ pc = "copy_header" /\ remaining = 0 /\ tot_len' \in TotLens(record_buffer[1])
      /\ UNCHANGED <<page_no, offset, record_buffer, record_lsn, file_ranges, records>>
  BY DEF HeaderCopied, buffer, app
<1>2. RecHdr <= Len(record_buffer)
  BY <1>1, LenProperties, GeometryAssumption DEF ScanInv, ScanState, TypeOK
<1>3. /\ ContentAt(page_no, offset) = u + Len(record_buffer)
      /\ record_lsn = SegStart + FileCell(u)
      /\ \A i \in 1 .. Len(record_buffer) : ReadAt(record_buffer[i], u + i - 1)
      /\ \A j \in 1 .. Len(file_ranges) : file_ranges[j].start <= file_ranges[j].end
      /\ CellsOf(file_ranges) = {FileCell(u + i) : i \in 0 .. Len(record_buffer) - 1}
  BY <1>1 DEF CopiesNext
<1>4. \A i \in 1 .. Len(record_buffer') : ReadAt(record_buffer[i], u + i - 1)'
  BY <1>1, <1>3 DEF ReadAt
<1>5. u' = u
  BY <1>1
<1> HIDE DEF u
<1>6. NextPos(wal', Len(records')) = u
  BY <1>5 DEF u
<1> QED BY <1>1, <1>2, <1>3, <1>4, <1>5, <1>6 DEF CopiesNext

-----------------------------------------------------------------------------
(* load_next_record hands it over, and knows where the next one starts.    *)

\* The cells of a good record had been written when they were read.
RecordsWereRead ==
  \A k \in 1 .. Len(records) : records[k].crc_ok =>
    \A i \in 0 .. wal.lens[k] - 1 :
      /\ wal.start[k] + i < flushed
      /\ FileCell(wal.start[k] + i) \div Blcksz # wal.fault_page
      /\ CellOf(wal, wal.start[k] + i) = RecordCell(k, wal.lens[k], i, TRUE)

\* Where the next record must start there is its first cell, or nothing.
LEMMA NextCell ==
  ASSUME NEW w, IsLayout(w), NEW n \in 0 .. Last(w), CellOf(w, NextPos(w, n)) # Zero
  PROVE  LET k == n + 1 IN
         /\ k \in WalRecords(w) /\ k \in 1 .. Last(w)
         /\ w.start[k] = NextPos(w, n) /\ w.start[k] \in Nat /\ w.lens[k] \in Nat
         /\ CellOf(w, NextPos(w, n))
              = RecordCell(k, w.lens[k], 0, <<k, 0>> \notin w.flipped)
<1> DEFINE k == n + 1
           u == NextPos(w, n)
<1>1. Last(w) \in Nat /\ n \in Nat /\ WalRecords(w) = 1 .. Last(w) /\ u \in Nat
  BY LayoutType, RecordsInOrder
<1>2. n # Last(w)
  BY <1>1, ZeroBehind DEF u
<1> HIDE DEF u, k
<1>3. k \in 1 .. Last(w) /\ k \in 0 .. Last(w) /\ k - 1 = n /\ k # 0
  BY <1>1, <1>2 DEF k
<1>4. u = w.start[k] /\ w.lens[k] \in Nat
  BY <1>1, <1>3, LayoutType DEF u
<1>5. Holds(w, k, u)
  BY <1>1, <1>3, <1>4, RecordsInOrder DEF Holds
<1>6. u - w.start[k] = 0
  BY <1>1, <1>4
<1>7. CellOf(w, u) = RecordCell(k, w.lens[k], u - w.start[k],
                                <<k, u - w.start[k]>> \notin w.flipped)
  BY <1>1, <1>3, <1>5, CellOfRecord
<1> QED BY <1>1, <1>3, <1>4, <1>6, <1>7 DEF k, u

\* The first cell says which record is being copied.
LEMMA FirstCell ==
  ASSUME ScanInv, FileIsWal, RecordsAreWal, CopiesNext, pc \in {"copy_header", "copy_body"},
         Len(record_buffer) >= 1, record_buffer[1] # Zero
  PROVE  LET k == Len(records) + 1 IN
         /\ k \in WalRecords(wal) /\ k \in 1 .. Last(wal)
         /\ wal.start[k] = NextPos(wal, Len(records)) /\ wal.start[k] \in Nat
         /\ wal.lens[k] \in Nat
         /\ record_buffer[1] = RecordCell(k, wal.lens[k], 0, <<k, 0>> \notin wal.flipped)
<1> DEFINE u == NextPos(wal, Len(records))
<1>1. IsLayout(wal) /\ Len(record_buffer) \in Nat /\ Len(records) \in 0 .. Last(wal)
  <2>1. IsLayout(wal) /\ records \in Seq(Record) /\ record_buffer \in Seq(Cell)
    BY LayoutAssumption DEF FileIsWal, ScanInv, TypeOK
  <2> QED BY <2>1, RecordCount, LenProperties
<1>2. u \in Nat
  BY <1>1, RecordsInOrder
<1>3. record_buffer[1] = CellOf(wal, u)
  <2>1. 1 \in 1 .. Len(record_buffer) /\ u + 1 - 1 = u
    BY <1>1, <1>2
  <2>2. ReadAt(record_buffer[1], u + 1 - 1)
    BY <2>1 DEF CopiesNext
  <2> QED BY <2>1, <2>2 DEF ReadAt
<1> QED BY <1>1, <1>3, NextCell

LEMMA WholeRecord ==
  ASSUME ScanInv, FileIsWal, RecordsAreWal, CopiesNext, pc = "copy_body", remaining = 0
  PROVE  LET k == Len(records) + 1
             u == wal.start[k]
             len == wal.lens[k] IN
         /\ k \in WalRecords(wal) /\ k \in 1 .. Last(wal) /\ u = NextPos(wal, Len(records))
         /\ Len(record_buffer) = tot_len
         /\ verify_record_crc(record_buffer) =>
              /\ tot_len = len /\ ~Aborted(wal, k)
              /\ record_buffer = [i \in 1 .. len |-> RecordCell(k, len, i - 1, TRUE)]
              /\ \A i \in 0 .. len - 1 : /\ u + i < flushed
                                         /\ FileCell(u + i) \div Blcksz # wal.fault_page
                                         /\ CellOf(wal, u + i) = RecordCell(k, len, i, TRUE)
<1> DEFINE k == Len(records) + 1
           u == NextPos(wal, Len(records))
           L == Len(record_buffer)
<1>1. /\ IsLayout(wal) /\ records \in Seq(Record) /\ record_buffer \in Seq(Cell) /\ L \in Nat
      /\ record_buffer \in [1 .. L -> Cell]
  BY LayoutAssumption, LenProperties DEF FileIsWal, ScanInv, TypeOK
<1>2. Len(records) \in 0 .. Last(wal) /\ Len(records) \in Nat /\ Last(wal) \in Nat
        /\ WalRecords(wal) = 1 .. Last(wal)
  BY <1>1, RecordCount, LayoutType
<1>3. u \in Nat
  BY <1>1, <1>2, RecordsInOrder
<1>4. L = tot_len /\ L >= 1 /\ RecHdr <= tot_len /\ tot_len \in Nat
  <2>1. L + 0 = tot_len /\ LengthInRange(tot_len) /\ tot_len \in Nat
    BY DEF ScanInv, ScanState, TypeOK
  <2>2. RecHdr \in Nat \ {0} /\ RecHdr <= tot_len
    BY <2>1, GeometryAssumption DEF LengthInRange
  <2> HIDE DEF L
  <2> QED BY <1>1, <2>1, <2>2
<1>5. /\ \A i \in 1 .. L : ReadAt(record_buffer[i], u + i - 1)
      /\ tot_len \in TotLens(record_buffer[1])
  BY DEF CopiesNext
<1> HIDE DEF L, u, k
<1>6. record_buffer[1] # Zero
  BY <1>4, <1>5 DEF TotLens
<1>7. /\ k \in 1 .. Last(wal) /\ k \in 0 .. Last(wal)
      /\ u = wal.start[k] /\ wal.lens[k] \in Nat
      /\ record_buffer[1] = RecordCell(k, wal.lens[k], 0, <<k, 0>> \notin wal.flipped)
  <2>1. Len(record_buffer) >= 1
    BY <1>4 DEF L
  <2> QED BY <1>2, <1>6, <2>1, FirstCell DEF k, u
<1>8. ASSUME verify_record_crc(record_buffer)
       PROVE  /\ tot_len = wal.lens[k] /\ ~Aborted(wal, k)
              /\ record_buffer = [i \in 1 .. tot_len |-> RecordCell(k, tot_len, i - 1, TRUE)]
              /\ \A i \in 0 .. tot_len - 1 :
                   /\ u + i < flushed
                   /\ FileCell(u + i) \div Blcksz # wal.fault_page
                   /\ CellOf(wal, u + i) = RecordCell(k, tot_len, i, TRUE)
  <2>1. record_buffer[1].rec = k /\ record_buffer[1].tot_len = wal.lens[k]
    BY <1>7 DEF RecordCell
  <2>2. \A i \in 1 .. L : record_buffer[i] = RecordCell(k, L, i - 1, TRUE)
    BY <1>8, <2>1 DEF verify_record_crc, L
  <2>3. L = wal.lens[k]
    <3>1. 1 \in 1 .. L
      BY <1>1, <1>4
    <3>2. record_buffer[1] = RecordCell(k, L, 1 - 1, TRUE)
      BY <2>2, <3>1
    <3> QED BY <2>1, <3>2 DEF RecordCell
  <2>4. record_buffer = [i \in 1 .. tot_len |-> RecordCell(k, tot_len, i - 1, TRUE)]
    BY <1>1, <1>4, <2>2
  <2>5. ASSUME NEW i \in 0 .. tot_len - 1
        PROVE  /\ u + i < flushed /\ FileCell(u + i) \div Blcksz # wal.fault_page
               /\ CellOf(wal, u + i) = RecordCell(k, L, i, TRUE)
    <3>1. i + 1 \in 1 .. L /\ u + (i + 1) - 1 = u + i /\ (i + 1) - 1 = i
      BY <1>3, <1>4
    <3>2. ReadAt(record_buffer[i + 1], u + i)
      BY <1>5, <3>1
    <3>3. record_buffer[i + 1] = RecordCell(k, L, i, TRUE)
      BY <2>2, <3>1
    <3>4. RecordCell(k, L, i, TRUE) # Zero
      BY DEF RecordCell, Zero
    <3> QED BY <3>2, <3>3, <3>4 DEF ReadAt
  <2>6. ~Aborted(wal, k)
    <3> SUFFICES ASSUME Aborted(wal, k) PROVE FALSE
      OBVIOUS
    <3> DEFINE e == L - 1
               x == u + e
    <3>1. e \in 0 .. tot_len - 1 /\ x \in Int /\ x + 1 = u + L
      BY <1>3, <1>4
    <3>2. CellOf(wal, x) = RecordCell(k, L, e, TRUE)
      BY <2>5, <3>1
    <3> HIDE DEF e, x
    <3>3. PICK r \in 0 .. Last(wal) : Holds(wal, r, x)
      <4>1. RecordCell(k, L, e, TRUE) # Zero
        BY DEF RecordCell, Zero
      <4> QED BY <1>1, <3>1, <3>2, <4>1, CellOfNone
    <3>4. r = k
      <4>1. CellOf(wal, x) = RecordCell(r, wal.lens[r], x - wal.start[r],
                                        <<r, x - wal.start[r]>> \notin wal.flipped)
        BY <1>1, <3>1, <3>3, CellOfRecord
      <4>2. CellOf(wal, x).rec = r
        BY <4>1 DEF RecordCell
      <4> QED BY <3>2, <4>2 DEF RecordCell
    <3>5. x < EndOf(wal, k)
      BY <3>3, <3>4 DEF Holds
    <3>6. /\ EndOf(wal, k) = FirstContent(wal.cut) /\ FirstContent(wal.cut) < u + L
          /\ FirstContent(wal.cut) \in Nat
      BY <1>1, <1>7, <2>3, LayoutType DEF Aborted, Cuts, EndOf
    <3> QED BY <1>3, <3>1, <3>5, <3>6
  <2> QED BY <1>4, <2>3, <2>4, <2>5, <2>6
<1> QED BY <1>2, <1>4, <1>7, <1>8 DEF k, u, L

LEMMA ReturnSeeksNext ==
  ASSUME ScanInv, Accounts, PointerInv, WorkingNotDone, FileIsWal, NeverAtSegmentEnd(wal),
         RecordsAreWal, CopiesNext, ReturnRecord, wal' = wal
  PROVE  SeeksNext'
<1> DEFINE k == Len(records) + 1
           u == wal.start[k]
           v == NextPos(wal, k)
           len == tot_len
           pad == maxalign(len)
           x == offset + (pad - len)
<1>1. /\ pc = "copy_body" /\ remaining = 0 /\ pc' = "idle"
      /\ read_lsn' = read_lsn + header_bytes + pad
      /\ Len(records') = k /\ k # 0
  <2>1. records \in Seq(Record)
    BY DEF ScanInv, TypeOK
  <2> QED BY <2>1 DEF ReturnRecord, AdvanceReadLsn
<1> SUFFICES ASSUME ~done' PROVE SeeksNext'
  BY DEF SeeksNext
<1>2. verify_record_crc(record_buffer)
  BY <1>1 DEF ReturnRecord, StopAtBadCrc
<1>3. /\ k \in 1 .. Last(wal) /\ u = NextPos(wal, Len(records)) /\ Len(record_buffer) = len
      /\ len = wal.lens[k] /\ ~Aborted(wal, k)
  BY <1>1, <1>2, WholeRecord
<1> HIDE DEF k, v, len, pad, x
<1>4. IsLayout(wal) /\ k \in 0 .. Last(wal)
  BY <1>3, LayoutAssumption DEF FileIsWal
<1>5. u \in Nat /\ Aligned(u) /\ len \in Nat /\ pad \in Nat /\ pad >= len
  BY <1>1, <1>3, <1>4, RecordsInOrder, MaxAlignNat, LayoutType DEF pad
<1>6. v = u + pad
  BY <1>1, <1>3, <1>4, <1>5, NextPosBehind DEF v, pad
<1>7. /\ page_no \in PageNo /\ page_no \in Nat /\ offset \in Nat /\ offset <= Blcksz
      /\ Blcksz \in Nat /\ page_no < wal.pages
      /\ read_lsn \in Nat /\ header_bytes \in Nat
  <2>1. page_no \in 0 .. readable_pages - 1 /\ readable_pages <= PagesPerSegment
    BY <1>1, GeometryAssumption DEF ScanInv, TypeOK, BufferedPageIsValid, Reading
  <2>2. readable_pages <= wal.pages /\ wal.pages \in Nat /\ readable_pages \in Nat
    <3>1. readable_pages <= wal.pages
      BY DEF FileIsWal
    <3>2. wal.pages \in Nat
      BY <1>4, GeometryAssumption DEF IsLayout
    <3>3. readable_pages \in Nat
      BY GeometryAssumption DEF ScanInv, TypeOK
    <3> QED BY <3>1, <3>2, <3>3
  <2>3. page_no < wal.pages /\ page_no \in PageNo /\ page_no \in Nat
    BY <2>1, <2>2, GeometryAssumption DEF PageNo
  <2> QED BY <2>3, GeometryAssumption DEF ScanInv, TypeOK
<1>8. /\ HeaderOf(page_no) \in Nat \ {0} /\ HeaderOf(page_no) <= offset
      /\ FirstContent(page_no) \in Nat /\ Aligned(FirstContent(page_no))
      /\ FirstContent(page_no + 1) = FirstContent(page_no) + (Blcksz - HeaderOf(page_no))
      /\ FirstContent(page_no + 1) \in Nat /\ Aligned(FirstContent(page_no + 1))
  <2>1. HoldsWal(page_buffer, page_no)
    BY <1>1 DEF FileIsWal, Reading
  <2>2. header_size(page_buffer) = HeaderOf(page_no)
    BY <1>7, <2>1, WalPage DEF FileIsWal
  <2>3. header_size(page_buffer) <= offset
    BY <1>1, <1>7, HeaderSize DEF Accounts
  <2>4. page_no + 1 \in Nat
    BY <1>7
  <2> QED BY <1>7, <2>2, <2>3, <2>4, HeaderOfType, FirstContentNext
<1>9. FirstContent(page_no) + (offset - HeaderOf(page_no)) = u + len
  <2>1. ContentAt(page_no, offset) = u + len
    BY <1>1, <1>3 DEF CopiesNext
  <2> QED BY <1>7, <1>8, <2>1 DEF ContentAt
\* The padding does not go past the page.
<1>10. x \in Nat /\ x <= Blcksz /\ x >= offset
  <2> DEFINE room == FirstContent(page_no + 1) - u
  <2>1. room \in Nat /\ room >= len
    BY <1>5, <1>7, <1>8, <1>9
  <2>2. Aligned(FirstContent(page_no + 1) - u)
    BY SMTT(30), <1>5, <1>8, <2>1, AlignedSum
  <2>3. pad <= room
    BY <1>5, <2>1, <2>2, MaxAlignLeast DEF pad
  <2> QED BY <1>5, <1>7, <1>8, <1>9, <2>1, <2>3 DEF x
<1>11. FirstContent(page_no) + (x - HeaderOf(page_no)) = v
  <2>1. FirstContent(page_no) \in Nat /\ HeaderOf(page_no) \in Nat
    BY <1>8
  <2> HIDE DEF u
  <2> QED BY <1>5, <1>6, <1>7, <1>9, <2>1 DEF x
<1>12. read_lsn' = page_start_lsn(page_no) + x
  <2>1. SegStart + (page_no * Blcksz + offset) = read_lsn + header_bytes + len
    BY <1>1, <1>3 DEF Accounts
  <2>2. page_no * Blcksz \in Nat /\ SegStart \in Nat
    BY <1>7, Segment
  <2> QED BY <1>1, <1>5, <1>7, <2>1, <2>2 DEF page_start_lsn, x
<1>13. NextPos(wal', Len(records')) = v
  BY <1>1 DEF v
<1>14. CASE x < Blcksz
  <2>1. x \in Offset /\ x >= HeaderOf(page_no)
    BY <1>7, <1>8, <1>10, <1>14 DEF Offset
  <2>2. lsn_to_page_no(read_lsn') = page_no /\ lsn_to_page_offset(read_lsn') = x
    BY <1>7, <1>12, <2>1, LsnOfPage
  <2>3. ContentAt(page_no, x) = v
    BY <1>8, <1>10, <1>11 DEF ContentAt
  <2> QED BY <1>12, <1>13, <2>1, <2>2, <2>3 DEF SeeksNext
<1>15. CASE x = Blcksz
  <2>1. FirstContent(page_no + 1) = v
    BY <1>8, <1>11, <1>15
  <2>2. page_no + 1 \in PageNo
    BY <1>3, <1>4, <1>7, <2>1, NotAtSegmentEnd DEF v
  <2>3. read_lsn' = page_start_lsn(page_no + 1) /\ page_start_lsn(page_no + 1) \in Nat
    BY <1>7, <1>12, <1>15, PageEnd
  <2>4. 0 \in Offset /\ read_lsn' = page_start_lsn(page_no + 1) + 0
    BY <2>3, Segment DEF Offset
  <2>5. lsn_to_page_no(read_lsn') = page_no + 1 /\ lsn_to_page_offset(read_lsn') = 0
    BY <2>2, <2>4, LsnOfPage
  <2> QED BY <1>13, <2>1, <2>4, <2>5 DEF SeeksNext
<1> QED BY <1>7, <1>10, <1>14, <1>15

RecordIsWal(w, r, k) ==
  LET len == w.lens[k]
      At(i) == FileCell(w.start[k] + i) IN
  /\ k \in WalRecords(w)
  /\ r.lsn = SegStart + At(0)
  /\ r.crc_ok =>
       /\ r.raw = [i \in 1 .. len |-> RecordCell(k, len, i - 1, TRUE)]
       /\ CellsOf(r.file_ranges) = {At(i) : i \in 0 .. len - 1}

LEMMA RecordsAreRecords ==
  RecordsAreWal <=> \A k \in 1 .. Len(records) : RecordIsWal(wal, records[k], k)
  BY Zenon DEF RecordsAreWal, RecordIsWal

LEMMA ReturnRecordsAreWal ==
  ASSUME ScanInv, WorkingNotDone, FileIsWal, RecordsAreWal, RecordsWereRead, CopiesNext,
         ReturnRecord, wal' = wal, flushed' = flushed, at_open' = at_open
  PROVE  RecordsAreWal' /\ RecordsWereRead'
<1> DEFINE k == Len(records) + 1
           u == wal.start[k]
           len == wal.lens[k]
           r == [lsn |-> record_lsn, raw |-> record_buffer,
                 crc_ok |-> verify_record_crc(record_buffer), file_ranges |-> file_ranges]
<1>1. pc = "copy_body" /\ remaining = 0 /\ records' = Append(records, r)
  BY DEF ReturnRecord
<1>2. records \in Seq(Record) /\ Len(records) \in Nat
  BY LenProperties DEF ScanInv, TypeOK
<1>3. /\ r.lsn = record_lsn /\ r.raw = record_buffer /\ r.file_ranges = file_ranges
      /\ r.crc_ok = verify_record_crc(record_buffer)
  OBVIOUS
<1> HIDE DEF r
<1>4. /\ Len(records') = k /\ records'[k] = r
      /\ \A i \in 1 .. Len(records) : records'[i] = records[i]
      /\ \A i \in 1 .. k : i = k \/ i \in 1 .. Len(records)
  BY <1>1, <1>2
<1>5. /\ k \in WalRecords(wal) /\ k \in 1 .. Last(wal) /\ u = NextPos(wal, Len(records))
      /\ r.crc_ok =>
           /\ Len(record_buffer) = len
           /\ record_buffer = [i \in 1 .. len |-> RecordCell(k, len, i - 1, TRUE)]
           /\ \A i \in 0 .. len - 1 : /\ u + i < flushed
                                      /\ FileCell(u + i) \div Blcksz # wal.fault_page
                                      /\ CellOf(wal, u + i) = RecordCell(k, len, i, TRUE)
  BY <1>1, <1>3, WholeRecord
<1>6. /\ record_lsn = SegStart + FileCell(u)
      /\ CellsOf(file_ranges) = {FileCell(u + i) : i \in 0 .. Len(record_buffer) - 1}
  BY <1>1, <1>5 DEF CopiesNext
<1>7. u + 0 = u
  <2>1. u \in Nat
    BY <1>5, RecordsInOrder, LayoutAssumption, LayoutType DEF FileIsWal
  <2> QED BY <2>1
<1> HIDE DEF k
<1>8. RecordsAreWal'
  <2>1. RecordIsWal(wal, r, k)
    BY <1>3, <1>5, <1>6, <1>7 DEF RecordIsWal
  <2>2. \A j \in 1 .. Len(records) : RecordIsWal(wal, records[j], j)
    BY Zenon, RecordsAreRecords
  <2>3. \A j \in 1 .. Len(records') : RecordIsWal(wal', records'[j], j)
    BY <1>4, <2>1, <2>2
  <2> QED BY Zenon, <2>3 DEF RecordsAreWal, RecordIsWal
<1>9. RecordsWereRead'
  <2> SUFFICES ASSUME NEW j \in 1 .. k, records'[j].crc_ok, NEW i \in 0 .. wal.lens[j] - 1
               PROVE  /\ wal.start[j] + i < flushed
                      /\ FileCell(wal.start[j] + i) \div Blcksz # wal.fault_page
                      /\ CellOf(wal, wal.start[j] + i) = RecordCell(j, wal.lens[j], i, TRUE)
    BY <1>4 DEF RecordsWereRead
  <2>1. CASE j = k
    BY <1>4, <1>5, <2>1
  <2>2. CASE j \in 1 .. Len(records)
    BY <1>4, <2>2 DEF RecordsWereRead
  <2> QED BY <1>4, <2>1, <2>2
<1> QED BY <1>8, <1>9

-----------------------------------------------------------------------------
(* The records handed to the application are those of the WAL.             *)

WalInv == SeeksNext /\ CopiesNext /\ RecordsAreWal /\ RecordsWereRead

LEMMA InitWalInv == LiveInit => WalInv
<1> SUFFICES ASSUME LiveInit PROVE WalInv
  OBVIOUS
<1>1. /\ wal \in Layouts /\ read_lsn = SegStart /\ records = <<>> /\ pc = "open"
  BY DEF LiveInit, ReaderInit
<1>2. Len(records) = 0
  BY <1>1
<1>3. SeeksNext
  <2>1. 0 \in PageNo /\ 0 \in Offset /\ SegStart \in Nat /\ 0 * Blcksz = 0
    BY Segment DEF PageNo, Offset
  <2>2. read_lsn = page_start_lsn(0) + 0
    BY <1>1, <2>1 DEF page_start_lsn
  <2>3. lsn_to_page_no(read_lsn) = 0 /\ lsn_to_page_offset(read_lsn) = 0
    BY <2>1, <2>2, LsnOfPage
  <2>4. FirstContent(0) = 0
    BY DEF FirstContent
  <2>5. NextPos(wal, 0) \in Nat
    BY <1>1, LayoutAssumption, LayoutType, NextPosBehind
  <2>6. FirstContent(0) = NextPos(wal, 0) \/ FirstContent(0) < NextPos(wal, 0)
    BY <2>4, <2>5
  <2> QED BY <1>1, <1>2, <2>2, <2>3, <2>6 DEF SeeksNext
<1>4. CopiesNext /\ RecordsAreWal /\ RecordsWereRead
  BY <1>1, <1>2 DEF CopiesNext, RecordsAreWal, RecordsWereRead
<1> QED BY <1>3, <1>4 DEF WalInv

\* What the reader has copied and handed over stays true when the server goes on.
LEMMA ServerKeepsWalInv ==
  ASSUME ScanInv, FileIsWal, WalInv, wal' = wal, at_open' = at_open,
         UNCHANGED reader,          flushed' \in Nat, flushed' >= flushed
  PROVE  WalInv'
<1>1. flushed \in Nat
  BY StopsType DEF FileIsWal
<1>2. UNCHANGED <<pc, done, read_lsn, records, page_no, offset, record_buffer, record_lsn,
                  file_ranges, tot_len>>
  BY DEF reader, buffer, locals, app
<1>3. SeeksNext'
  BY <1>2 DEF WalInv, SeeksNext
<1>4. RecordsAreWal'
  <2>1. \A k \in 1 .. Len(records') : RecordIsWal(wal', records'[k], k)
    BY Zenon, <1>2, RecordsAreRecords DEF WalInv
  <2> QED BY Zenon, <2>1 DEF RecordsAreWal, RecordIsWal
<1>5. RecordsWereRead'
  <2> SUFFICES ASSUME NEW k \in 1 .. Len(records), records[k].crc_ok,
                      NEW i \in 0 .. wal.lens[k] - 1
               PROVE  /\ wal.start[k] + i < flushed'
                      /\ FileCell(wal.start[k] + i) \div Blcksz # wal.fault_page
                      /\ CellOf(wal, wal.start[k] + i) = RecordCell(k, wal.lens[k], i, TRUE)
    BY <1>2 DEF RecordsWereRead
  <2>1. /\ wal.start[k] + i < flushed
        /\ FileCell(wal.start[k] + i) \div Blcksz # wal.fault_page
        /\ CellOf(wal, wal.start[k] + i) = RecordCell(k, wal.lens[k], i, TRUE)
    BY DEF WalInv, RecordsWereRead
  <2>2. wal.start[k] + i \in Int
    <3>1. k \in WalRecords(wal)
      BY Zenon DEF WalInv, RecordsAreWal
    <3>2. k \in 1 .. Last(wal) /\ IsLayout(wal)
      BY <3>1, LayoutAssumption DEF FileIsWal, WalRecords
    <3>3. wal.start[k] \in Nat
      BY <3>2, RecordsInOrder
    <3> QED BY <3>3
  <2>3. wal.start[k] + i < flushed'
    <3> DEFINE x == wal.start[k] + i
    <3>1. x \in Int /\ x < flushed
      BY <2>1, <2>2
    <3> HIDE DEF x
    <3>2. x < flushed'
      BY <1>1, <3>1
    <3> QED BY <3>2 DEF x
  <2> QED BY <2>1, <2>3
<1>6. CopiesNext'
  <2> SUFFICES ASSUME pc \in {"copy_header", "copy_body"} PROVE CopiesNext'
    BY <1>2 DEF CopiesNext
  <2> DEFINE u == NextPos(wal, Len(records))
  <2>1. /\ ContentAt(page_no, offset) = u + Len(record_buffer)
        /\ record_lsn = SegStart + FileCell(u)
        /\ \A i \in 1 .. Len(record_buffer) : ReadAt(record_buffer[i], u + i - 1)
        /\ \A j \in 1 .. Len(file_ranges) : file_ranges[j].start <= file_ranges[j].end
        /\ CellsOf(file_ranges) = {FileCell(u + i) : i \in 0 .. Len(record_buffer) - 1}
        /\ pc = "copy_body" =>
             tot_len \in TotLens(record_buffer[1]) /\ RecHdr <= Len(record_buffer)
    BY DEF WalInv, CopiesNext
  <2>2. u' = u
    BY <1>2
  <2>3. u \in Nat
    <3>1. Len(records) \in 0 .. Last(wal)
      BY RecordCount DEF WalInv, ScanInv, TypeOK
    <3> QED BY <3>1, LayoutAssumption, RecordsInOrder DEF FileIsWal
  <2> HIDE DEF u
  <2>4. ASSUME NEW i \in 1 .. Len(record_buffer)
        PROVE  ReadAt(record_buffer[i], u + i - 1)'
    <3>1. ReadAt(record_buffer[i], u + i - 1) /\ u + i - 1 \in Int
      BY <2>1, <2>3
    <3> QED BY <1>1, <1>2, <2>2, <3>1 DEF ReadAt
  <2>5. NextPos(wal', Len(records')) = u
    BY <2>2 DEF u
  <2> QED BY <1>2, <2>1, <2>2, <2>4, <2>5 DEF CopiesNext
<1> QED BY <1>3, <1>4, <1>5, <1>6 DEF WalInv

LEMMA NextWalInv ==
  ASSUME ScanInv, Accounts, PointerInv, WorkingNotDone, FileIsWal,
         NeverAtSegmentEnd(wal), WalInv, [LiveNext]_LiveVars
  PROVE  WalInv'
<1>1. CASE ServerWrites
  <2>1. PICK f \in Stops(wal) : f > flushed /\ flushed' = f
    BY <1>1 DEF ServerWrites
  <2>2. f \in Nat /\ flushed \in Nat
    BY StopsType DEF FileIsWal
  <2> QED BY <1>1, <2>1, <2>2, ServerKeepsWalInv DEF ServerWrites
<1>2. CASE UNCHANGED LiveVars
  <2>1. flushed' = flushed /\ flushed \in Nat /\ UNCHANGED <<wal, at_open, reader>>
    BY <1>2, StopsType DEF FileIsWal, LiveVars, live, vars
  <2> QED BY <2>1, ServerKeepsWalInv
<1>3. CASE ReaderSteps
  <2>1. Step /\ wal' = wal /\ flushed' = flushed /\ at_open' = at_open
    BY <1>3 DEF ReaderSteps, live
  <2>2. SeeksNext /\ CopiesNext /\ RecordsAreWal /\ RecordsWereRead
    BY DEF WalInv
  <2>3. ASSUME records' = records PROVE RecordsAreWal' /\ RecordsWereRead'
    <3>1. \A k \in 1 .. Len(records') : RecordIsWal(wal', records'[k], k)
      BY Zenon, <2>1, <2>2, <2>3, RecordsAreRecords
    <3>2. RecordsAreWal'
      BY Zenon, <3>1 DEF RecordsAreWal, RecordIsWal
    <3> QED BY <2>1, <2>2, <2>3, <3>2 DEF RecordsWereRead
  <2>4. CASE FindSkipsPage
    <3>1. records' = records /\ pc' = "find"
      BY <2>4 DEF FindSkipsPage, FindOn, app
    <3>2. CopiesNext'
      BY <3>1 DEF CopiesNext
    <3> QED BY <2>1, <2>2, <2>3, <2>4, <3>1, <3>2, SkipSeeksNext DEF WalInv
  <2>5. CASE FindRecord
    <3>1. records' = records /\ pc' = "copy_header"
      BY <2>5 DEF FindRecord, FindOn, app
    <3>2. SeeksNext'
      BY <3>1 DEF SeeksNext
    <3> QED BY <2>1, <2>2, <2>3, <2>5, <3>1, <3>2, FindCopiesNext DEF WalInv
  <2>6. CASE CopyNextPage \/ CopyTake \/ HeaderCopied
    <3>1. records' = records /\ pc' \in {"copy_header", "copy_body"}
      BY <2>6 DEF CopyNextPage, CopyTake, HeaderCopied, Copying, app
    <3>2. SeeksNext'
      BY <3>1 DEF SeeksNext
    <3> QED BY <2>1, <2>2, <2>3, <2>6, <3>1, <3>2, NextPageCopiesNext, TakeCopiesNext,
               HeaderCopiesNext DEF WalInv
  <2>7. CASE ReturnRecord
    <3>1. CopiesNext'
      BY <2>7 DEF ReturnRecord, CopiesNext
    <3> QED BY <2>1, <2>2, <2>7, <3>1, ReturnSeeksNext, ReturnRecordsAreWal DEF WalInv
  <2>8. CASE ~FindSkipsPage /\ ~FindRecord /\ ~CopyNextPage /\ ~CopyTake /\ ~HeaderCopied
               /\ ~ReturnRecord
    <3>1. records' = records /\ pc' \notin {"copy_header", "copy_body"}
      BY <2>1, <2>8
         DEF Step, OpenFails, Open, LoadFirstPage, LoadNextRecord, FindReachesEnd,
             FindCannotLoad, CopyReachesEnd, HeaderEndsScan, DecodeFails, NothingToShow,
             ReadFileAgain, ReturnNone, ReturnErr, app
    <3>2. pc' \in {"open", "first_page", "idle", "find"} =>
            /\ pc \in {"open", "first_page", "idle", "find"}
            /\ UNCHANGED <<read_lsn, done>>
      BY <2>1, <2>8
         DEF Step, OpenFails, Open, LoadFirstPage, LoadNextRecord, FindReachesEnd,
             FindCannotLoad, CopyReachesEnd, HeaderEndsScan, DecodeFails, NothingToShow,
             ReadFileAgain, ReturnNone, ReturnErr, app
    <3>3. SeeksNext'
      BY <2>1, <2>2, <3>1, <3>2 DEF SeeksNext
    <3>4. CopiesNext'
      BY <3>1 DEF CopiesNext
    <3> QED BY <2>3, <3>1, <3>3, <3>4 DEF WalInv
  <2> QED BY <2>4, <2>5, <2>6, <2>7, <2>8
<1> QED BY <1>1, <1>2, <1>3 DEF LiveNext

LEMMA WalInvariant == LiveSpec => []FileIsWal /\ [](NeverAtSegmentEnd(wal) => WalInv)
<1>1. LiveSpec => [](ScanInv /\ Accounts /\ PointerInv /\ WorkingNotDone)
  <2>1. Init => WorkingNotDone
    BY DEF Init, ReaderInit, WorkingNotDone
  <2>2. Spec => []WorkingNotDone
    BY <2>1, NextWorkingNotDone, PTL DEF Spec
  <2> QED BY <2>2, ClosedIsOpen, PointerInvariant, PTL
<1>2. ScanInv /\ FileIsWal /\ [LiveNext]_LiveVars => FileIsWal'
  BY NextFileIsWal
<1>3. LiveSpec => []FileIsWal
  BY <1>1, <1>2, InitFileIsWal, PTL DEF LiveSpec
<1>4. /\ ScanInv /\ Accounts /\ PointerInv /\ WorkingNotDone /\ FileIsWal
      /\ NeverAtSegmentEnd(wal) => WalInv
      /\ [LiveNext]_LiveVars
      => (NeverAtSegmentEnd(wal) => WalInv)'
  <2> SUFFICES ASSUME ScanInv, Accounts, PointerInv, WorkingNotDone, FileIsWal,
                      NeverAtSegmentEnd(wal) => WalInv,
                      [LiveNext]_LiveVars, NeverAtSegmentEnd(wal')
               PROVE  WalInv'
    OBVIOUS
  <2>1. wal' = wal
    BY DEF LiveNext, ReaderSteps, ServerWrites, LiveVars, live
  <2> QED BY <2>1, NextWalInv
<1>5. LiveInit => (NeverAtSegmentEnd(wal) => WalInv)
  BY InitWalInv
<1> QED BY <1>1, <1>3, <1>4, <1>5, PTL DEF LiveSpec

(***************************************************************************)
(* RecordsAreWal holds of every segment and however the server's writing   *)
(* and the reader's interleave: the tails of earlier records, the padding  *)
(* and the page headers that load_next_record steps over are exactly what  *)
(* is not part of the next record, and a buffered page, however old, holds *)
(* nothing else than the WAL it is taken for.  NeverAtSegmentEnd leaves out*)
(* the segments of the run wrap_around.                                    *)
(***************************************************************************)
THEOREM RecordsAreOfWal == LiveSpec => [](NeverAtSegmentEnd(wal) => RecordsAreWal)
  BY WalInvariant, PTL DEF WalInv

-----------------------------------------------------------------------------
(* The dump of the file holds the records that were read from it.          *)

LEMMA FileCellGrows ==
  ASSUME NEW u \in Nat, NEW v \in Nat, u < v
  PROVE  FileCell(u) \in Nat /\ FileCell(u) < FileCell(v)
<1>1. PICK p \in Nat : \E o \in HeaderOf(p) .. Blcksz - 1 : u = ContentAt(p, o)
  BY PageOfContent
<1>2. PICK o \in HeaderOf(p) .. Blcksz - 1 : u = ContentAt(p, o)
  BY <1>1
<1>3. PICK q \in Nat : \E x \in HeaderOf(q) .. Blcksz - 1 : v = ContentAt(q, x)
  BY PageOfContent
<1>4. PICK x \in HeaderOf(q) .. Blcksz - 1 : v = ContentAt(q, x)
  BY <1>3
<1>5. /\ HeaderOf(p) \in Nat /\ HeaderOf(q) \in Nat /\ Blcksz \in Nat
      /\ o \in Nat /\ x \in Nat /\ o < Blcksz
  BY HeaderOfType, Segment
<1>6. /\ FileCell(u) = p * Blcksz + o /\ FileCell(v) = q * Blcksz + x
      /\ FirstContent(p) <= u /\ v < FirstContent(q + 1)
  BY <1>2, <1>4, FileCellOf
<1>7. p * Blcksz \in Nat /\ q * Blcksz \in Nat
  BY <1>5
<1>8. CASE p = q
  <2>1. FirstContent(p) \in Nat
    BY FirstContentNext
  <2>2. u = FirstContent(p) + (o - HeaderOf(p)) /\ v = FirstContent(p) + (x - HeaderOf(p))
    BY <1>2, <1>4, <1>5, <1>8, <2>1 DEF ContentAt
  <2>3. o < x
    BY <1>5, <2>1, <2>2
  <2> QED BY <1>5, <1>6, <1>7, <1>8, <2>3
<1>9. CASE p < q
  <2>1. (p + 1) * Blcksz <= q * Blcksz /\ (p + 1) * Blcksz = p * Blcksz + Blcksz
    BY <1>5, <1>9
  <2> QED BY <1>5, <1>6, <1>7, <2>1
<1>10. CASE q < p
  <2>1. /\ FirstContent(q + 1) <= FirstContent(p)
        /\ FirstContent(q + 1) \in Nat /\ FirstContent(p) \in Nat
    BY <1>10, FirstContentGrows, FirstContentNext
  <2> QED BY <1>6, <2>1
<1> QED BY <1>8, <1>9, <1>10

\* As many numbers as a growing function has arguments, and as many below each of them.
LEMMA Growing ==
  ASSUME NEW n \in Nat, NEW f \in [0 .. n - 1 -> Nat],
         \A i, j \in 0 .. n - 1 : i < j => f[i] < f[j]
  PROVE  LET S == {f[i] : i \in 0 .. n - 1} IN
         /\ Cardinality(S) = n
         /\ \A i \in 0 .. n - 1 : Cardinality({d \in S : d < f[i]}) = i
<1> DEFINE Below(m) == {f[i] : i \in 0 .. m - 1}
<1>1. ASSUME NEW m \in 0 .. n
      PROVE  Cardinality(Below(m)) = m
  <2> DEFINE D == 0 .. m - 1
             g == [i \in D |-> f[i]]
             T == Below(m)
  <2>1. m \in Nat /\ m - 1 \in Int /\ D \subseteq 0 .. n - 1
    OBVIOUS
  <2>2. IsFiniteSet(D) /\ Cardinality(D) = m
    BY SMTT(30), <2>1, FS_Interval
  <2>3. \A i, j \in D : f[i] = f[j] => i = j
    <3> SUFFICES ASSUME NEW i \in D, NEW j \in D, i # j PROVE f[i] # f[j]
      OBVIOUS
    <3>1. i \in 0 .. n - 1 /\ j \in 0 .. n - 1 /\ f[i] \in Nat /\ f[j] \in Nat
      BY <2>1
    <3>2. i < j \/ j < i
      BY <3>1
    <3> QED BY <3>1, <3>2
  <2>4. g \in [D -> T] /\ \A i \in D : g[i] = f[i]
    OBVIOUS
  <2>5. \A y \in T : \E i \in D : g[i] = y
    OBVIOUS
  <2> HIDE DEF D, g, T
  <2>6. g \in Bijection(D, T)
    BY <2>3, <2>4, <2>5 DEF Bijection, Injection, Surjection, IsInjective
  <2>7. Cardinality(T) = Cardinality(D)
    BY <2>2, <2>6, FS_Bijection DEF ExistsBijection
  <2> QED BY <2>2, <2>7 DEF T
<1>2. Cardinality(Below(n)) = n
  BY <1>1
<1>3. ASSUME NEW i \in 0 .. n - 1
      PROVE  Cardinality({d \in Below(n) : d < f[i]}) = i
  <2>1. i \in 0 .. n
    OBVIOUS
  <2>2. \A j \in 0 .. n - 1 : f[j] < f[i] <=> j \in 0 .. i - 1
    <3> SUFFICES ASSUME NEW j \in 0 .. n - 1 PROVE f[j] < f[i] <=> j \in 0 .. i - 1
      OBVIOUS
    <3>1. j < i \/ j = i \/ i < j
      OBVIOUS
    <3>2. f[i] \in Nat /\ f[j] \in Nat
      OBVIOUS
    <3> QED BY <3>1, <3>2
  <2>3. 0 .. i - 1 \subseteq 0 .. n - 1
    OBVIOUS
  <2>4. {d \in Below(n) : d < f[i]} = Below(i)
    BY <2>2, <2>3
  <2> QED BY <1>1, <2>1, <2>4
<1> QED BY <1>2, <1>3

\* The bytes of the second reading are the file as it is from then on.
DumpIsFile == pc = "viewing" => dump = FileContent(wal, flushed)

LEMMA NextDumpIsFile ==
  ASSUME FileIsWal, DumpIsFile, [LiveNext]_LiveVars
  PROVE  DumpIsFile'
<1>1. CASE ServerWrites
  BY <1>1 DEF ServerWrites, DumpIsFile, reader
<1>2. CASE ReaderSteps
  <2>1. Step /\ wal' = wal /\ flushed' = flushed
    BY <1>2 DEF ReaderSteps, live
  <2>2. CASE ReadFileAgain
    BY <2>1, <2>2 DEF ReadFileAgain, DumpIsFile, FileIsWal
  <2>3. CASE ~ReadFileAgain
    <3>1. pc' # "viewing"
      BY <2>1, <2>3
         DEF Step, OpenFails, Open, LoadFirstPage, LoadNextRecord, FindReachesEnd,
             FindCannotLoad, FindSkipsPage, FindRecord, FindOn, CopyReachesEnd, CopyNextPage,
             CopyTake, Copying, HeaderEndsScan, HeaderCopied, DecodeFails, ReturnRecord,
             NothingToShow, ReturnNone, ReturnErr
    <3> QED BY <3>1 DEF DumpIsFile
  <2> QED BY <2>2, <2>3
<1>3. CASE UNCHANGED LiveVars
  BY <1>3 DEF LiveVars, live, vars, reader, app, DumpIsFile
<1> QED BY <1>1, <1>2, <1>3 DEF LiveNext

LEMMA DumpOfCell ==
  ASSUME FileIsWal, DumpIsFile, pc = "viewing",
         NEW u \in Nat, u < flushed, FileCell(u) \div Blcksz # wal.fault_page
  PROVE  LET c == FileCell(u) IN
         /\ c \in DumpCells /\ c % Blcksz >= page_header_size(c)
         /\ dump[c \div Blcksz].body[c % Blcksz] = CellOf(wal, u)
<1> DEFINE c == FileCell(u)
<1>1. PICK p \in Nat : \E o \in HeaderOf(p) .. Blcksz - 1 : u = ContentAt(p, o)
  BY PageOfContent
<1>2. PICK o \in HeaderOf(p) .. Blcksz - 1 : u = ContentAt(p, o)
  BY <1>1
<1>3. /\ c = p * Blcksz + o /\ c \div Blcksz = p /\ c % Blcksz = o
      /\ FirstContent(p) <= u
  BY <1>2, FileCellOf
<1> HIDE DEF c
<1>4. /\ HeaderOf(p) \in Nat /\ Blcksz \in Nat /\ o \in Nat /\ o < Blcksz
      /\ o >= HeaderOf(p) /\ PagesPerSegment \in Nat
      /\ FirstContent(p) \in Nat /\ FirstContent(PagesPerSegment) \in Nat
  BY HeaderOfType, Segment, FirstContentNext, GeometryAssumption
<1>5. flushed \in Nat /\ flushed <= FirstContent(PagesPerSegment)
  <2>1. IsLayout(wal) /\ flushed \in 0 .. Written(wal)
    BY LayoutAssumption DEF FileIsWal, Stops
  <2>2. WalEnd(wal) \in Nat
    <3>1. Last(wal) \in 0 .. Last(wal)
      BY <2>1, LayoutType
    <3> QED BY <2>1, <3>1, RecordsInOrder DEF WalEnd
  <2> QED BY <1>4, <2>1, <2>2 DEF Written
<1>6. p < PagesPerSegment
  <2> SUFFICES ASSUME PagesPerSegment <= p PROVE FALSE
    BY <1>4
  <2>1. FirstContent(PagesPerSegment) <= FirstContent(p)
    <3>1. PagesPerSegment = p \/ PagesPerSegment < p
      BY <1>4
    <3> QED BY <1>4, <3>1, FirstContentGrows
  <2> QED BY <1>3, <1>4, <1>5, <2>1
<1>7. p \in PageNo /\ o \in Offset
  BY <1>4, <1>6 DEF PageNo, Offset
<1>8. c \in DumpCells
  <2>1. p * Blcksz \in Nat /\ PagesPerSegment * Blcksz \in Nat
        /\ p * Blcksz + Blcksz <= PagesPerSegment * Blcksz
    <3>1. (p + 1) * Blcksz <= PagesPerSegment * Blcksz /\ (p + 1) * Blcksz = p * Blcksz + Blcksz
      BY <1>4, <1>6
    <3> QED BY <1>4, <3>1
  <2> QED BY <1>3, <1>4, <2>1 DEF DumpCells, SegSize
<1>9. dump[p] = WrittenPage(wal, p, flushed)
  BY <1>3, <1>4, <1>5, <1>7 DEF DumpIsFile, FileContent
<1>10. header_size(dump[p]) = HeaderOf(p)
  <2>1. HoldsWal(dump[p], p)
    BY <1>3, <1>4, <1>5, <1>9 DEF HoldsWal, FileIsWal, c
  <2> QED BY <1>7, <2>1, WalPage DEF FileIsWal
<1>11. c % Blcksz >= page_header_size(c)
  BY <1>3, <1>4, <1>10 DEF page_header_size, header_size, is_long
<1>12. dump[p].body[o] = CellOf(wal, u)
  BY <1>2, <1>4, <1>7, <1>9, WrittenPageIs
<1> QED BY <1>3, <1>8, <1>11, <1>12 DEF c

LEMMA DumpHolds ==
  ASSUME FileIsWal, RecordsAreWal, RecordsWereRead, DumpIsFile
  PROVE  DumpHoldsRecords
<1> SUFFICES ASSUME pc = "viewing", NEW k \in 1 .. Len(records), records[k].crc_ok
             PROVE  LET cells == {c \in DumpCells :
                                    classify(c, records[k].file_ranges) = "Record"} IN
                    /\ Cardinality(cells) = Len(records[k].raw)
                    /\ \A c \in cells :
                         dump[c \div Blcksz].body[c % Blcksz]
                           = records[k].raw[1 + Cardinality({d \in cells : d < c})]
  BY DEF DumpHoldsRecords
<1> DEFINE ranges == records[k].file_ranges
           cells == {c \in DumpCells : classify(c, ranges) = "Record"}
           len == wal.lens[k]
           u == wal.start[k]
           f == [i \in 0 .. len - 1 |-> FileCell(u + i)]
<1>1. IsLayout(wal) /\ k \in 1 .. Last(wal)
  <2>1. IsLayout(wal)
    BY LayoutAssumption DEF FileIsWal
  <2>2. k \in WalRecords(wal)
    BY Zenon DEF RecordsAreWal
  <2> QED BY <2>1, <2>2 DEF WalRecords
<1>2. len \in Nat /\ u \in Nat
  BY <1>1, LayoutType, RecordsInOrder
<1>3. /\ records[k].raw = [i \in 1 .. len |-> RecordCell(k, len, i - 1, TRUE)]
      /\ CellsOf(ranges) = {FileCell(u + i) : i \in 0 .. len - 1}
  BY Zenon DEF RecordsAreWal
<1>4. \A i \in 0 .. len - 1 :
        LET c == FileCell(u + i) IN
        /\ c \in DumpCells /\ c % Blcksz >= page_header_size(c)
        /\ dump[c \div Blcksz].body[c % Blcksz] = RecordCell(k, len, i, TRUE)
  <2> TAKE i \in 0 .. len - 1
  <2>1. u + i \in Nat
    BY <1>2
  <2>2. /\ u + i < flushed /\ FileCell(u + i) \div Blcksz # wal.fault_page
        /\ CellOf(wal, u + i) = RecordCell(k, len, i, TRUE)
    BY DEF RecordsWereRead
  <2> HIDE DEF u, len
  <2> QED BY <2>1, <2>2, DumpOfCell
<1> HIDE DEF u, len, ranges
<1>5. cells = {f[i] : i \in 0 .. len - 1}
  <2>1. \A c \in DumpCells : classify(c, ranges) = "Record" =>
                               c \in CellsOf(ranges)
    BY DEF classify
  <2>2. \A c \in DumpCells : c \in CellsOf(ranges) /\ c % Blcksz >= page_header_size(c)
                               => classify(c, ranges) = "Record"
    <3>1. \A c \in DumpCells : c % Blcksz \in Int /\ page_header_size(c) \in Int
      BY Segment, GeometryAssumption DEF DumpCells, page_header_size
    <3> QED BY <3>1 DEF classify
  <2>3. cells \subseteq {FileCell(u + i) : i \in 0 .. len - 1}
    BY <1>3, <2>1
  <2>4. {FileCell(u + i) : i \in 0 .. len - 1} \subseteq cells
    BY <1>3, <1>4, <2>2
  <2> QED BY <2>3, <2>4
<1>6. f \in [0 .. len - 1 -> Nat] /\ \A i, j \in 0 .. len - 1 : i < j => f[i] < f[j]
  <2>1. \A i \in 0 .. len - 1 : f[i] = FileCell(u + i) /\ u + i \in Nat
    BY <1>2
  <2>2. \A i \in 0 .. len - 1 : f[i] \in Nat
    <3> TAKE i \in 0 .. len - 1
    <3>1. u + i \in Nat /\ u + i + 1 \in Nat /\ u + i < u + i + 1
      BY <1>2
    <3> QED BY <2>1, <3>1, FileCellGrows
  <2>3. ASSUME NEW i \in 0 .. len - 1, NEW j \in 0 .. len - 1, i < j
        PROVE  f[i] < f[j]
    <3>1. u + i \in Nat /\ u + j \in Nat /\ u + i < u + j
      BY <1>2, <2>3
    <3> QED BY <2>1, <3>1, FileCellGrows
  <2> QED BY <2>2, <2>3
<1> HIDE DEF cells
<1>7. /\ Cardinality(cells) = len
      /\ \A i \in 0 .. len - 1 : Cardinality({d \in cells : d < f[i]}) = i
  <2> HIDE DEF f
  <2> QED BY <1>2, <1>5, <1>6, Growing
<1>8. Len(records[k].raw) = len
  BY <1>2, <1>3
<1>9. ASSUME NEW c \in cells
      PROVE  dump[c \div Blcksz].body[c % Blcksz]
               = records[k].raw[1 + Cardinality({d \in cells : d < c})]
  <2>1. PICK i \in 0 .. len - 1 : c = f[i]
    BY <1>5, <1>9
  <2>2. Cardinality({d \in cells : d < c}) = i
    BY <1>7, <2>1
  <2>3. 1 + i \in 1 .. len /\ (1 + i) - 1 = i
    BY <1>2
  <2>4. records[k].raw[1 + i] = RecordCell(k, len, i, TRUE)
    BY <1>3, <2>3
  <2>5. dump[c \div Blcksz].body[c % Blcksz] = RecordCell(k, len, i, TRUE)
    BY <1>4, <2>1
  <2> QED BY <2>2, <2>4, <2>5
<1> QED BY <1>7, <1>8, <1>9 DEF cells, ranges

(***************************************************************************)
(* DumpHoldsRecords: whatever the server wrote between the scan and the    *)
(* second reading, it is only further on; what the scan copied is still    *)
(* there, behind the same page headers.                                    *)
(***************************************************************************)
THEOREM DumpShowsRecords == LiveSpec => [](NeverAtSegmentEnd(wal) => DumpHoldsRecords)
<1>1. LiveInit => DumpIsFile
  BY DEF LiveInit, ReaderInit, DumpIsFile
<1>2. FileIsWal /\ DumpIsFile /\ [LiveNext]_LiveVars => DumpIsFile'
  BY NextDumpIsFile
<1>3. LiveSpec => []FileIsWal /\ []DumpIsFile
  BY <1>1, <1>2, WalInvariant, PTL DEF LiveSpec
<1>4. FileIsWal /\ DumpIsFile /\ WalInv => DumpHoldsRecords
  BY DumpHolds DEF WalInv
<1> QED BY <1>3, <1>4, WalInvariant, PTL

-----------------------------------------------------------------------------
(* An undamaged segment whose writing is never seen half done.             *)

Quiet(w) == /\ Undamaged(w) /\ Uncut(w) /\ w.torn = {}
            /\ w.base = "zero" /\ w.pages > 0

LEMMA WrittenIsValid ==
  ASSUME NEW w, NEW p \in PageNo, NEW f, p # w.fault_page
  PROVE  validate_page_header(WrittenPage(w, p, f), p) = "none"
<1> DEFINE h == PageHeaderOf(w, p)
           page == WrittenPage(w, p, f)
<1>1. /\ page.magic_ok = h.magic_ok /\ page.xlp_info = h.xlp_info
      /\ page.xlp_pageaddr = h.xlp_pageaddr /\ page.xlp_tli = h.xlp_tli
  BY WrittenPageIs
<1>2. /\ h.magic_ok /\ h.xlp_info \subseteq Known /\ ("LONG_HEADER" \in h.xlp_info <=> p = 0)
      /\ h.xlp_pageaddr = page_start_lsn(p) /\ h.xlp_tli = Tli
  BY DEF PageHeaderOf, Known
<1> HIDE DEF page
<1>3. ~(is_long(page) # (p = 0))
  BY <1>1, <1>2 DEF is_long
<1>4. page.magic_ok /\ page.xlp_info \subseteq Known
      /\ page.xlp_pageaddr = page_start_lsn(p) /\ page.xlp_tli = Tli
  BY <1>1, <1>2
<1>5. validate_page_header(page, p) = "none"
  BY Zenon, <1>3, <1>4 DEF validate_page_header
<1> QED BY <1>5 DEF page

\* A page of the file is valid as soon as the server has started it, and empty until then.
LEMMA QuietPages ==
  ASSUME FileIsWal, Quiet(wal), NEW n \in PageNo
  PROVE  /\ flushed > FirstContent(n) => Valid(n)
         /\ Valid(n) \/ Zeroed(n)
<1>1. segment[n] = IF flushed > FirstContent(n) THEN WrittenPage(wal, n, flushed) ELSE ZeroPage
  BY DEF FileIsWal, FileContent, Quiet
<1>2. n # wal.fault_page
  BY GeometryAssumption DEF Quiet, Undamaged, PageNo, NO_PAGE
<1>3. CASE flushed > FirstContent(n)
  BY <1>1, <1>2, <1>3, WrittenIsValid DEF Valid
<1>4. CASE ~(flushed > FirstContent(n))
  BY <1>1, <1>4 DEF Zeroed, validate_page_header, ZeroPage
<1> QED BY <1>3, <1>4

LEMMA QuietFirstPage ==
  ASSUME FileIsWal, Quiet(wal), at_open > 0
  PROVE  /\ Valid(0) /\ file_pages > 0
         /\ segment[0].magic_ok /\ is_long(segment[0])
<1>1. 0 \in PageNo /\ FirstContent(0) = 0 /\ flushed > 0
  <2>1. flushed \in Nat
    BY StopsType DEF FileIsWal
  <2> QED BY <2>1, Segment DEF PageNo, FirstContent, FileIsWal
<1>2. Valid(0)
  BY <1>1, QuietPages
<1> QED BY <1>2 DEF FileIsWal, Quiet, Valid, validate_page_header

\* Writing that has reached a record has got to its end, or to the end of a page.
LEMMA StopBehind ==
  ASSUME NEW w, IsLayout(w), w.torn = {}, NEW k \in 1 .. Last(w), NEW f \in Stops(w),
         w.start[k] < f
  PROVE  f >= EndOf(w, k) \/ \E q \in Nat : f = FirstContent(q)
<1>1. k \in 0 .. Last(w) /\ Last(w) \in Nat
  BY LayoutType
<1>2. CASE \E q \in PageNo \cup {PagesPerSegment} : f = FirstContent(q)
  BY <1>2, GeometryAssumption DEF PageNo
<1>3. ASSUME NEW r \in DOMAIN w.lens, f = EndOf(w, r)
      PROVE  f >= EndOf(w, k)
  <2>1. r \in 0 .. Last(w)
    BY LayoutType
  <2>2. /\ EndOf(w, r) \in Nat /\ w.start[r] \in Int /\ w.start[r] <= EndOf(w, r)
        /\ EndOf(w, k) \in Nat /\ w.start[k] \in Int
        /\ r < k => EndOf(w, r) <= w.start[k]
        /\ k < r => EndOf(w, k) <= w.start[r]
    BY <1>1, <2>1, RecordsInOrder
  <2>3. r < k \/ r = k \/ k < r
    BY <1>1, <2>1
  <2> QED BY <1>3, <2>2, <2>3
<1> QED BY <1>2, <1>3 DEF Stops

\* The part of record k that is on the page is all there.
AllOn(page, n, k) ==
  \A o \in HeaderOf(n) .. Blcksz - 1 :
    wal.start[k] <= ContentAt(n, o) /\ ContentAt(n, o) < EndOf(wal, k)
      => page.body[o] = CellOf(wal, ContentAt(n, o))

LEMMA PageHasAll ==
  ASSUME FileIsWal, wal.torn = {}, NEW k \in 1 .. Last(wal), NEW n \in PageNo,
         NEW page, HoldsWal(page, n),
         \/ wal.start[k] <= FirstContent(n)
         \/ \E o \in HeaderOf(n) .. Blcksz - 1 :
              ContentAt(n, o) = wal.start[k] /\ page.body[o] # Zero
  PROVE  AllOn(page, n, k)
<1>1. PICK f \in Stops(wal) : FirstContent(n) < f /\ page = WrittenPage(wal, n, f)
  BY DEF HoldsWal
<1>2. IsLayout(wal) /\ f \in Nat /\ n \in Nat /\ FirstContent(n) \in Nat
  <2>1. IsLayout(wal) /\ f \in Nat
    BY LayoutAssumption, StopsType DEF FileIsWal
  <2>2. n \in Nat
    BY GeometryAssumption DEF PageNo
  <2> QED BY <2>1, <2>2, FirstContentNext
<1>3. ASSUME NEW o \in HeaderOf(n) .. Blcksz - 1
      PROVE  /\ page.body[o] = IF ContentAt(n, o) < f THEN CellOf(wal, ContentAt(n, o)) ELSE Zero
             /\ ContentAt(n, o) \in Nat /\ ContentAt(n, o) < FirstContent(n + 1)
  <2>1. o \in Offset /\ ~(o < HeaderOf(n))
    BY HeaderOfType, Segment DEF Offset
  <2> QED BY <1>1, <1>2, <2>1, WrittenPageIs, FileCellOf
<1>4. wal.start[k] \in Nat /\ EndOf(wal, k) \in Nat
  BY <1>2, LayoutType, RecordsInOrder
<1>5. wal.start[k] < f
  <2>1. CASE wal.start[k] <= FirstContent(n)
    BY <1>1, <1>2, <1>4, <2>1
  <2>2. ASSUME NEW o \in HeaderOf(n) .. Blcksz - 1,
               ContentAt(n, o) = wal.start[k], page.body[o] # Zero
        PROVE  wal.start[k] < f
    BY <1>3, <2>2
  <2> QED BY <2>1, <2>2
<1>6. CASE f >= EndOf(wal, k)
  BY <1>2, <1>3, <1>4, <1>6 DEF AllOn
<1>7. ASSUME NEW q \in Nat, f = FirstContent(q) PROVE AllOn(page, n, k)
  <2>1. n < q
    <3> SUFFICES ASSUME ~(n < q) PROVE FALSE
      OBVIOUS
    <3>1. q = n \/ q < n
      BY <1>2
    <3>2. CASE q = n
      BY <1>1, <1>2, <1>7, <3>2
    <3>3. CASE q < n
      <4>1. FirstContent(q) < FirstContent(n)
        BY <1>2, <3>3, FirstContentGrows
      <4> QED BY <1>1, <1>2, <1>7, <4>1
    <3> QED BY <3>1, <3>2, <3>3
  <2>2. FirstContent(n + 1) <= f /\ FirstContent(n + 1) \in Nat
    BY <1>2, <1>7, <2>1, FirstContentGrows, FirstContentNext
  <2> QED BY <1>2, <1>3, <2>2 DEF AllOn
<1> QED BY <1>2, <1>5, <1>6, <1>7, StopBehind

-----------------------------------------------------------------------------
(* No false alarm.                                                         *)

\* What has been copied of a record is all that is there of it.
CopiesWhole ==
  pc \in {"copy_header", "copy_body"} /\ Len(record_buffer) >= 1 /\ record_buffer[1] # Zero =>
    LET k == Len(records) + 1 IN
    /\ \A i \in 1 .. Len(record_buffer) : record_buffer[i] = CellOf(wal, wal.start[k] + i - 1)
    /\ AllOn(page_buffer, page_no, k)

LEMMA TakeWhole ==
  ASSUME ScanInv, Accounts, FileIsWal, Quiet(wal), RecordsAreWal, CopiesNext, CopiesWhole,
         CopyTake, wal' = wal
  PROVE  CopiesWhole'
<1> DEFINE k == Len(records) + 1
           u == wal.start[k]
           v == NextPos(wal, Len(records))
           L == Len(record_buffer)
           room == Blcksz - offset
           take == IF remaining < room THEN remaining ELSE room
<1>1. /\ offset \in Nat /\ page_no \in PageNo /\ offset >= HeaderOf(page_no)
      /\ L \in Nat /\ v \in Nat /\ take \in Nat \ {0} /\ take <= remaining
      /\ Len(record_buffer') = L + take
      /\ \A i \in 1 .. L : record_buffer'[i] = record_buffer[i]
      /\ \A i \in Nat : i < take =>
           /\ offset + i \in HeaderOf(page_no) .. Blcksz - 1
           /\ ContentAt(page_no, offset + i) = v + L + i
           /\ record_buffer'[L + i + 1] = page_buffer.body[offset + i]
  BY TakeReads
<1>2. /\ pc \in {"copy_header", "copy_body"} /\ remaining \in Nat
      /\ UNCHANGED <<pc, records, page_buffer, page_no>>
      /\ HoldsWal(page_buffer, page_no)
  BY DEF CopyTake, Copying, buffer, app, FileIsWal, Reading, ScanInv, TypeOK
<1>3. IsLayout(wal) /\ Len(records) \in 0 .. Last(wal)
  <2>1. IsLayout(wal) /\ records \in Seq(Record)
    BY LayoutAssumption DEF FileIsWal, ScanInv, TypeOK
  <2> QED BY <2>1, RecordCount
<1> HIDE DEF L, take, u, v, k
<1> SUFFICES ASSUME record_buffer'[1] # Zero
             PROVE  /\ \A i \in 1 .. L + take : record_buffer'[i] = CellOf(wal, u + i - 1)
                    /\ AllOn(page_buffer, page_no, k)
  BY <1>1, <1>2 DEF CopiesWhole, AllOn, u, k
<1>4. /\ k \in WalRecords(wal) /\ k \in 1 .. Last(wal) /\ u = v /\ wal.lens[k] \in Nat
      /\ L >= 1 => record_buffer[1] = RecordCell(k, wal.lens[k], 0, <<k, 0>> \notin wal.flipped)
      /\ AllOn(page_buffer, page_no, k)
  <2>1. CASE L >= 1
    <3>1. 1 \in 1 .. L /\ record_buffer[1] # Zero
      BY <1>1, <2>1
    <3>2. AllOn(page_buffer, page_no, k)
      BY <1>2, <2>1, <3>1 DEF CopiesWhole, L, k
    <3> QED BY <1>2, <2>1, <3>1, <3>2, FirstCell DEF L, k, u, v
  <2>2. CASE ~(L >= 1)
    <3>1. L = 0 /\ 0 \in Nat /\ 0 < take /\ offset + 0 = offset /\ v + L + 0 = v /\ L + 0 + 1 = 1
      BY <1>1, <2>2
    <3>2. /\ offset \in HeaderOf(page_no) .. Blcksz - 1 /\ ContentAt(page_no, offset) = v
          /\ page_buffer.body[offset] # Zero
      BY <1>1, <3>1
    <3>3. CellOf(wal, v) # Zero
      BY <1>1, <1>2, <3>2, WalPage DEF FileIsWal, ReadAt
    <3>4. k \in WalRecords(wal) /\ k \in 1 .. Last(wal) /\ u = v /\ wal.lens[k] \in Nat
      BY <1>3, <3>3, NextCell DEF k, u, v
    <3>5. AllOn(page_buffer, page_no, k)
      BY <1>1, <1>2, <3>2, <3>4, PageHasAll DEF Quiet, u
    <3> QED BY <2>2, <3>4, <3>5
  <2> QED BY <2>1, <2>2
<1>5. u + L + take <= EndOf(wal, k) /\ EndOf(wal, k) \in Nat
  <2>1. EndOf(wal, k) = u + wal.lens[k]
    BY <1>4 DEF Quiet, Uncut, EndOf, u
  <2>2. L + remaining <= wal.lens[k]
    <3>1. CASE pc = "copy_header"
      <4>1. L + remaining = RecHdr
        BY <3>1 DEF ScanInv, ScanState, L
      <4>2. RecHdr <= wal.lens[k]
        BY <1>3, <1>4, LayoutType DEF LengthInRange
      <4> QED BY <4>1, <4>2
    <3>2. CASE pc = "copy_body"
      <4>1. L + remaining = tot_len /\ tot_len \in TotLens(record_buffer[1]) /\ RecHdr <= L
        BY <3>2 DEF ScanInv, ScanState, CopiesNext, L
      <4>2. L >= 1
        BY <1>1, <4>1, GeometryAssumption
      <4>3. record_buffer[1] = RecordCell(k, wal.lens[k], 0, TRUE)
        BY <1>4, <4>2 DEF Quiet, Undamaged
      <4>4. tot_len = wal.lens[k]
        BY <4>1, <4>3 DEF TotLens, RecordCell, Zero
      <4> QED BY <1>4, <4>1, <4>4
    <3> QED BY <1>2, <3>1, <3>2
  <2>3. /\ L \in Nat /\ take \in Nat /\ take <= remaining /\ remaining \in Nat
        /\ u \in Nat /\ wal.lens[k] \in Nat
    BY <1>1, <1>2, <1>4
  <2> QED BY <2>1, <2>2, <2>3
<1>6. ASSUME NEW i \in 1 .. L + take
      PROVE  record_buffer'[i] = CellOf(wal, u + i - 1)
  <2>1. CASE i <= L
    <3>1. i \in 1 .. L /\ 1 \in 1 .. L /\ L >= 1
      BY <1>1, <2>1
    <3>2. record_buffer[1] # Zero
      BY <1>1, <3>1
    <3>3. record_buffer[i] = CellOf(wal, u + i - 1)
      BY <1>2, <3>1, <3>2 DEF CopiesWhole, L, u, k
    <3> QED BY <1>1, <3>1, <3>3
  <2>2. CASE ~(i <= L)
    <3> DEFINE m == i - L - 1
    <3>1. /\ m \in Nat /\ m < take /\ L + m + 1 = i /\ v + L + m = u + i - 1
          /\ u <= v + L + m /\ v + L + m < EndOf(wal, k)
      <4>1. /\ i \in Nat /\ i >= 1 /\ i <= L + take /\ L \in Nat /\ take \in Nat
            /\ u = v /\ v \in Nat
        BY <1>1, <1>4
      <4> QED BY <1>5, <2>2, <4>1
    <3> HIDE DEF m
    <3>2. /\ offset + m \in HeaderOf(page_no) .. Blcksz - 1
          /\ ContentAt(page_no, offset + m) = v + L + m
          /\ record_buffer'[i] = page_buffer.body[offset + m]
      BY <1>1, <3>1
    <3> QED BY <1>4, <3>1, <3>2 DEF AllOn, u
  <2> QED BY <2>1, <2>2
<1> QED BY <1>4, <1>6

LEMMA NextPageWhole ==
  ASSUME ScanInv, FileIsWal, Quiet(wal), RecordsAreWal, CopiesNext, CopiesWhole,
         CopyNextPage, wal' = wal
  PROVE  CopiesWhole'
<1> DEFINE k == Len(records) + 1
           n == page_no + 1
           L == Len(record_buffer)
<1>1. /\ pc \in {"copy_header", "copy_body"} /\ offset = Blcksz /\ page_no \in Nat
      /\ n < PageLimit /\ Valid(n) /\ page_no' = n /\ page_buffer' = segment[n]
      /\ UNCHANGED <<pc, records, record_buffer>>
  BY DEF CopyNextPage, Copying, load_page, Valid, ScanInv, TypeOK, BufferedPageIsValid, Reading, app
<1>2. n \in PageNo /\ n \in Nat
  BY <1>1, PageLimitType, GeometryAssumption DEF ScanInv, PageNo
<1>3. HoldsWal(segment[n], n)
  BY <1>1, <1>2, ValidIsWal DEF FileIsWal
<1> SUFFICES ASSUME L >= 1, record_buffer[1] # Zero
             PROVE  AllOn(segment[n], n, k)
  BY <1>1 DEF CopiesWhole, AllOn
<1>4. /\ k \in 1 .. Last(wal) /\ wal.start[k] \in Nat
      /\ wal.start[k] = NextPos(wal, Len(records))
  BY <1>1, FirstCell
<1>5. wal.start[k] <= FirstContent(n)
  <2>1. ContentAt(page_no, Blcksz) = wal.start[k] + L /\ L \in Nat
    BY <1>1, <1>4, LenProperties DEF CopiesNext, ScanInv, TypeOK
  <2>2. /\ FirstContent(n) = FirstContent(page_no) + (Blcksz - HeaderOf(page_no))
        /\ FirstContent(page_no) \in Nat /\ HeaderOf(page_no) \in Nat /\ Blcksz \in Nat
    BY <1>1, FirstContentNext, HeaderOfType, GeometryAssumption
  <2>3. ContentAt(page_no, Blcksz) = FirstContent(page_no) + Blcksz - HeaderOf(page_no)
    BY DEF ContentAt
  <2> HIDE DEF k, n, L
  <2> QED BY <1>4, <2>1, <2>2, <2>3
<1> HIDE DEF k, n, L
<1> QED BY <1>2, <1>3, <1>4, <1>5, PageHasAll DEF Quiet

\* A length in a record header that has been copied is that of the record, or none yet.
LEMMA QuietHeader ==
  ASSUME ScanInv, FileIsWal, Quiet(wal), RecordsAreWal, CopiesNext,
         pc = "copy_header", remaining = 0, NEW len \in TotLens(record_buffer[1])
  PROVE  len = 0 \/ LengthInRange(len)
<1>1. Len(record_buffer) >= 1
  <2>1. Len(record_buffer) + 0 = RecHdr /\ Len(record_buffer) \in Nat
    BY LenProperties DEF ScanInv, ScanState, TypeOK
  <2> QED BY <2>1, GeometryAssumption
<1>2. CASE record_buffer[1] = Zero
  BY <1>2 DEF TotLens
<1>3. CASE record_buffer[1] # Zero
  <2> DEFINE k == Len(records) + 1
  <2>1. k \in 1 .. Last(wal) /\ record_buffer[1] = RecordCell(k, wal.lens[k], 0, TRUE)
    BY <1>1, <1>3, FirstCell DEF Quiet, Undamaged
  <2> HIDE DEF k
  <2>2. len = wal.lens[k]
    BY <2>1 DEF TotLens, RecordCell, Zero
  <2> QED BY <2>1, <2>2, LayoutAssumption, LayoutType DEF FileIsWal
<1> QED BY <1>2, <1>3

\* Cells that are all of a sound record pass its checksum.
LEMMA CopiedIsGood ==
  ASSUME IsLayout(wal), wal.flipped = {}, NEW k \in 1 .. Last(wal), ~Aborted(wal, k),
         NEW buf, Len(buf) = wal.lens[k],
         \A i \in 1 .. Len(buf) : buf[i] = CellOf(wal, wal.start[k] + i - 1)
  PROVE  /\ \A i \in 1 .. Len(buf) : buf[i] = RecordCell(k, Len(buf), i - 1, TRUE)
         /\ verify_record_crc(buf)
<1> DEFINE L == Len(buf)
           u == wal.start[k]
<1>1. /\ k \in 0 .. Last(wal) /\ u \in Nat /\ L \in Nat /\ L > 0
      /\ EndOf(wal, k) = u + L
  BY LayoutType, RecordsInOrder DEF EndOf
<1> HIDE DEF L, u
<1>2. \A i \in 1 .. L : buf[i] = RecordCell(k, L, i - 1, TRUE)
  <2> TAKE i \in 1 .. L
  <2> DEFINE x == u + i - 1
  <2>1. x \in Int /\ u <= x /\ x < u + L /\ x - u = i - 1
    BY <1>1
  <2> HIDE DEF x
  <2>2. CellOf(wal, x) = RecordCell(k, L, x - u, TRUE)
    BY <1>1, <2>1, CellOfRecord DEF Holds, u, L
  <2> QED BY <2>1, <2>2 DEF x, u, L
<1>3. buf[1].kind = "record" /\ buf[1].rec = k
  <2>1. 1 \in 1 .. L
    BY <1>1
  <2>2. buf[1] = RecordCell(k, L, 1 - 1, TRUE)
    BY <1>2, <2>1
  <2> QED BY <2>2 DEF RecordCell
<1> QED BY <1>2, <1>3 DEF verify_record_crc, L

\* A record that has been copied is good, and decodes.
LEMMA QuietRecord ==
  ASSUME ScanInv, FileIsWal, Quiet(wal), RecordsAreWal, CopiesNext, CopiesWhole,
         pc = "copy_body", remaining = 0
  PROVE  verify_record_crc(record_buffer) /\ DecodeOutcomes(record_buffer) = {TRUE}
<1> DEFINE k == Len(records) + 1
           L == Len(record_buffer)
           u == wal.start[k]
<1>1. /\ L = tot_len /\ tot_len \in TotLens(record_buffer[1]) /\ RecHdr <= L
      /\ L \in Nat /\ RecHdr \in Nat \ {0} /\ L >= 1
  <2>1. /\ L + 0 = tot_len /\ tot_len \in TotLens(record_buffer[1]) /\ RecHdr <= L
        /\ L \in Nat /\ RecHdr \in Nat \ {0}
    BY LenProperties, GeometryAssumption DEF ScanInv, ScanState, TypeOK, CopiesNext
  <2> HIDE DEF L
  <2> QED BY <2>1
<1>2. record_buffer[1] # Zero
  BY <1>1 DEF TotLens
<1>3. /\ k \in 1 .. Last(wal) /\ k \in WalRecords(wal) /\ u \in Nat /\ wal.lens[k] \in Nat
      /\ record_buffer[1] = RecordCell(k, wal.lens[k], 0, TRUE)
  BY <1>1, <1>2, FirstCell DEF Quiet, Undamaged
<1>4. L = wal.lens[k]
  BY <1>1, <1>3 DEF TotLens, RecordCell, Zero
<1>5. \A i \in 1 .. L : record_buffer[i] = CellOf(wal, u + i - 1)
  BY <1>1, <1>2 DEF CopiesWhole
<1>6. IsLayout(wal) /\ wal.flipped = {} /\ ~Aborted(wal, k)
  BY <1>3, LayoutAssumption DEF Quiet, Undamaged, Uncut, FileIsWal
<1>7. /\ \A i \in 1 .. L : record_buffer[i] = RecordCell(k, L, i - 1, TRUE)
      /\ verify_record_crc(record_buffer)
  BY <1>3, <1>4, <1>5, <1>6, CopiedIsGood
<1> HIDE DEF k, L, u
<1>8. DecodeOutcomes(record_buffer) = {TRUE}
  <2>1. CASE L = RecHdr
    BY <2>1 DEF DecodeOutcomes, L
  <2>2. CASE L # RecHdr
    <3>1. RecHdr + 1 \in 1 .. L /\ (RecHdr + 1) - 1 = RecHdr
      BY <1>1, <2>2
    <3>2. record_buffer[RecHdr + 1] = RecordCell(k, L, RecHdr, TRUE)
      BY <1>7, <3>1
    <3> DEFINE d == record_buffer[RecHdr + 1]
    <3>3. d.kind = "record" /\ d.good /\ d.idx = RecHdr /\ d.tot_len = L
      BY <3>2 DEF RecordCell
    <3> QED BY Zenon, <3>3 DEF DecodeOutcomes, L
  <2> QED BY <2>1, <2>2
<1> QED BY <1>7, <1>8


\* Nothing to complain of.
NoAlarm == stop_reason = "none" /\ \A k \in 1 .. Len(records) : records[k].crc_ok

AlarmInv == Quiet(wal) /\ at_open > 0 => CopiesWhole /\ NoAlarm

LEMMA NextAlarmInv ==
  ASSUME ScanInv, Accounts, FileIsWal, WalInv, Quiet(wal), at_open > 0,
         CopiesWhole, NoAlarm, [LiveNext]_LiveVars
  PROVE  CopiesWhole' /\ NoAlarm'
<1>1. CASE ServerWrites \/ UNCHANGED LiveVars
  BY <1>1 DEF ServerWrites, LiveVars, vars, live, reader, buffer, locals, app,
              CopiesWhole, AllOn, NoAlarm
<1>2. CASE ReaderSteps
  <2>1. Step /\ wal' = wal
    BY <1>2 DEF ReaderSteps, live
  <2>2. RecordsAreWal /\ CopiesNext
    BY DEF WalInv
  <2>3. \A n \in PageNo : Valid(n) \/ Zeroed(n)
    BY QuietPages
  <2>4. /\ Valid(0) /\ file_pages > 0 /\ segment[0].magic_ok /\ is_long(segment[0])
    BY QuietFirstPage
  <2>5. "none" \notin Errors
    BY DEF Errors
  <2>6. CASE CopyTake
    BY <2>1, <2>2, <2>6, TakeWhole DEF CopyTake, app, NoAlarm
  <2>7. CASE CopyNextPage
    BY <2>1, <2>2, <2>7, NextPageWhole DEF CopyNextPage, app, NoAlarm
  <2>8. CASE HeaderCopied
    BY <2>1, <2>8 DEF HeaderCopied, buffer, app, NoAlarm, CopiesWhole, AllOn
  <2>9. CASE FindRecord
    <3>1. Len(record_buffer') = 0
      BY <2>9 DEF FindRecord
    <3>2. CopiesWhole'
      BY <3>1 DEF CopiesWhole
    <3> QED BY <2>9, <3>2 DEF FindRecord, FindOn, app, NoAlarm
  <2>10. CASE ReturnRecord
    <3>1. pc = "copy_body" /\ remaining = 0 /\ pc' = "idle" /\ stop_reason' = stop_reason
      BY <2>10 DEF ReturnRecord
    <3>2. verify_record_crc(record_buffer)
      BY <2>2, <3>1, QuietRecord
    <3> DEFINE r == [lsn |-> record_lsn, raw |-> record_buffer,
                     crc_ok |-> verify_record_crc(record_buffer), file_ranges |-> file_ranges]
    <3>3. records \in Seq(Record) /\ records' = Append(records, r) /\ r.crc_ok
      BY <2>10, <3>2 DEF ReturnRecord, ScanInv, TypeOK
    <3> HIDE DEF r
    <3>4. NoAlarm'
      <4>1. \A k \in 1 .. Len(records') :
              records'[k] = IF k <= Len(records) THEN records[k] ELSE r
        BY <3>3
      <4>2. \A k \in 1 .. Len(records') : records'[k].crc_ok
        <5> TAKE k \in 1 .. Len(records')
        <5>1. CASE k <= Len(records)
          <6>1. k \in 1 .. Len(records)
            BY <3>3, <5>1
          <6> QED BY <4>1, <5>1, <6>1 DEF NoAlarm
        <5>2. CASE ~(k <= Len(records))
          BY <3>3, <4>1, <5>2
        <5> QED BY <5>1, <5>2
      <4> QED BY <3>1, <4>2 DEF NoAlarm
    <3> QED BY <3>1, <3>4 DEF CopiesWhole
  <2>11. CASE ~CopyTake /\ ~CopyNextPage /\ ~HeaderCopied /\ ~FindRecord /\ ~ReturnRecord
    <3>1. pc' \notin {"copy_header", "copy_body"} /\ records' = records
      BY <2>1, <2>11
         DEF Step, OpenFails, Open, LoadFirstPage, LoadNextRecord, FindReachesEnd,
             FindCannotLoad, FindSkipsPage, FindOn, CopyReachesEnd, HeaderEndsScan, DecodeFails,
             NothingToShow, ReadFileAgain, ReturnNone, ReturnErr, app
    <3>2. stop_reason' = stop_reason
      <4>1. CASE OpenFails
        BY <2>4, <2>5, <4>1 DEF OpenFails
      <4>2. CASE LoadFirstPage
        BY <2>4, <4>2 DEF LoadFirstPage, app
      <4>3. CASE FindCannotLoad
        <5> DEFINE n == lsn_to_page_no(read_lsn)
        <5>1. n \in PageNo
          BY PageOfLsn DEF ScanInv, TypeOK
        <5>2. Zeroed(n)
          BY <2>3, <4>3, <5>1 DEF FindCannotLoad
        <5> HIDE DEF n
        <5> QED BY <4>3, <5>2 DEF FindCannotLoad, ReturnNone, app, n
      <4>4. CASE CopyReachesEnd
        <5> DEFINE n == page_no + 1
        <5>1. n >= PageLimit \/ n \in PageNo
          BY <4>4, PageLimitType, GeometryAssumption
             DEF CopyReachesEnd, Copying, ScanInv, TypeOK, BufferedPageIsValid, Reading, PageNo
        <5>2. n \in PageNo => Valid(n) \/ Zeroed(n)
          BY <2>3
        <5> HIDE DEF n
        <5>3. \/ n >= PageLimit /\ ReturnNone
              \/ n < PageLimit /\ ~Valid(n) /\ ((Zeroed(n) /\ ReturnNone) \/ ~Zeroed(n))
          BY <4>4 DEF CopyReachesEnd, n
        <5>4. PageLimit \in Nat /\ n \in Nat
          BY <4>4, PageLimitType
             DEF CopyReachesEnd, Copying, ScanInv, TypeOK, BufferedPageIsValid, Reading, n
        <5>5. ReturnNone
          BY <5>1, <5>2, <5>3, <5>4
        <5> QED BY <5>5 DEF ReturnNone, app
      <4>5. CASE HeaderEndsScan
        <5>1. PICK len \in TotLens(record_buffer[1]) :
                \/ len = 0 /\ ReturnNone
                \/ len # 0 /\ ~LengthInRange(len)
          BY <4>5 DEF HeaderEndsScan
        <5>2. pc = "copy_header" /\ remaining = 0
          BY <4>5 DEF HeaderEndsScan
        <5> QED BY <2>2, <5>1, <5>2, QuietHeader DEF ReturnNone, app
      <4>6. CASE DecodeFails
        <5>1. pc = "copy_body" /\ remaining = 0 /\ FALSE \in DecodeOutcomes(record_buffer)
          BY <4>6 DEF DecodeFails
        <5>2. DecodeOutcomes(record_buffer) = {TRUE}
          BY <2>2, <5>1, QuietRecord
        <5> QED BY <5>1, <5>2
      <4> QED BY <2>1, <2>11, <4>1, <4>2, <4>3, <4>4, <4>5, <4>6
              DEF Step, Open, LoadNextRecord, FindReachesEnd, FindSkipsPage, FindOn,
                  NothingToShow, ReadFileAgain, ReturnNone, app
    <3> QED BY <3>1, <3>2 DEF CopiesWhole, NoAlarm
  <2> QED BY <2>6, <2>7, <2>8, <2>9, <2>10, <2>11
<1> QED BY <1>1, <1>2 DEF LiveNext

(***************************************************************************)
(* NoFalseAlarm: a record that is only partly in the buffered page has     *)
(* none of its first cell there, so that it ends the scan as what has not  *)
(* been written yet; one that has begun to be copied is copied whole, page *)
(* after page, however much later the server wrote those.                  *)
(***************************************************************************)
THEOREM NoAlarmOnSoundFile == LiveSpec => [](NeverAtSegmentEnd(wal) => NoFalseAlarm)
<1>1. LiveInit => (NeverAtSegmentEnd(wal) => AlarmInv)
  BY DEF LiveInit, ReaderInit, AlarmInv, CopiesWhole, NoAlarm
<1>2. /\ ScanInv /\ Accounts /\ FileIsWal /\ (NeverAtSegmentEnd(wal) => WalInv)
      /\ (NeverAtSegmentEnd(wal) => AlarmInv)
      /\ [LiveNext]_LiveVars
      => (NeverAtSegmentEnd(wal) => AlarmInv)'
  <2> SUFFICES ASSUME ScanInv, Accounts, FileIsWal, NeverAtSegmentEnd(wal) => WalInv,
                      NeverAtSegmentEnd(wal) => AlarmInv, [LiveNext]_LiveVars,
                      NeverAtSegmentEnd(wal'), Quiet(wal'), at_open' > 0
               PROVE  CopiesWhole' /\ NoAlarm'
    BY DEF AlarmInv
  <2>1. wal' = wal /\ at_open' = at_open
    BY DEF LiveNext, ReaderSteps, ServerWrites, LiveVars, live
  <2> QED BY <2>1, NextAlarmInv DEF AlarmInv
<1>3. LiveSpec => [](ScanInv /\ Accounts)
  BY ClosedIsOpen, PointerInvariant, PTL
<1>4. LiveSpec => [](NeverAtSegmentEnd(wal) => AlarmInv)
  BY <1>1, <1>2, <1>3, WalInvariant, PTL DEF LiveSpec
<1>5. AlarmInv => NoFalseAlarm
  BY DEF AlarmInv, Quiet, NoFalseAlarm, NoAlarm
<1> QED BY <1>4, <1>5, PTL

-----------------------------------------------------------------------------
(* A damaged page header is reported.                                      *)

\* The damage the scan cannot get past: nothing else stops it before.
Hurt(w) == /\ w.flipped = {} /\ w.fault_page \in 0 .. w.pages - 1
           /\ Uncut(w) \/ w.fault_page <= w.cut

BeforeOpen == at_open > FirstContent(wal.fault_page)

LEMMA HurtPages ==
  ASSUME FileIsWal, Hurt(wal), BeforeOpen
  PROVE  /\ wal.fault_page \in PageNo /\ wal.fault_page \in Nat /\ wal.fault_page < wal.pages
         /\ \A n \in PageNo :
              /\ n < wal.fault_page => Valid(n)
              /\ n = wal.fault_page => ~Valid(n) /\ ~Zeroed(n)
<1>1. /\ IsLayout(wal) /\ wal.pages \in 0 .. PagesPerSegment /\ flushed \in Nat /\ at_open \in Nat
      /\ at_open <= flushed
  BY LayoutAssumption, StopsType DEF FileIsWal, IsLayout
<1>2. wal.fault_page \in PageNo /\ wal.fault_page \in Nat /\ wal.fault_page < wal.pages
  BY <1>1, GeometryAssumption DEF Hurt, PageNo
<1>3. \A n \in PageNo : n <= wal.fault_page => segment[n] = WrittenPage(wal, n, flushed)
  <2> TAKE n \in PageNo
  <2> SUFFICES ASSUME n <= wal.fault_page PROVE segment[n] = WrittenPage(wal, n, flushed)
    OBVIOUS
  <2>1. n \in Nat /\ FirstContent(n) \in Nat /\ FirstContent(wal.fault_page) \in Nat
    BY <1>2, FirstContentNext, GeometryAssumption DEF PageNo
  <2>2. FirstContent(n) <= FirstContent(wal.fault_page)
    <3>1. n = wal.fault_page \/ n < wal.fault_page
      BY <1>2, <2>1
    <3>2. CASE n = wal.fault_page
      BY <2>1, <3>2
    <3>3. CASE n < wal.fault_page
      BY <1>2, <2>1, <3>3, FirstContentGrows
    <3> QED BY <3>1, <3>2, <3>3
  <2>3. flushed > FirstContent(n)
    BY <1>1, <2>1, <2>2 DEF BeforeOpen
  <2> QED BY <2>3 DEF FileIsWal, FileContent
<1>4. ASSUME NEW n \in PageNo, n < wal.fault_page PROVE Valid(n)
  <2>1. n # wal.fault_page /\ segment[n] = WrittenPage(wal, n, flushed)
    BY <1>2, <1>3, <1>4, GeometryAssumption DEF PageNo
  <2> QED BY <2>1, WrittenIsValid DEF Valid
<1>5. ~Valid(wal.fault_page) /\ ~Zeroed(wal.fault_page)
  <2> DEFINE p == wal.fault_page
             page == WrittenPage(wal, p, flushed)
  <2>1. segment[p] = page
    BY <1>2, <1>3
  <2>2. validate_page_header(page, p) # "none"
    BY <1>1, <1>2, DamageShows
  <2>3. page.zeroed = FALSE
    <3>1. page.zeroed = Damaged(PageHeaderOf(wal, p), wal.fault).zeroed
      BY <1>2, WrittenPageIs
    <3>2. wal.fault \in PageFaults
      BY <1>1 DEF IsLayout
    <3> QED BY <3>1, <3>2 DEF Damaged, PageHeaderOf, PageFaults
  <2>4. validate_page_header(page, p) # "ZeroedPage"
    BY <2>3 DEF validate_page_header
  <2> QED BY <2>1, <2>2, <2>4 DEF Valid, Zeroed
<1> QED BY <1>2, <1>4, <1>5

\* Pages whose content begins no later than that of the damaged one.
LEMMA NotBehind ==
  ASSUME NEW n \in Nat, NEW p \in Nat, FirstContent(n) <= FirstContent(p)
  PROVE  n <= p
<1> SUFFICES ASSUME p < n PROVE FALSE
  OBVIOUS
<1>1. FirstContent(p) < FirstContent(n) /\ FirstContent(p) \in Nat /\ FirstContent(n) \in Nat
  BY FirstContentGrows, FirstContentNext
<1> QED BY <1>1

\* Before the damaged page the reader copies what is there.
LEMMA ExactCells ==
  ASSUME ScanInv, Accounts, FileIsWal, Hurt(wal), BeforeOpen, RecordsAreWal, CopiesNext,
         pc \in {"copy_header", "copy_body"}, page_no < wal.fault_page
  PROVE  LET u == NextPos(wal, Len(records)) IN
         /\ u \in Nat /\ u + Len(record_buffer) <= FirstContent(wal.fault_page)
         /\ \A i \in 1 .. Len(record_buffer) : record_buffer[i] = CellOf(wal, u + i - 1)
<1> DEFINE u == NextPos(wal, Len(records))
           L == Len(record_buffer)
           F == FirstContent(wal.fault_page)
<1>1. /\ page_no \in PageNo /\ page_no \in Nat /\ offset \in Nat /\ offset <= Blcksz
      /\ Blcksz \in Nat /\ L \in Nat /\ at_open \in Nat
  BY GeometryAssumption, LenProperties
     DEF ScanInv, TypeOK, BufferedPageIsValid, Reading, PageNo, FileIsWal
<1>2. u \in Nat
  <2>1. IsLayout(wal) /\ records \in Seq(Record)
    BY LayoutAssumption DEF FileIsWal, ScanInv, TypeOK
  <2> QED BY <2>1, RecordCount, RecordsInOrder
<1>3. /\ FirstContent(page_no) \in Nat /\ HeaderOf(page_no) \in Nat /\ F \in Nat
      /\ FirstContent(page_no) + (Blcksz - HeaderOf(page_no)) <= F
  BY <1>1, HurtPages, FirstContentNext, FirstContentGrows, HeaderOfType
<1>4. FirstContent(page_no) + offset - HeaderOf(page_no) = u + L
  BY DEF CopiesNext, ContentAt
<1>5. \A i \in 1 .. L : ReadAt(record_buffer[i], u + i - 1)
  BY DEF CopiesNext
<1>6. at_open > F
  BY DEF BeforeOpen
<1> HIDE DEF u, L, F
<1>7. u + L <= F
  BY <1>1, <1>2, <1>3, <1>4
<1>8. \A i \in 1 .. L : record_buffer[i] = CellOf(wal, u + i - 1)
  <2> TAKE i \in 1 .. L
  <2>1. ~(at_open <= u + i - 1)
    BY <1>1, <1>2, <1>3, <1>6, <1>7
  <2> QED BY <1>5, <2>1 DEF ReadAt
<1> QED BY <1>2, <1>7, <1>8 DEF u, L, F

\* There is a record before the damaged page, if the reader gets a header from there.
LEMMA HurtHeader ==
  ASSUME ScanInv, Accounts, FileIsWal, Hurt(wal), BeforeOpen, RecordsAreWal, CopiesNext,
         pc \in {"copy_header", "copy_body"}, page_no < wal.fault_page,
         Len(record_buffer) >= 1
  PROVE  record_buffer[1] # Zero
<1> DEFINE n == Len(records)
           u == NextPos(wal, n)
<1> SUFFICES ASSUME record_buffer[1] = Zero PROVE FALSE
  OBVIOUS
<1>1. /\ IsLayout(wal) /\ n \in 0 .. Last(wal) /\ Last(wal) \in Nat /\ n \in Nat
      /\ Len(record_buffer) \in Nat
  <2>1. IsLayout(wal) /\ records \in Seq(Record) /\ record_buffer \in Seq(Cell)
    BY LayoutAssumption DEF FileIsWal, ScanInv, TypeOK
  <2> QED BY <2>1, RecordCount, LenProperties, LayoutType
<1>2. u \in Nat /\ u < FirstContent(wal.fault_page) /\ record_buffer[1] = CellOf(wal, u)
  <2>1. /\ u \in Nat /\ u + Len(record_buffer) <= FirstContent(wal.fault_page)
        /\ \A i \in 1 .. Len(record_buffer) : record_buffer[i] = CellOf(wal, u + i - 1)
    BY ExactCells
  <2>2. FirstContent(wal.fault_page) \in Nat
    BY HurtPages, FirstContentNext
  <2> HIDE DEF u
  <2>3. record_buffer[1] = CellOf(wal, u)
    <3>1. 1 \in 1 .. Len(record_buffer) /\ u + 1 - 1 = u
      BY <1>1, <2>1
    <3> QED BY <2>1, <3>1
  <2> QED BY <1>1, <2>1, <2>2, <2>3
<1>3. CASE n = Last(wal)
  <2>1. /\ WalEnd(wal) <= u /\ WalEnd(wal) \in Nat
    BY <1>1, <1>3, RecordsInOrder DEF WalEnd
  <2>2. /\ flushed \in 0 .. Written(wal) /\ at_open <= flushed /\ at_open \in Nat
        /\ FirstContent(PagesPerSegment) \in Nat
    BY FirstContentNext, GeometryAssumption DEF FileIsWal, Stops
  <2>3. at_open <= WalEnd(wal)
    BY <2>1, <2>2 DEF Written
  <2>4. FirstContent(wal.fault_page) \in Nat
    BY HurtPages, FirstContentNext
  <2> HIDE DEF u
  <2> QED BY <1>2, <2>1, <2>2, <2>3, <2>4 DEF BeforeOpen
<1>4. CASE n # Last(wal)
  <2> DEFINE k == n + 1
  <2>1. k \in 1 .. Last(wal) /\ k \in 0 .. Last(wal) /\ k # 0 /\ k - 1 = n
    BY <1>1, <1>4
  <2> HIDE DEF k
  <2>2. u = wal.start[k]
    BY <1>1, <2>1, LayoutType
  <2>3. Holds(wal, k, u)
    BY <1>1, <1>2, <2>1, <2>2, RecordsInOrder DEF Holds
  <2> HIDE DEF u
  <2>4. CellOf(wal, u) = RecordCell(k, wal.lens[k], u - wal.start[k],
                                    <<k, u - wal.start[k]>> \notin wal.flipped)
    BY <1>1, <1>2, <2>1, <2>3, CellOfRecord
  <2> QED BY <1>2, <2>4 DEF RecordCell, Zero
<1> QED BY <1>3, <1>4

\* A record copied from before the damaged page is good, and the next one is not behind it.
LEMMA HurtRecord ==
  ASSUME ScanInv, Accounts, FileIsWal, Hurt(wal), BeforeOpen, RecordsAreWal, CopiesNext,
         pc = "copy_body", remaining = 0, page_no < wal.fault_page
  PROVE  /\ verify_record_crc(record_buffer)
         /\ NextPos(wal, Len(records) + 1) <= FirstContent(wal.fault_page)
         /\ NextPos(wal, Len(records) + 1) \in Nat
<1> DEFINE k == Len(records) + 1
           L == Len(record_buffer)
           u == wal.start[k]
           F == FirstContent(wal.fault_page)
<1>1. /\ L = tot_len /\ tot_len \in TotLens(record_buffer[1])
      /\ L \in Nat /\ L >= 1
  <2>1. /\ L + 0 = tot_len /\ tot_len \in TotLens(record_buffer[1]) /\ RecHdr <= L
        /\ L \in Nat /\ RecHdr \in Nat \ {0}
    BY LenProperties, GeometryAssumption DEF ScanInv, ScanState, TypeOK, CopiesNext
  <2> HIDE DEF L
  <2> QED BY <2>1
<1>2. /\ k \in 1 .. Last(wal) /\ k \in WalRecords(wal) /\ u \in Nat
      /\ u = NextPos(wal, Len(records)) /\ wal.lens[k] \in Nat
      /\ record_buffer[1] = RecordCell(k, wal.lens[k], 0, TRUE)
  BY <1>1, HurtHeader, FirstCell DEF Hurt
<1>3. L = wal.lens[k]
  BY <1>1, <1>2 DEF TotLens, RecordCell, Zero
<1>4. /\ u + L <= F /\ F \in Nat /\ Aligned(F) /\ wal.fault_page \in Nat
      /\ \A i \in 1 .. L : record_buffer[i] = CellOf(wal, u + i - 1)
  BY <1>2, ExactCells, HurtPages, FirstContentNext
<1>5. IsLayout(wal) /\ k \in 0 .. Last(wal) /\ k # 0
  BY <1>2, LayoutAssumption DEF FileIsWal
<1>6. ~Aborted(wal, k)
  <2> SUFFICES ASSUME Aborted(wal, k) PROVE FALSE
    OBVIOUS
  <2>1. /\ wal.cut # NO_PAGE /\ FirstContent(wal.cut) < u + L
        /\ wal.cut \in Nat /\ FirstContent(wal.cut) \in Nat
    BY <1>3, <1>5, LayoutType DEF Aborted, Cuts
  <2>2. wal.fault_page <= wal.cut
    BY <1>2 DEF Hurt, Uncut
  <2>3. F <= FirstContent(wal.cut)
    <3>1. CASE wal.fault_page = wal.cut
      BY <1>4, <3>1
    <3>2. CASE wal.fault_page < wal.cut
      BY <1>4, <2>1, <3>2, FirstContentGrows
    <3> QED BY <1>4, <2>1, <2>2, <3>1, <3>2
  <2> HIDE DEF u, L, F
  <2> QED BY <1>1, <1>2, <1>4, <2>1, <2>3
<1>7. verify_record_crc(record_buffer)
  BY <1>2, <1>3, <1>4, <1>5, <1>6, CopiedIsGood DEF Hurt
<1>8. NextPos(wal, k) = u + maxalign(L) /\ Aligned(u)
  BY <1>2, <1>3, <1>5, <1>6, NextPosBehind, RecordsInOrder
<1> HIDE DEF k, L, u, F
<1>9. u + maxalign(L) <= F /\ maxalign(L) \in Nat
  <2> DEFINE d == F - u
  <2>1. d \in Nat /\ L <= d /\ F = u + d
    BY SMTT(30), <1>1, <1>2, <1>4
  <2> HIDE DEF d
  <2>2. Aligned(d)
    <3>1. F \in Nat /\ u \in Nat /\ Aligned(F) /\ Aligned(u)
      BY <1>2, <1>4, <1>8
    <3>2. F >= u /\ F - u = d
      BY <2>1, <3>1
    <3>3. F >= u => Aligned(F - u)
      BY <3>1, AlignedSum
    <3> QED BY <3>2, <3>3
  <2>3. maxalign(L) <= d /\ maxalign(L) \in Nat
    BY <1>1, <2>1, <2>2, MaxAlignLeast
  <2> QED BY <1>2, <2>1, <2>3
<1> QED BY <1>2, <1>7, <1>8, <1>9 DEF k, F

\* A length in a record header copied from before the damaged page is that of a record.
LEMMA HurtLength ==
  ASSUME ScanInv, Accounts, FileIsWal, Hurt(wal), BeforeOpen, RecordsAreWal, CopiesNext,
         pc = "copy_header", remaining = 0, page_no < wal.fault_page,
         NEW len \in TotLens(record_buffer[1])
  PROVE  LengthInRange(len) /\ len # 0
<1>1. Len(record_buffer) >= 1
  <2>1. Len(record_buffer) + 0 = RecHdr /\ Len(record_buffer) \in Nat
    BY LenProperties DEF ScanInv, ScanState, TypeOK
  <2> QED BY <2>1, GeometryAssumption
<1> DEFINE k == Len(records) + 1
<1>2. k \in 1 .. Last(wal) /\ record_buffer[1] = RecordCell(k, wal.lens[k], 0, TRUE)
  BY <1>1, HurtHeader, FirstCell DEF Hurt
<1> HIDE DEF k
<1>3. len = wal.lens[k]
  BY <1>2 DEF TotLens, RecordCell, Zero
<1>4. LengthInRange(len) /\ len \in Nat
  BY <1>2, <1>3, LayoutAssumption, LayoutType DEF FileIsWal
<1> QED BY <1>4, GeometryAssumption DEF LengthInRange


(***************************************************************************)
(* Until the scan ends it is in front of the damaged page: the pages that  *)
(* it has read, and the one where it looks for the next record.            *)
(***************************************************************************)
ReachesFault ==
  /\ pc = "first_page" \/ Reading => readable_pages = wal.pages
  /\ pc \in {"open", "first_page", "idle", "find"} => lsn_to_page_no(read_lsn) <= wal.fault_page
  /\ Reading => page_no < wal.fault_page
  /\ ~Ended => ~done
  /\ Ended => stop_reason \notin {"none", "ZeroedPage"}

LEMMA InitReachesFault ==
  ASSUME LiveInit, wal.fault_page \in Nat
  PROVE  ReachesFault
<1>1. pc = "open" /\ read_lsn = SegStart /\ ~done
  BY DEF LiveInit, ReaderInit
<1>2. lsn_to_page_no(SegStart) = 0
  <2>1. 0 \in PageNo /\ 0 \in Offset /\ SegStart \in Nat /\ 0 * Blcksz = 0
    BY Segment DEF PageNo, Offset
  <2>2. SegStart = page_start_lsn(0) + 0
    BY <2>1 DEF page_start_lsn
  <2> QED BY <2>1, <2>2, LsnOfPage
<1> QED BY <1>1, <1>2 DEF ReachesFault, Reading, Ended

\* The scan cannot end, or come to an error, but at the damaged page.
LEMMA FaultIsAnError ==
  ASSUME FileIsWal, Hurt(wal), BeforeOpen, NEW n \in PageNo, n <= wal.fault_page, ~Valid(n)
  PROVE  /\ ~Zeroed(n) /\ n = wal.fault_page
         /\ validate_page_header(segment[n], n) \notin {"none", "ZeroedPage"}
<1>1. n = wal.fault_page
  BY HurtPages, GeometryAssumption DEF PageNo
<1> QED BY <1>1, HurtPages DEF Valid, Zeroed

LEMMA NextReachesFault ==
  ASSUME ScanInv, ScanInv', Accounts, FileIsWal, WalInv, SeeksNext', Hurt(wal), BeforeOpen,
         ReachesFault, [LiveNext]_LiveVars
  PROVE  ReachesFault'
<1>1. CASE ServerWrites \/ UNCHANGED LiveVars
  BY <1>1 DEF ServerWrites, LiveVars, vars, live, reader, buffer, locals, app,
              ReachesFault, Reading, Ended
<1>2. CASE ReaderSteps
  <2> DEFINE n == lsn_to_page_no(read_lsn)
             F == wal.fault_page
  <2>1. Step /\ wal' = wal
    BY <1>2 DEF ReaderSteps, live
  <2>2. RecordsAreWal /\ CopiesNext
    BY DEF WalInv
  <2>3. /\ F \in PageNo /\ F \in Nat /\ F < wal.pages
        /\ \A p \in PageNo : p < F => Valid(p)
        /\ \A p \in PageNo : p <= F /\ ~Valid(p) =>
             /\ ~Zeroed(p) /\ p = F
             /\ validate_page_header(segment[p], p) \notin {"none", "ZeroedPage"}
    BY HurtPages, FaultIsAnError
  <2>4. n \in PageNo /\ n \in Nat
    <3>1. n \in PageNo
      BY PageOfLsn DEF ScanInv, TypeOK
    <3> HIDE DEF n
    <3> QED BY <3>1, GeometryAssumption DEF PageNo
  <2>5. readable_pages = wal.pages => PageLimit \in Nat /\ F < PageLimit
    BY <2>3, LayoutAssumption, GeometryAssumption, PageLimitType
       DEF PageLimit, PageNo, FileIsWal, IsLayout
  <2>6. Reading => page_no \in PageNo /\ page_no \in Nat /\ page_no < F
    BY GeometryAssumption DEF ReachesFault, ScanInv, TypeOK, BufferedPageIsValid, PageNo
  <2>7. pc = "find" => n <= F /\ readable_pages = wal.pages
    BY DEF ReachesFault, Reading
  <2>8. ASSUME FindOn(n) PROVE page_no' < F /\ n < F
    <3>1. pc = "find" /\ page_no' = n /\ (page_no = n \/ Valid(n))
      BY <2>8 DEF FindOn
    <3>2. n < F
      <4>1. CASE page_no = n
        BY <2>6, <3>1, <4>1 DEF Reading
      <4>2. CASE Valid(n)
        BY <2>3, <2>4, <2>7, <3>1, <4>2, HurtPages
      <4> QED BY <3>1, <4>1, <4>2
    <3> QED BY <3>1, <3>2
  <2> HIDE DEF n, F
  <2>9. CASE OpenFails
    BY <2>9, <2>1 DEF OpenFails, Errors, ReturnErr, ReachesFault, Reading, Ended
  <2>10. CASE Open
    <3>1. file_pages = wal.pages
      BY DEF FileIsWal
    <3> QED BY <2>10, <2>1, <3>1 DEF Open, ReachesFault, Reading, Ended
  <2>11. CASE LoadFirstPage
    <3>1. 0 \in PageNo /\ 0 <= F
      BY <2>3, GeometryAssumption DEF PageNo
    <3>2. CASE Valid(0) /\ pc' = "idle" /\ UNCHANGED app
      <4>1. page_no' = 0
        BY <2>11, <3>2 DEF LoadFirstPage, load_page, Valid
      <4>2. 0 < F
        BY <2>3, <3>1, <3>2, HurtPages DEF F
      <4> QED BY <2>1, <2>11, <3>2, <4>1, <4>2 DEF LoadFirstPage, ReachesFault, Reading, Ended, F
    <3>3. CASE ~Valid(0) /\ ReturnErr(validate_page_header(segment[0], 0))
      BY <2>1, <2>3, <3>1, <3>3, <2>11 DEF ReturnErr, ReachesFault, Reading, Ended
    <3> QED BY <2>11, <3>2, <3>3 DEF LoadFirstPage
  <2>12. CASE LoadNextRecord
    BY <2>1, <2>12 DEF LoadNextRecord, buffer, app, ReachesFault, Reading, Ended
  <2>13. CASE FindReachesEnd
    BY <2>3, <2>4, <2>5, <2>7, <2>13 DEF FindReachesEnd, n
  <2>14. CASE FindCannotLoad
    <3>1. pc = "find" /\ ~Valid(n)
      BY <2>14 DEF FindCannotLoad, n
    <3>2. ReturnErr(validate_page_header(segment[n], n))
      BY <2>3, <2>4, <2>7, <2>14, <3>1 DEF FindCannotLoad, n
    <3> QED BY <2>1, <2>3, <2>4, <2>7, <3>1, <3>2 DEF ReturnErr, ReachesFault, Reading, Ended
  <2>15. CASE FindSkipsPage
    <3>1. /\ FindOn(n) /\ pc' = pc /\ pc = "find" /\ readable_pages' = readable_pages /\ done' = done
          /\ read_lsn' = page_start_lsn(n + 1)
      BY <2>15 DEF FindSkipsPage, FindOn, n
    <3>2. n + 1 \in PageNo /\ n + 1 <= F
      BY <2>3, <2>4, <2>8, <3>1, GeometryAssumption DEF PageNo
    <3>3. lsn_to_page_no(read_lsn') = n + 1
      <4>1. 0 \in Offset /\ page_start_lsn(n + 1) + 0 = page_start_lsn(n + 1)
        BY <3>2, PageEnd, Segment DEF Offset
      <4> QED BY <3>1, <3>2, <4>1, LsnOfPage
    <3> QED BY <2>1, <2>7, <2>8, <3>1, <3>2, <3>3 DEF ReachesFault, Reading, Ended, F, n
  <2>16. CASE FindRecord
    <3>1. /\ FindOn(n) /\ pc' = "copy_header" /\ pc = "find" /\ readable_pages' = readable_pages
          /\ done' = done
      BY <2>16 DEF FindRecord, FindOn, n
    <3> QED BY <2>1, <2>7, <2>8, <3>1 DEF ReachesFault, Reading, Ended, F
  <2>17. CASE CopyReachesEnd
    <3> DEFINE next == page_no + 1
    <3>1. Copying /\ Reading /\ readable_pages = wal.pages /\ pc \in {"copy_header", "copy_body"}
      BY <2>17 DEF CopyReachesEnd, Copying, Reading, ReachesFault
    <3>2. next \in PageNo /\ next \in Nat /\ next <= F /\ next < PageLimit
      BY <2>3, <2>5, <2>6, <3>1, GeometryAssumption DEF PageNo
    <3> HIDE DEF next
    <3>3. ~Valid(next)
      BY <2>5, <2>17, <3>1, <3>2 DEF CopyReachesEnd, next
    <3>4. ReturnErr(validate_page_header(segment[next], next))
      BY <2>3, <2>5, <2>17, <3>1, <3>2, <3>3 DEF CopyReachesEnd, next
    <3> QED BY <2>1, <2>3, <3>1, <3>2, <3>3, <3>4 DEF ReturnErr, ReachesFault, Reading, Ended
  <2>18. CASE CopyNextPage
    <3> DEFINE next == page_no + 1
    <3>1. /\ pc \in {"copy_header", "copy_body"} /\ Valid(next) /\ page_no' = next /\ pc' = pc
          /\ readable_pages' = readable_pages /\ done' = done
      BY <2>18 DEF CopyNextPage, Copying, load_page, Valid, app
    <3>2. next \in PageNo /\ next \in Nat /\ next <= F
      BY <2>3, <2>6, <3>1, GeometryAssumption DEF PageNo, Reading
    <3> HIDE DEF next
    <3>3. next < F
      BY <2>3, <3>1, <3>2, HurtPages DEF F
    <3> QED BY <2>1, <3>1, <3>3 DEF ReachesFault, Reading, Ended, F
  <2>19. CASE CopyTake
    BY <2>1, <2>19 DEF CopyTake, Copying, buffer, app, ReachesFault, Reading, Ended
  <2>20. CASE HeaderEndsScan \/ HeaderCopied
    <3>1. pc = "copy_header" /\ remaining = 0 /\ Reading
      BY <2>20 DEF HeaderEndsScan, HeaderCopied, Reading
    <3>2. \A len \in TotLens(record_buffer[1]) : LengthInRange(len) /\ len # 0
      BY <2>2, <2>6, <3>1, HurtLength DEF F
    <3>3. ~HeaderEndsScan
      BY <3>2 DEF HeaderEndsScan
    <3> QED BY <2>1, <2>20, <3>1, <3>3 DEF HeaderCopied, buffer, app, ReachesFault, Reading, Ended
  <2>21. CASE DecodeFails
    BY <2>1, <2>21 DEF DecodeFails, ReturnErr, ReachesFault, Reading, Ended
  <2>22. CASE ReturnRecord
    <3> DEFINE k == Len(records) + 1
               m == lsn_to_page_no(read_lsn')
               o == lsn_to_page_offset(read_lsn')
    <3>1. /\ pc = "copy_body" /\ remaining = 0 /\ pc' = "idle" /\ page_no' = page_no
          /\ readable_pages' = readable_pages
          /\ done' = (done \/ ~verify_record_crc(record_buffer))
          /\ records' # <<>> /\ Len(records') = k
      <4>1. records \in Seq(Record)
        BY DEF ScanInv, TypeOK
      <4>2. PICK r : records' = Append(records, r)
        BY <2>22 DEF ReturnRecord
      <4>3. records' # <<>> /\ Len(records') = k
        BY <4>1, <4>2, AppendProperties
      <4> QED BY <2>22, <4>3 DEF ReturnRecord, StopAtBadCrc, buffer
    <3>2. page_no < F /\ ~done /\ readable_pages = wal.pages
      BY <2>6, <3>1 DEF Reading, ReachesFault, Ended
    <3>3. /\ verify_record_crc(record_buffer)
          /\ NextPos(wal, k) <= FirstContent(F) /\ NextPos(wal, k) \in Nat
      BY <2>2, <3>1, <3>2, HurtRecord DEF F
    <3>4. ~done'
      BY <3>1, <3>2, <3>3
    <3>5. \/ o >= HeaderOf(m) /\ ContentAt(m, o) = NextPos(wal, k)
          \/ o = 0 /\ FirstContent(m) = NextPos(wal, k)
      BY <2>1, <3>1, <3>4 DEF SeeksNext
    <3>6. read_lsn' \in Nat
      BY DEF ScanInv, TypeOK
    <3>7. m \in Nat /\ o \in Nat
      <4>1. m \in PageNo /\ o \in Offset
        BY <3>6, PageOfLsn
      <4> HIDE DEF m, o
      <4> QED BY <4>1, GeometryAssumption DEF PageNo, Offset
    <3>8. FirstContent(m) \in Nat /\ FirstContent(F) \in Nat /\ HeaderOf(m) \in Nat
      BY <2>3, <3>7, FirstContentNext, HeaderOfType
    <3> HIDE DEF m, o, k
    <3>9. FirstContent(m) <= FirstContent(F)
      BY <3>3, <3>5, <3>7, <3>8 DEF ContentAt
    <3>10. m <= F
      BY <2>3, <3>7, <3>9, NotBehind
    <3> QED BY <2>1, <3>1, <3>2, <3>4, <3>10 DEF ReachesFault, Reading, Ended, F, m
  <2>23. CASE NothingToShow \/ ReadFileAgain
    BY <2>1, <2>23 DEF NothingToShow, ReadFileAgain, app, ReachesFault, Reading, Ended
  <2> QED BY <2>1, <2>9, <2>10, <2>11, <2>12, <2>13, <2>14, <2>15, <2>16, <2>17, <2>18, <2>19,
             <2>20, <2>21, <2>22, <2>23 DEF Step
<1> QED BY <1>1, <1>2 DEF LiveNext

(***************************************************************************)
(* HeaderDamageIsReported: up to the damaged page every page is the one of *)
(* the layout and every record is whole and good, so that the scan goes    *)
(* on; and from the last record before it the scan looks for the next one, *)
(* or for the rest of one, on that very page.                              *)
(***************************************************************************)
THEOREM DamageIsReported ==
  LiveSpec => [](NeverAtSegmentEnd(wal) => HeaderDamageIsReported)
<1> DEFINE I == NeverAtSegmentEnd(wal) /\ Hurt(wal) /\ BeforeOpen => ReachesFault
           W == NeverAtSegmentEnd(wal) => WalInv
<1>1. LiveInit => I
  <2> SUFFICES ASSUME LiveInit, Hurt(wal) PROVE ReachesFault
    OBVIOUS
  <2>1. FileIsWal
    BY InitFileIsWal
  <2>2. wal.fault_page \in Nat
    BY <2>1, LayoutAssumption, GeometryAssumption DEF FileIsWal, IsLayout, Hurt
  <2> QED BY <2>2, InitReachesFault
<1>2. /\ ScanInv /\ ScanInv' /\ Accounts /\ FileIsWal /\ W /\ W' /\ I /\ [LiveNext]_LiveVars
      => I'
  <2> SUFFICES ASSUME ScanInv, ScanInv', Accounts, FileIsWal, W, W', I, [LiveNext]_LiveVars,
                      NeverAtSegmentEnd(wal'), Hurt(wal'), BeforeOpen'
               PROVE  ReachesFault'
    OBVIOUS
  <2>1. wal' = wal /\ at_open' = at_open
    BY DEF LiveNext, ReaderSteps, ServerWrites, LiveVars, live
  <2>2. BeforeOpen
    BY <2>1 DEF BeforeOpen
  <2> QED BY <2>1, <2>2, NextReachesFault DEF WalInv
<1>3. LiveSpec => [](ScanInv /\ Accounts)
  BY ClosedIsOpen, PointerInvariant, PTL
<1>4. LiveSpec => []I
  BY <1>1, <1>2, <1>3, WalInvariant, PTL DEF LiveSpec
<1>5. I => (NeverAtSegmentEnd(wal) => HeaderDamageIsReported)
  BY DEF HeaderDamageIsReported, ReachesFault, Hurt, BeforeOpen
<1> QED BY <1>4, <1>5, PTL

-----------------------------------------------------------------------------
(* The owed records of WalScan: which they are, and that they are read.    *)

\* The two sets of records that WalScan counts.
IsIn(w, f, r) == EndOf(w, r) <= f /\ EndOf(w, r) <= FirstContent(w.pages)
IsIntact(w, r) ==
  /\ \A d \in w.flipped : d[1] = 0 \/ d[1] > r
  /\ \A q \in 1 .. r : ~Aborted(w, q)
  /\ w.fault_page = NO_PAGE \/ EndOf(w, r) <= FirstContent(w.fault_page)

\* A set that begins with 1 and has no gaps is known by its size.
LEMMA CountOfFirst ==
  ASSUME NEW n \in Nat, NEW S, S \subseteq 1 .. n, \A r \in S : 1 .. r \subseteq S
  PROVE  /\ Cardinality(S) \in Nat
         /\ \A r \in 1 .. n : r \in S <=> r <= Cardinality(S)
<1>1. IsFiniteSet(S) /\ Cardinality(S) \in Nat
  <2>1. IsFiniteSet(1 .. n) /\ S \in SUBSET (1 .. n)
    BY FS_Interval
  <2>2. IsFiniteSet(S)
    BY <2>1, FS_Subset
  <2> QED BY <2>2, FS_CardinalityType
<1>2. \A r \in Nat : Cardinality(1 .. r) = r /\ IsFiniteSet(1 .. r)
  <2> TAKE r \in Nat
  <2>1. IsFiniteSet(1 .. r) /\ Cardinality(1 .. r) = IF 1 > r THEN 0 ELSE r - 1 + 1
    BY FS_Interval
  <2> QED BY <2>1
<1>3. ASSUME NEW r \in 1 .. n, r \in S PROVE r <= Cardinality(S)
  BY <1>1, <1>2, <1>3, FS_Subset
<1>4. ASSUME NEW r \in 1 .. n, r \notin S PROVE ~(r <= Cardinality(S))
  <2>1. r - 1 \in Nat
    OBVIOUS
  <2>2. S \subseteq 1 .. r - 1
    <3> SUFFICES ASSUME NEW q \in S, ~(q \in 1 .. r - 1) PROVE FALSE
      OBVIOUS
    <3>1. r \in 1 .. q
      BY <1>4
    <3> QED BY <1>4, <3>1
  <2>3. Cardinality(S) <= r - 1
    <3>1. IsFiniteSet(1 .. r - 1) /\ Cardinality(1 .. r - 1) = r - 1
      BY <1>2, <2>1
    <3>2. S \in SUBSET (1 .. r - 1)
      BY <2>2
    <3>3. Cardinality(S) <= Cardinality(1 .. r - 1)
      BY <3>1, <3>2, FS_Subset
    <3> QED BY <3>1, <3>3
  <2> QED BY <1>1, <2>3
<1> QED BY <1>1, <1>3, <1>4

\* Records end in order.
LEMMA EndsInOrder ==
  ASSUME NEW w, IsLayout(w)
  PROVE  /\ \A r \in 0 .. Last(w) : EndOf(w, r) \in Nat
         /\ \A r, q \in 1 .. Last(w) : q <= r => EndOf(w, q) <= EndOf(w, r)
<1>1. /\ \A r \in 0 .. Last(w) : w.start[r] \in Int /\ EndOf(w, r) \in Nat /\ w.start[r] <= EndOf(w, r)
      /\ \A r, q \in 0 .. Last(w) : q < r => EndOf(w, q) <= w.start[r]
  BY RecordsInOrder
<1>2. ASSUME NEW r \in 1 .. Last(w), NEW q \in 1 .. Last(w), q <= r
      PROVE  EndOf(w, q) <= EndOf(w, r)
  <2>1. r \in 0 .. Last(w) /\ q \in 0 .. Last(w)
    OBVIOUS
  <2>2. CASE q = r
    BY <1>1, <2>1, <2>2
  <2>3. CASE q < r
    BY <1>1, <2>1, <2>3
  <2> QED BY <1>2, <2>2, <2>3
<1> QED BY <1>1, <1>2

LEMMA CountsOfWal ==
  ASSUME NEW w, IsLayout(w), NEW f \in Nat
  PROVE  /\ InFile(w, f) \in Nat /\ Intact(w) \in Nat
         /\ \A r \in 1 .. Last(w) : IsIn(w, f, r) <=> r <= InFile(w, f)
         /\ \A r \in 1 .. Last(w) : IsIntact(w, r) <=> r <= Intact(w)
         /\ \A r \in Nat \ {0} : r <= InFile(w, f) => r \in 1 .. Last(w)
<1> DEFINE L == Last(w)
           A == {r \in WalRecords(w) : IsIn(w, f, r)}
           B == {r \in WalRecords(w) : IsIntact(w, r)}
<1>1. L \in Nat /\ WalRecords(w) = 1 .. L
  BY LayoutType
<1>2. /\ \A r \in 1 .. L : EndOf(w, r) \in Nat
      /\ \A r, q \in 1 .. L : q <= r => EndOf(w, q) <= EndOf(w, r)
  <2>1. 1 .. L \subseteq 0 .. L
    BY <1>1
  <2> QED BY <2>1, EndsInOrder
<1>3. FirstContent(w.pages) \in Nat
  <2>1. w.pages \in Nat
    BY GeometryAssumption DEF IsLayout
  <2> QED BY <2>1, FirstContentNext
<1>4. w.fault_page # NO_PAGE => FirstContent(w.fault_page) \in Nat
  <2> SUFFICES ASSUME w.fault_page # NO_PAGE PROVE FirstContent(w.fault_page) \in Nat
    OBVIOUS
  <2>1. w.fault_page \in PageNo
    BY DEF IsLayout
  <2>2. w.fault_page \in Nat
    BY <2>1, GeometryAssumption DEF PageNo
  <2> QED BY <2>2, FirstContentNext
<1>5. \A r \in A : 1 .. r \subseteq A
  <2> SUFFICES ASSUME NEW r \in A, NEW q \in 1 .. r PROVE q \in A
    OBVIOUS
  <2>1. r \in 1 .. L /\ q \in 1 .. L /\ q <= r
    BY <1>1
  <2>2. EndOf(w, q) <= EndOf(w, r) /\ EndOf(w, q) \in Nat /\ EndOf(w, r) \in Nat
    BY <1>2, <2>1
  <2> QED BY <1>1, <1>3, <2>1, <2>2 DEF IsIn
<1>6. \A r \in B : 1 .. r \subseteq B
  <2> SUFFICES ASSUME NEW r \in B, NEW q \in 1 .. r PROVE q \in B
    OBVIOUS
  <2>1. r \in 1 .. L /\ q \in 1 .. L /\ q <= r
    BY <1>1
  <2>2. EndOf(w, q) <= EndOf(w, r) /\ EndOf(w, q) \in Nat /\ EndOf(w, r) \in Nat
    BY <1>2, <2>1
  <2>3. \A d \in w.flipped : d[1] \in Nat
    <3>1. w.flipped \subseteq UNION {{a} \X (0 .. w.lens[a] - 1) : a \in DOMAIN w.lens}
      BY DEF IsLayout
    <3>2. DOMAIN w.lens \subseteq Nat
      BY LayoutType
    <3> TAKE d \in w.flipped
    <3>3. PICK a \in DOMAIN w.lens : d \in {a} \X (0 .. w.lens[a] - 1)
      BY <3>1
    <3> QED BY <3>2, <3>3
  <2>4. \A d \in w.flipped : d[1] = 0 \/ d[1] > q
    BY <2>1, <2>3 DEF IsIntact
  <2>5. \A p \in 1 .. q : ~Aborted(w, p)
    BY <2>1 DEF IsIntact
  <2>6. w.fault_page = NO_PAGE \/ EndOf(w, q) <= FirstContent(w.fault_page)
    BY <1>4, <2>2 DEF IsIntact
  <2> QED BY <1>1, <2>1, <2>4, <2>5, <2>6 DEF IsIntact
<1>7. A \subseteq 1 .. L /\ B \subseteq 1 .. L
  BY <1>1
<1>8. InFile(w, f) = Cardinality(A) /\ Intact(w) = Cardinality(B)
  BY DEF InFile, Intact, IsIn, IsIntact
<1> HIDE DEF A, B, L
<1>9. /\ Cardinality(A) \in Nat
      /\ \A r \in 1 .. L : r \in A <=> r <= Cardinality(A)
  BY <1>1, <1>5, <1>7, CountOfFirst
<1>10. /\ Cardinality(B) \in Nat
       /\ \A r \in 1 .. L : r \in B <=> r <= Cardinality(B)
  BY <1>1, <1>6, <1>7, CountOfFirst
<1>11. /\ \A r \in 1 .. L : r \in A <=> IsIn(w, f, r)
       /\ \A r \in 1 .. L : r \in B <=> IsIntact(w, r)
  BY <1>1 DEF A, B
<1>12. Cardinality(A) <= L
  <2>1. IsFiniteSet(1 .. L) /\ Cardinality(1 .. L) = IF 1 > L THEN 0 ELSE L - 1 + 1
    BY <1>1, FS_Interval
  <2>2. Cardinality(A) <= Cardinality(1 .. L)
    BY <1>7, <2>1, FS_Subset
  <2> QED BY <1>1, <1>7, <2>1, <2>2
<1> QED BY <1>1, <1>8, <1>9, <1>10, <1>11, <1>12 DEF L
\* A record that was complete when the file was opened, and before any damage.
IsOwed(k) == k \in 1 .. Last(wal) /\ IsIn(wal, at_open, k) /\ IsIntact(wal, k)

\* The pages that such a record is on are there, and have been valid all the time.
LEMMA OwedPages ==
  ASSUME FileIsWal, NEW k, IsOwed(k), NEW n \in Nat, FirstContent(n) < EndOf(wal, k)
  PROVE  /\ n \in PageNo /\ n < wal.pages /\ Valid(n)
         /\ n = 0 => file_pages > 0 /\ segment[0].magic_ok /\ is_long(segment[0])
<1>1. /\ IsLayout(wal) /\ wal.pages \in Nat /\ wal.pages <= PagesPerSegment
      /\ PagesPerSegment \in Nat /\ at_open \in Nat /\ flushed \in Nat /\ at_open <= flushed
  BY LayoutAssumption, StopsType, GeometryAssumption DEF FileIsWal, IsLayout
<1>2. /\ EndOf(wal, k) <= at_open /\ EndOf(wal, k) <= FirstContent(wal.pages)
      /\ wal.fault_page = NO_PAGE \/ EndOf(wal, k) <= FirstContent(wal.fault_page)
  BY DEF IsOwed, IsIn, IsIntact
<1>3. EndOf(wal, k) \in Nat /\ FirstContent(n) \in Nat
  <2>1. k \in 1 .. Last(wal)
    BY DEF IsOwed
  <2>2. Last(wal) \in Nat
    BY <1>1, LayoutType
  <2>3. k \in 0 .. Last(wal)
    BY <2>1, <2>2
  <2> QED BY <1>1, <2>3, EndsInOrder, FirstContentNext
<1>4. n < wal.pages
  <2> SUFFICES ASSUME wal.pages <= n PROVE FALSE
    BY <1>1
  <2>1. FirstContent(wal.pages) <= FirstContent(n) /\ FirstContent(wal.pages) \in Nat
    <3>1. CASE wal.pages = n
      BY <1>3, <3>1
    <3>2. CASE wal.pages < n
      <4>1. wal.pages \in Nat
        BY <1>1
      <4>2. FirstContent(wal.pages) \in Nat /\ FirstContent(wal.pages + 1) <= FirstContent(n)
            /\ FirstContent(wal.pages) < FirstContent(n)
        BY <3>2, <4>1, FirstContentGrows, FirstContentNext
      <4> QED BY <1>3, <4>2
    <3> QED BY <1>1, <3>1, <3>2
  <2>2. EndOf(wal, k) <= FirstContent(wal.pages)
    BY <1>2
  <2> QED BY <1>3, <2>1, <2>2
<1>5. n \in PageNo
  BY <1>1, <1>4 DEF PageNo
<1>6. n # wal.fault_page
  <2> SUFFICES ASSUME n = wal.fault_page PROVE FALSE
    OBVIOUS
  <2>1. wal.fault_page # NO_PAGE
    BY DEF NO_PAGE
  <2> QED BY <1>2, <1>3, <2>1
<1>7. segment[n] = WrittenPage(wal, n, flushed)
  BY <1>1, <1>2, <1>3, <1>5 DEF FileIsWal, FileContent
<1>8. Valid(n)
  BY <1>5, <1>6, <1>7, WrittenIsValid DEF Valid
<1>9. ASSUME n = 0 PROVE file_pages > 0 /\ segment[0].magic_ok /\ is_long(segment[0])
  <2>1. validate_page_header(segment[0], 0) = "none"
    BY <1>8, <1>9 DEF Valid
  <2> QED BY <1>4, <1>9, <2>1 DEF FileIsWal, validate_page_header
<1> QED BY <1>4, <1>5, <1>8, <1>9

\* Where it starts and ends, and that its cells are sound.
LEMMA OwedRecord ==
  ASSUME FileIsWal, NEW k, IsOwed(k)
  PROVE  LET u == wal.start[k]
             len == wal.lens[k] IN
         /\ IsLayout(wal) /\ k \in 1 .. Last(wal) /\ k \in 0 .. Last(wal) /\ k # 0
         /\ ~Aborted(wal, k)
         /\ u = NextPos(wal, k - 1) /\ u \in Nat /\ len \in Nat /\ LengthInRange(len)
         /\ EndOf(wal, k) = u + len
         /\ \A i \in Nat : <<k, i>> \notin wal.flipped
         /\ \A i \in 0 .. len - 1 : CellOf(wal, u + i) = RecordCell(k, len, i, TRUE)
<1> DEFINE u == wal.start[k]
           len == wal.lens[k]
<1>1. IsLayout(wal) /\ k \in 1 .. Last(wal) /\ Last(wal) \in Nat
  BY LayoutAssumption, LayoutType DEF FileIsWal, IsOwed
<1>2. k \in 0 .. Last(wal) /\ k # 0 /\ k \in Nat
  BY <1>1
<1>3. ~Aborted(wal, k)
  BY <1>2, <1>1 DEF IsOwed, IsIntact
<1>4. u = NextPos(wal, k - 1) /\ u \in Nat /\ len \in Nat /\ LengthInRange(len)
  BY <1>1, <1>2, LayoutType, RecordsInOrder
<1>5. EndOf(wal, k) = u + len
  BY <1>3 DEF EndOf
<1>6. \A i \in Nat : <<k, i>> \notin wal.flipped
  <2> SUFFICES ASSUME NEW i \in Nat, <<k, i>> \in wal.flipped PROVE FALSE
    OBVIOUS
  <2>1. \A d \in wal.flipped : d[1] = 0 \/ d[1] > k
    BY DEF IsOwed, IsIntact
  <2>2. k = 0 \/ k > k
    BY <2>1
  <2> QED BY <1>2, <2>2
<1>7. \A i \in 0 .. len - 1 : CellOf(wal, u + i) = RecordCell(k, len, i, TRUE)
  <2> TAKE i \in 0 .. len - 1
  <2> DEFINE x == u + i
  <2>1. x \in Int /\ u <= x /\ x < u + len /\ x - u = i /\ i \in Nat
    BY <1>4
  <2> HIDE DEF x
  <2>2. Holds(wal, k, x)
    BY <1>5, <2>1 DEF Holds
  <2>3. CellOf(wal, x) = RecordCell(k, len, i, <<k, i>> \notin wal.flipped)
    BY <1>1, <1>2, <2>1, <2>2, CellOfRecord
  <2> QED BY <1>6, <2>1, <2>3 DEF x
<1> QED BY <1>1, <1>2, <1>3, <1>4, <1>5, <1>6, <1>7

\* What has been copied of it is all there and sound, and it is not more than the record.
LEMMA OwedCopy ==
  ASSUME ScanInv, FileIsWal, CopiesNext, pc \in {"copy_header", "copy_body"},
         IsOwed(Len(records) + 1)
  PROVE  LET k == Len(records) + 1
             len == wal.lens[k]
             L == Len(record_buffer) IN
         /\ L \in Nat /\ L + remaining <= len
         /\ pc = "copy_body" => L + remaining = len
         /\ \A i \in 1 .. L : record_buffer[i] = RecordCell(k, len, i - 1, TRUE)
         /\ ContentAt(page_no, offset) = wal.start[k] + L
<1> DEFINE k == Len(records) + 1
           u == wal.start[k]
           len == wal.lens[k]
           L == Len(record_buffer)
<1>1. /\ u = NextPos(wal, k - 1) /\ u \in Nat /\ len \in Nat /\ LengthInRange(len)
      /\ EndOf(wal, k) = u + len
      /\ \A i \in 0 .. len - 1 : CellOf(wal, u + i) = RecordCell(k, len, i, TRUE)
  BY OwedRecord
<1>2. k - 1 = Len(records)
  <2>1. Len(records) \in Nat
    BY LenProperties DEF ScanInv, TypeOK
  <2> QED BY <2>1
<1>3. /\ ContentAt(page_no, offset) = u + L
      /\ \A i \in 1 .. L : ReadAt(record_buffer[i], u + i - 1)
      /\ pc = "copy_body" => tot_len \in TotLens(record_buffer[1]) /\ RecHdr <= L
  BY <1>1, <1>2 DEF CopiesNext
<1>4. /\ L \in Nat /\ remaining \in Nat /\ RecHdr \in Nat \ {0} /\ tot_len \in Nat
      /\ pc = "copy_header" => L + remaining = RecHdr
      /\ pc = "copy_body" => L + remaining = tot_len
  BY LenProperties, GeometryAssumption DEF ScanInv, ScanState, TypeOK
<1>5. at_open \in Nat /\ u + len <= at_open
  BY <1>1 DEF FileIsWal, IsOwed, IsIn
<1> HIDE DEF k, u, len, L
<1>6. \A i \in 1 .. L : i <= len => record_buffer[i] = RecordCell(k, len, i - 1, TRUE)
  <2> SUFFICES ASSUME NEW i \in 1 .. L, i <= len
               PROVE  record_buffer[i] = RecordCell(k, len, i - 1, TRUE)
    OBVIOUS
  <2> DEFINE j == i - 1
  <2>1. j \in 0 .. len - 1 /\ u + i - 1 = u + j /\ ~(at_open <= u + j)
    BY <1>1, <1>4, <1>5
  <2>2. ReadAt(record_buffer[i], u + j)
    BY <1>3, <2>1
  <2>3. record_buffer[i] = CellOf(wal, u + j)
    BY <2>1, <2>2 DEF ReadAt
  <2>4. CellOf(wal, u + j) = RecordCell(k, len, j, TRUE)
    BY <1>1, <2>1
  <2> QED BY <2>3, <2>4
<1>7. RecHdr <= len
  BY <1>1 DEF LengthInRange
<1>8. pc = "copy_body" => tot_len = len
  <2> SUFFICES ASSUME pc = "copy_body" PROVE tot_len = len
    OBVIOUS
  <2>1. 1 \in 1 .. L /\ 1 <= len /\ 1 - 1 = 0
    BY <1>1, <1>3, <1>4, <1>7
  <2>2. record_buffer[1] = RecordCell(k, len, 0, TRUE)
    BY <1>6, <2>1
  <2> QED BY <1>3, <2>2 DEF TotLens, RecordCell, Zero
<1>9. L + remaining <= len
  BY <1>1, <1>4, <1>7, <1>8
<1>10. \A i \in 1 .. L : i <= len
  BY <1>1, <1>4, <1>9
<1>11. \A i \in 1 .. L : record_buffer[i] = RecordCell(k, len, i - 1, TRUE)
  BY <1>6, <1>10
<1> QED BY <1>3, <1>4, <1>8, <1>9, <1>11 DEF k, u, len, L

\* Its header is accepted, and when it is there it decodes and passes its checksum.
LEMMA OwedIsAccepted ==
  ASSUME ScanInv, FileIsWal, CopiesNext, pc \in {"copy_header", "copy_body"},
         remaining = 0, IsOwed(Len(records) + 1)
  PROVE  /\ pc = "copy_header" =>
              \A len \in TotLens(record_buffer[1]) : len # 0 /\ LengthInRange(len)
         /\ pc = "copy_body" =>
              verify_record_crc(record_buffer) /\ DecodeOutcomes(record_buffer) = {TRUE}
<1> DEFINE k == Len(records) + 1
           len == wal.lens[k]
           L == Len(record_buffer)
<1>1. /\ L \in Nat /\ L + remaining <= len
      /\ pc = "copy_body" => L + remaining = len
      /\ \A i \in 1 .. L : record_buffer[i] = RecordCell(k, len, i - 1, TRUE)
  BY OwedCopy
<1>2. len \in Nat /\ LengthInRange(len)
  BY OwedRecord
<1>3. /\ RecHdr \in Nat \ {0} /\ remaining = 0
      /\ pc = "copy_header" => L + remaining = RecHdr
  BY GeometryAssumption DEF ScanInv, ScanState
<1> HIDE DEF k, len, L
<1>4. RecHdr <= len /\ RecHdr <= L
  BY <1>1, <1>2, <1>3 DEF LengthInRange
<1>5. record_buffer[1] = RecordCell(k, len, 0, TRUE)
  <2>1. 1 \in 1 .. L /\ 1 - 1 = 0
    BY <1>1, <1>3, <1>4
  <2> QED BY <1>1, <2>1
<1>6. TotLens(record_buffer[1]) = {len} /\ len # 0
  BY <1>2, <1>3, <1>4, <1>5 DEF TotLens, RecordCell, Zero
<1>7. ASSUME pc = "copy_body"
      PROVE  verify_record_crc(record_buffer) /\ DecodeOutcomes(record_buffer) = {TRUE}
  <2>1. L = len
    BY <1>1, <1>2, <1>3, <1>7
  <2>2. record_buffer[1].kind = "record" /\ record_buffer[1].rec = k
    BY <1>5 DEF RecordCell
  <2>3. \A i \in 1 .. L : record_buffer[i] = RecordCell(k, L, i - 1, TRUE)
    BY <1>1, <2>1
  <2>4. verify_record_crc(record_buffer)
    BY <2>2, <2>3 DEF verify_record_crc, L
  <2>5. CASE L = RecHdr
    BY <2>4, <2>5 DEF DecodeOutcomes, L
  <2>6. CASE L # RecHdr
    <3>1. RecHdr + 1 \in 1 .. L /\ (RecHdr + 1) - 1 = RecHdr
      BY <1>1, <1>3, <1>4, <2>6
    <3>2. record_buffer[RecHdr + 1] = RecordCell(k, L, RecHdr, TRUE)
      BY <2>3, <3>1
    <3> DEFINE d == record_buffer[RecHdr + 1]
    <3>3. d.kind = "record" /\ d.good /\ d.idx = RecHdr /\ d.tot_len = L
      BY <3>2 DEF RecordCell
    <3>4. DecodeOutcomes(record_buffer) = {TRUE}
      BY Zenon, <3>3 DEF DecodeOutcomes, L
    <3> QED BY <2>4, <3>4
  <2> QED BY <2>5, <2>6
<1> QED BY <1>2, <1>6, <1>7
-----------------------------------------------------------------------------
(* The scan implements WalScan.                                            *)

AllGood == \A k \in 1 .. Len(records) : records[k].crc_ok

\* What OnlyLastFails says of the good records.
LEMMA GoodOnes ==
  ASSUME NEW recs \in Seq(Record), NEW G, G = {k \in 1 .. Len(recs) : recs[k].crc_ok},
         \A k \in 1 .. Len(recs) : ~recs[k].crc_ok => k = Len(recs)
  PROVE  LET all == \A k \in 1 .. Len(recs) : recs[k].crc_ok IN
         /\ Cardinality(G) \in Nat /\ Len(recs) \in Nat
         /\ all => Cardinality(G) = Len(recs)
         /\ ~all => Cardinality(G) = Len(recs) - 1
         /\ \A k \in 1 .. Cardinality(G) : k \in 1 .. Len(recs) /\ recs[k].crc_ok
<1> DEFINE n == Len(recs)
           all == \A k \in 1 .. n : recs[k].crc_ok
<1>1. n \in Nat
  BY LenProperties
<1> HIDE DEF n
<1>2. \A m \in Nat : Cardinality(1 .. m) = m
  <2> TAKE m \in Nat
  <2>1. Cardinality(1 .. m) = IF 1 > m THEN 0 ELSE m - 1 + 1
    BY FS_Interval
  <2> QED BY <2>1
<1>3. CASE all
  <2>1. G = 1 .. n
    BY <1>3 DEF n
  <2> QED BY <1>1, <1>2, <1>3, <2>1 DEF n
<1>4. CASE ~all
  <2>1. PICK k \in 1 .. n : ~recs[k].crc_ok
    BY <1>4
  <2>2. ~recs[n].crc_ok /\ n >= 1
    <3>1. k = n
      BY <2>1 DEF n
    <3> QED BY <1>1, <2>1, <3>1
  <2>3. \A j \in 1 .. n : j # n => recs[j].crc_ok
    BY DEF n
  <2>4. G = 1 .. n - 1
    <3>1. \A j \in 1 .. n - 1 : j \in 1 .. n /\ j # n
      BY <1>1
    <3>2. \A j \in 1 .. n : j = n \/ j \in 1 .. n - 1
      BY <1>1
    <3>3. G = {j \in 1 .. n : recs[j].crc_ok}
      BY DEF n
    <3>4. \A j : j \in G <=> j \in 1 .. n - 1
      BY <2>2, <2>3, <3>1, <3>2, <3>3
    <3> QED BY Zenon, <3>4
  <2>5. n - 1 \in Nat /\ Cardinality(G) = n - 1
    <3>1. n - 1 \in Nat
      BY <1>1, <2>2
    <3>2. Cardinality(1 .. n - 1) = n - 1
      BY <1>2, <3>1
    <3> QED BY Zenon, <2>4, <3>1, <3>2
  <2>6. \A j \in 1 .. n - 1 : j \in 1 .. n /\ recs[j].crc_ok
    BY <1>1, <2>3
  <2> QED BY <1>1, <1>4, <2>5, <2>6 DEF n
<1> QED BY <1>3, <1>4

LEMMA GoodCountIs ==
  ASSUME ScanInv, OnlyLastFails
  PROVE  /\ GoodCount \in Nat /\ Len(records) \in Nat
         /\ AllGood => GoodCount = Len(records)
         /\ ~AllGood => GoodCount = Len(records) - 1 /\ done
         /\ \A k \in 1 .. GoodCount : k \in 1 .. Len(records) /\ records[k].crc_ok
<1>1. records \in Seq(Record)
  BY DEF ScanInv, TypeOK
<1>2. \A k \in 1 .. Len(records) : ~records[k].crc_ok => k = Len(records) /\ done
  BY DEF OnlyLastFails
<1> QED BY <1>1, <1>2, GoodOnes DEF GoodCount, AllGood

(***************************************************************************)
(* As long as a record is owed the scan goes on, and has not met a bad one. *)
(***************************************************************************)
OwedIsComing ==
  IsOwed(GoodCount + 1) =>
    /\ AllGood /\ ~done /\ ~Ended
    /\ pc = "first_page" \/ Reading => readable_pages = wal.pages

LEMMA InitOwedIsComing == LiveInit => OwedIsComing
  BY DEF LiveInit, ReaderInit, OwedIsComing, AllGood, Ended, Reading

\* Where the scan looks for an owed record, and where it goes on in the middle of one.
LEMMA OwedPlaces ==
  ASSUME ScanInv, FileIsWal, SeeksNext, CopiesNext, ~done, IsOwed(Len(records) + 1),
         readable_pages = wal.pages
  PROVE  /\ pc = "find" => LET n == lsn_to_page_no(read_lsn) IN Valid(n) /\ n < PageLimit
         /\ Copying /\ offset = Blcksz => Valid(page_no + 1) /\ page_no + 1 < PageLimit
<1> DEFINE k == Len(records) + 1
           u == wal.start[k]
           len == wal.lens[k]
<1>1. /\ u = NextPos(wal, Len(records)) /\ u \in Nat /\ len \in Nat /\ len > 0
      /\ EndOf(wal, k) = u + len
  <2>1. k - 1 = Len(records)
    <3>1. Len(records) \in Nat
      BY LenProperties DEF ScanInv, TypeOK
    <3> QED BY <3>1
  <2>2. /\ u = NextPos(wal, k - 1) /\ u \in Nat /\ len \in Nat /\ LengthInRange(len)
        /\ EndOf(wal, k) = u + len
    BY OwedRecord
  <2> HIDE DEF k, u, len
  <2> QED BY <2>1, <2>2, GeometryAssumption DEF LengthInRange
<1>2. \A n \in Nat : FirstContent(n) < u + len => n \in PageNo /\ n < wal.pages /\ Valid(n)
  BY <1>1, OwedPages
<1>3. \A n \in PageNo : n \in Nat /\ (n < wal.pages => n < PageLimit)
  BY GeometryAssumption DEF PageNo, PageLimit
<1>4. ASSUME pc = "find"
      PROVE  LET n == lsn_to_page_no(read_lsn) IN Valid(n) /\ n < PageLimit
  <2> DEFINE n == lsn_to_page_no(read_lsn)
             o == lsn_to_page_offset(read_lsn)
  <2>1. n \in PageNo /\ o \in Offset
    BY PageOfLsn DEF ScanInv, TypeOK
  <2>2. \/ o >= HeaderOf(n) /\ ContentAt(n, o) = u
        \/ o = 0 /\ FirstContent(n) = u
        \/ o = 0 /\ FirstContent(n) < u
    BY <1>1, <1>4 DEF SeeksNext
  <2> HIDE DEF n, o, u, len
  <2>3. n \in Nat /\ o \in Nat /\ FirstContent(n) \in Nat /\ HeaderOf(n) \in Nat
    <3>1. n \in Nat /\ o \in Nat
      BY <1>3, <2>1, GeometryAssumption DEF Offset
    <3> QED BY <3>1, FirstContentNext, HeaderOfType
  <2>4. FirstContent(n) < u + len
    BY <1>1, <2>2, <2>3 DEF ContentAt
  <2> QED BY <1>2, <1>3, <2>3, <2>4 DEF n
<1>5. ASSUME Copying, offset = Blcksz PROVE Valid(page_no + 1) /\ page_no + 1 < PageLimit
  <2>1. pc \in {"copy_header", "copy_body"} /\ remaining > 0 /\ Reading
    BY <1>5 DEF Copying, Reading
  <2>2. /\ Len(record_buffer) \in Nat /\ Len(record_buffer) + remaining <= len
        /\ ContentAt(page_no, offset) = u + Len(record_buffer)
    BY <2>1, OwedCopy
  <2>3. page_no \in Nat /\ remaining \in Nat
    BY <1>3, <2>1 DEF ScanInv, TypeOK, BufferedPageIsValid, PageNo
  <2>4. /\ FirstContent(page_no) \in Nat /\ page_no + 1 \in Nat
        /\ FirstContent(page_no + 1) = FirstContent(page_no) + (Blcksz - HeaderOf(page_no))
        /\ HeaderOf(page_no) \in Nat /\ Blcksz \in Nat
    <3>1. Blcksz \in Nat /\ page_no + 1 \in Nat
      BY <2>3, GeometryAssumption
    <3> QED BY <2>3, <3>1, FirstContentNext, HeaderOfType
  <2> HIDE DEF k, u, len
  <2>5. FirstContent(page_no + 1) < u + len
    BY <1>1, <1>5, <2>1, <2>2, <2>3, <2>4 DEF ContentAt
  <2> QED BY <1>2, <1>3, <2>4, <2>5
<1> QED BY <1>4, <1>5

LEMMA NextOwedIsComing ==
  ASSUME ScanInv, ScanInv', FileIsWal, WalInv, OnlyLastFails, OnlyLastFails', OwedIsComing,
         [LiveNext]_LiveVars
  PROVE  OwedIsComing'
<1> SUFFICES ASSUME IsOwed(GoodCount + 1)'
             PROVE  /\ AllGood' /\ ~done' /\ ~Ended'
                    /\ (pc = "first_page" \/ Reading => readable_pages = wal.pages)'
  BY DEF OwedIsComing
<1>1. wal' = wal /\ at_open' = at_open /\ \A k : IsOwed(k)' <=> IsOwed(k)
  BY DEF LiveNext, ReaderSteps, ServerWrites, LiveVars, live, IsOwed, IsIn, IsIntact
<1>2. IsOwed(GoodCount' + 1)
  BY <1>1
<1>3. CASE ServerWrites \/ UNCHANGED LiveVars
  <2>1. GoodCount' = GoodCount /\ (AllGood' <=> AllGood) /\ (Ended' <=> Ended)
    BY <1>3 DEF ServerWrites, LiveVars, vars, reader, app, GoodCount, AllGood, Ended
  <2> QED BY <1>1, <1>2, <1>3, <2>1
          DEF ServerWrites, LiveVars, vars, reader, buffer, locals, app, OwedIsComing, Reading
<1>4. CASE ReaderSteps
  <2>1. Step
    BY <1>4 DEF ReaderSteps
  <2>2. CASE ReturnRecord
    <3> DEFINE n == Len(records)
               ok == verify_record_crc(record_buffer)
    <3>1. /\ pc = "copy_body" /\ remaining = 0 /\ pc' = "idle" /\ done' = (done \/ ~ok)
          /\ readable_pages' = readable_pages
      BY <2>2 DEF ReturnRecord, StopAtBadCrc
    <3>2. PICK r : r.crc_ok = ok /\ records' = Append(records, r)
      <4>1. \E r : r.crc_ok = ok /\ records' = Append(records, r)
        <5> DEFINE r == [lsn |-> record_lsn, raw |-> record_buffer,
                         crc_ok |-> ok, file_ranges |-> file_ranges]
        <5>1. r.crc_ok = ok
          OBVIOUS
        <5>2. records' = Append(records, r)
          BY <2>2 DEF ReturnRecord
        <5> HIDE DEF r
        <5> QED BY <5>1, <5>2
      <4> QED BY <4>1
    <3>3. /\ n \in Nat /\ Len(records') = n + 1 /\ records'[n + 1] = r
          /\ \A i \in 1 .. n : records'[i] = records[i]
      <4>1. records \in Seq(Record)
        BY DEF ScanInv, TypeOK
      <4> QED BY <3>2, <4>1
    <3>4. AllGood' <=> AllGood /\ ok
      <4>1. AllGood' <=> \A i \in 1 .. n + 1 : records'[i].crc_ok
        BY <3>3 DEF AllGood
      <4>2. 1 .. n + 1 = 1 .. n \cup {n + 1}
        BY <3>3
      <4>3. AllGood <=> \A i \in 1 .. n : records[i].crc_ok
        BY DEF AllGood
      <4> QED BY <3>2, <3>3, <4>1, <4>2, <4>3
    <3>5. /\ GoodCount \in Nat /\ (AllGood => GoodCount = n)
          /\ (~AllGood => GoodCount = n - 1)
      BY GoodCountIs
    <3>6. /\ GoodCount' \in Nat /\ (AllGood' => GoodCount' = n + 1)
          /\ (~AllGood' => GoodCount' = n)
      <4>1. /\ GoodCount' \in Nat /\ (AllGood' => GoodCount' = Len(records'))
            /\ (~AllGood' => GoodCount' = Len(records') - 1)
        <5>1. records' \in Seq(Record)
          BY DEF ScanInv, TypeOK
        <5>2. \A k \in 1 .. Len(records') : ~records'[k].crc_ok => k = Len(records')
          BY DEF OnlyLastFails
        <5> QED BY <5>1, <5>2, GoodOnes DEF GoodCount, AllGood
      <4> QED BY <3>3, <4>1
    <3>7. IsOwed(GoodCount + 1)
      <4> DEFINE g == GoodCount + 1
                 h == GoodCount' + 1
      <4>1. g \in Nat \ {0} /\ h \in Nat /\ g <= h
        <5>1. GoodCount \in Nat /\ GoodCount' \in Nat /\ n \in Nat
          BY <3>3, <3>5, <3>6
        <5>2. GoodCount <= GoodCount'
          <6>1. CASE AllGood
            BY <3>3, <3>5, <3>6, <6>1
          <6>2. CASE ~AllGood
            BY <3>3, <3>4, <3>5, <3>6, <6>2
          <6> QED BY <6>1, <6>2
        <5>3. \A x, y \in Nat : x <= y => x + 1 \in Nat \ {0} /\ y + 1 \in Nat /\ x + 1 <= y + 1
          OBVIOUS
        <5> QED BY Zenon, <5>1, <5>2, <5>3
      <4>2. IsOwed(h)
        BY <1>2
      <4> HIDE DEF g, h
      <4>3. IsLayout(wal) /\ at_open \in Nat /\ Last(wal) \in Nat
        BY LayoutAssumption, LayoutType DEF FileIsWal
      <4>4. /\ InFile(wal, at_open) \in Nat /\ Intact(wal) \in Nat
            /\ \A r_1 \in 1 .. Last(wal) : IsIn(wal, at_open, r_1) <=> r_1 <= InFile(wal, at_open)
            /\ \A r_1 \in 1 .. Last(wal) : IsIntact(wal, r_1) <=> r_1 <= Intact(wal)
        BY <4>3, CountsOfWal
      <4>5. h \in 1 .. Last(wal) /\ g \in 1 .. Last(wal)
        BY <4>1, <4>2, <4>3 DEF IsOwed
      <4>6. IsOwed(g)
        BY <4>1, <4>2, <4>4, <4>5 DEF IsOwed
      <4> QED BY <4>6 DEF g
    <3>8. AllGood /\ ~done /\ readable_pages = wal.pages
      BY <3>1, <3>7 DEF OwedIsComing, Reading
    <3>9. IsOwed(n + 1)
      BY <3>5, <3>7, <3>8
    <3>10. ok
      BY <3>1, <3>9, OwedIsAccepted DEF WalInv
    <3> QED BY <1>1, <3>1, <3>4, <3>8, <3>10 DEF Ended
  <2>3. CASE ~ReturnRecord
    <3>1. records' = records
      BY <2>1, <2>3 DEF Step, OpenFails, Open, LoadFirstPage, LoadNextRecord,
         FindReachesEnd, FindCannotLoad, FindSkipsPage, FindRecord, FindOn, CopyReachesEnd,
         CopyNextPage, CopyTake, HeaderEndsScan, HeaderCopied, DecodeFails, NothingToShow,
         ReadFileAgain, ReturnErr, ReturnNone, app
    <3>2. GoodCount' = GoodCount /\ (AllGood' <=> AllGood)
      BY <3>1 DEF GoodCount, AllGood
    <3>3. IsOwed(GoodCount + 1) /\ AllGood'
      BY <1>2, <3>2 DEF OwedIsComing
    <3>4. /\ AllGood /\ ~done /\ ~Ended /\ GoodCount = Len(records)
          /\ pc = "first_page" \/ Reading => readable_pages = wal.pages
      BY <3>3, GoodCountIs DEF OwedIsComing
    <3>5. IsOwed(Len(records) + 1)
      BY <3>3, <3>4
    <3>6. /\ Valid(0) /\ file_pages > 0 /\ segment[0].magic_ok /\ is_long(segment[0])
      <4>1. FirstContent(0) = 0 /\ 0 \in Nat
        BY DEF FirstContent
      <4>2. EndOf(wal, Len(records) + 1) > 0
        <5> DEFINE k == Len(records) + 1
        <5>1. /\ EndOf(wal, k) = wal.start[k] + wal.lens[k] /\ wal.start[k] \in Nat
              /\ wal.lens[k] \in Nat /\ LengthInRange(wal.lens[k])
          BY <3>5, OwedRecord
        <5> HIDE DEF k
        <5>2. EndOf(wal, k) > 0
          BY <5>1, GeometryAssumption DEF LengthInRange
        <5> QED BY <5>2 DEF k
      <4> QED BY <3>5, <4>1, <4>2, OwedPages
    <3>7. /\ pc = "find" => LET n == lsn_to_page_no(read_lsn) IN Valid(n) /\ n < PageLimit
          /\ Copying /\ offset = Blcksz => Valid(page_no + 1) /\ page_no + 1 < PageLimit
      <4>1. CASE Reading
        BY <3>4, <3>5, <4>1, OwedPlaces DEF WalInv
      <4>2. CASE ~Reading
        BY <4>2 DEF Reading, Copying
      <4> QED BY <4>1, <4>2
    <3>8. pc \in {"copy_header", "copy_body"} /\ remaining = 0 =>
            /\ pc = "copy_header" =>
                 \A len \in TotLens(record_buffer[1]) : len # 0 /\ LengthInRange(len)
            /\ pc = "copy_body" => DecodeOutcomes(record_buffer) = {TRUE}
      BY <3>5, OwedIsAccepted DEF WalInv
    <3>9. ~OpenFails
      BY <3>6 DEF OpenFails, Errors
    <3>10. ~FindReachesEnd /\ ~FindCannotLoad
      <4>1. PageLimit \in Int
        BY PageLimitType, GeometryAssumption DEF ScanInv
      <4>2. pc = "find" => lsn_to_page_no(read_lsn) \in Nat
        <5>1. lsn_to_page_no(read_lsn) \in PageNo
          BY PageOfLsn DEF ScanInv, TypeOK
        <5>2. PageNo \subseteq Nat
          BY GeometryAssumption DEF PageNo
        <5> QED BY <5>1, <5>2
      <4> QED BY <3>7, <4>1, <4>2 DEF FindReachesEnd, FindCannotLoad
    <3>11. ~CopyReachesEnd
      <4>1. PageLimit \in Int
        BY PageLimitType, GeometryAssumption DEF ScanInv
      <4>2. Copying => page_no \in 0 .. readable_pages - 1 /\ readable_pages \in Nat
        <5>1. Copying => Reading
          BY DEF Copying, Reading
        <5>2. readable_pages \in Nat
          BY GeometryAssumption DEF ScanInv, TypeOK
        <5> QED BY <5>1, <5>2 DEF ScanInv, BufferedPageIsValid
      <4>3. Copying => page_no \in Int
        BY <4>2
      <4> QED BY <3>7, <4>1, <4>3 DEF CopyReachesEnd
    <3>12. ~HeaderEndsScan /\ ~DecodeFails
      BY <3>8 DEF HeaderEndsScan, DecodeFails
    <3>13. ~NothingToShow /\ ~ReadFileAgain
      BY <3>4 DEF NothingToShow, ReadFileAgain, Ended
    <3>14. CASE Open
      BY <1>1, <3>3, <3>4, <3>14 DEF Open, Ended, Reading, FileIsWal
    <3>15. CASE LoadFirstPage
      BY <1>1, <3>3, <3>4, <3>6, <3>15 DEF LoadFirstPage, Ended, Reading
    <3>16. CASE LoadNextRecord
      BY <1>1, <3>3, <3>4, <3>16 DEF LoadNextRecord, Ended, Reading
    <3>17. CASE FindSkipsPage \/ FindRecord
      BY <1>1, <3>3, <3>4, <3>17 DEF FindSkipsPage, FindRecord, FindOn, Ended, Reading
    <3>18. CASE CopyNextPage \/ CopyTake
      BY <1>1, <3>3, <3>4, <3>18 DEF CopyNextPage, CopyTake, Copying, buffer, app, Ended, Reading
    <3>19. CASE HeaderCopied
      BY <1>1, <3>3, <3>4, <3>19 DEF HeaderCopied, Ended, Reading
    <3> QED BY <2>1, <2>3, <3>9, <3>10, <3>11, <3>12, <3>13, <3>14, <3>15, <3>16, <3>17, <3>18,
               <3>19 DEF Step
  <2> QED BY <2>2, <2>3
<1> QED BY <1>3, <1>4 DEF LiveNext
-----------------------------------------------------------------------------
(* What is shown is there.                                                 *)

\* The scan never gets past a page with a damaged header.
BeforeFault ==
  wal.fault_page # NO_PAGE =>
    /\ Reading => page_no < wal.fault_page
    /\ pc \in {"open", "first_page", "idle", "find"} /\ ~done =>
         lsn_to_page_no(read_lsn) <= wal.fault_page

\* A damaged cell is a cell of its record, and shows.
LEMMA FlippedShows ==
  ASSUME NEW w, IsLayout(w), NEW k \in 0 .. Last(w), ~Aborted(w, k), w.start[k] \in Nat,
         w.lens[k] \in Nat, NEW i \in Nat, <<k, i>> \in w.flipped
  PROVE  /\ i \in 0 .. w.lens[k] - 1
         /\ CellOf(w, w.start[k] + i) = RecordCell(k, w.lens[k], i, FALSE)
<1> DEFINE u == w.start[k]
           len == w.lens[k]
<1>1. i \in 0 .. len - 1
  <2>1. w.flipped \subseteq UNION {{r} \X (0 .. w.lens[r] - 1) : r \in DOMAIN w.lens}
    BY DEF IsLayout
  <2>2. PICK r \in DOMAIN w.lens : <<k, i>> \in {r} \X (0 .. w.lens[r] - 1)
    BY <2>1
  <2>3. r = k /\ i \in 0 .. w.lens[r] - 1
    BY <2>2
  <2> QED BY <2>3
<1>2. EndOf(w, k) = u + len
  BY DEF EndOf
<1>3. /\ Holds(w, k, u + i) /\ u + i \in Int /\ (u + i) - u = i
  BY <1>1, <1>2 DEF Holds
<1>4. CellOf(w, u + i) = RecordCell(k, len, (u + i) - u, <<k, (u + i) - u>> \notin w.flipped)
  BY <1>3, CellOfRecord
<1> QED BY <1>1, <1>3, <1>4

\* A good record ends before the next page begins, and so does its padding.
LEMMA GoodEnds ==
  ASSUME ScanInv, FileIsWal, RecordsAreWal, CopiesNext, pc = "copy_body", remaining = 0,
         verify_record_crc(record_buffer)
  PROVE  LET k == Len(records) + 1 IN
         /\ k \in 1 .. Last(wal) /\ IsLayout(wal) /\ ~Aborted(wal, k)
         /\ \A i \in Nat : <<k, i>> \notin wal.flipped
         /\ page_no \in PageNo /\ page_no \in Nat /\ FirstContent(page_no + 1) \in Nat
         /\ EndOf(wal, k) \in Nat /\ EndOf(wal, k) <= FirstContent(page_no + 1)
         /\ NextPos(wal, k) \in Nat /\ NextPos(wal, k) <= FirstContent(page_no + 1)
         /\ EndOf(wal, k) <= flushed
<1> DEFINE k == Len(records) + 1
           u == wal.start[k]
           len == wal.lens[k]
           E == FirstContent(page_no + 1)
<1>1. /\ k \in 1 .. Last(wal) /\ u = NextPos(wal, Len(records)) /\ ~Aborted(wal, k)
      /\ Len(record_buffer) = len
      /\ \A i \in 0 .. len - 1 : u + i < flushed /\ CellOf(wal, u + i) = RecordCell(k, len, i, TRUE)
  BY WholeRecord
<1>2. IsLayout(wal) /\ k \in 0 .. Last(wal) /\ k # 0 /\ flushed \in Nat
  BY <1>1, LayoutAssumption, LayoutType, StopsType DEF FileIsWal
<1>3. u \in Nat /\ Aligned(u) /\ len \in Nat /\ len > 0
  BY <1>1, <1>2, RecordsInOrder, LayoutType
<1>4. EndOf(wal, k) = u + len /\ NextPos(wal, k) = u + maxalign(len)
  BY <1>1, <1>2, <1>3, NextPosBehind DEF EndOf
<1>5. Reading
  BY DEF Reading
<1>6. page_no \in PageNo /\ page_no \in Nat /\ offset \in Nat /\ offset <= Blcksz /\ Blcksz \in Nat
  BY <1>5, GeometryAssumption DEF ScanInv, TypeOK, BufferedPageIsValid, PageNo
<1>7. /\ FirstContent(page_no) \in Nat /\ HeaderOf(page_no) \in Nat
      /\ E = FirstContent(page_no) + (Blcksz - HeaderOf(page_no))
  BY <1>6, FirstContentNext, HeaderOfType
<1>8. E \in Nat /\ Aligned(E)
  BY <1>6, FirstContentNext
<1>9. ContentAt(page_no, offset) = u + len
  BY <1>1, <1>5 DEF CopiesNext
<1>10. \A i \in Nat : <<k, i>> \notin wal.flipped
  <2> SUFFICES ASSUME NEW i \in Nat, <<k, i>> \in wal.flipped PROVE FALSE
    OBVIOUS
  <2>1. i \in 0 .. len - 1 /\ CellOf(wal, u + i) = RecordCell(k, len, i, FALSE)
    BY <1>1, <1>2, <1>3, FlippedShows
  <2>2. RecordCell(k, len, i, TRUE) = RecordCell(k, len, i, FALSE)
    BY <1>1, <2>1
  <2>3. RecordCell(k, len, i, TRUE).good # RecordCell(k, len, i, FALSE).good
    BY DEF RecordCell
  <2> QED BY <2>2, <2>3
<1> HIDE DEF k, u, len, E
<1>11. u + len <= E
  BY <1>3, <1>6, <1>7, <1>9 DEF ContentAt
<1>12. u + maxalign(len) <= E /\ u + maxalign(len) \in Nat
  <2> DEFINE d == E - u
  <2>1. d \in Nat /\ len <= d /\ E = u + d /\ E >= u
    BY <1>3, <1>8, <1>11
  <2>2. Aligned(d)
    BY <1>3, <1>8, <2>1, AlignedSum
  <2> HIDE DEF d
  <2>3. maxalign(len) <= d /\ maxalign(len) \in Nat
    BY <1>3, <2>1, <2>2, MaxAlignLeast
  <2> QED BY <1>3, <2>1, <2>3
<1>13. u + len <= flushed /\ u + len \in Nat
  <2>1. len - 1 \in 0 .. len - 1
    BY <1>3
  <2>2. u + (len - 1) < flushed
    BY <1>1, <2>1
  <2> QED BY <1>2, <1>3, <2>2
<1> QED BY <1>1, <1>2, <1>4, <1>6, <1>8, <1>10, <1>11, <1>12, <1>13 DEF k, E

LEMMA InitBeforeFault == LiveInit => BeforeFault
<1> SUFFICES ASSUME LiveInit, wal.fault_page # NO_PAGE
             PROVE  ~Reading /\ lsn_to_page_no(read_lsn) <= wal.fault_page
  BY DEF BeforeFault
<1>1. pc = "open" /\ read_lsn = SegStart /\ wal \in Layouts
  BY DEF LiveInit, ReaderInit
<1>2. lsn_to_page_no(SegStart) = 0
  <2>1. 0 \in PageNo /\ 0 \in Offset /\ SegStart \in Nat /\ 0 * Blcksz = 0
    BY Segment DEF PageNo, Offset
  <2>2. SegStart = page_start_lsn(0) + 0
    BY <2>1 DEF page_start_lsn
  <2> QED BY <2>1, <2>2, LsnOfPage
<1>3. wal.fault_page \in PageNo
  BY <1>1, LayoutAssumption DEF IsLayout
<1> QED BY <1>1, <1>2, <1>3, GeometryAssumption DEF PageNo, Reading

LEMMA NextBeforeFault ==
  ASSUME ScanInv, ScanInv', WorkingNotDone, FileIsWal, WalInv, SeeksNext', BeforeFault,
         [LiveNext]_LiveVars
  PROVE  BeforeFault'
<1>1. CASE ServerWrites \/ UNCHANGED LiveVars
  BY <1>1 DEF ServerWrites, LiveVars, vars, live, reader, buffer, locals, app, BeforeFault, Reading
<1>2. CASE ReaderSteps
  <2> DEFINE n == lsn_to_page_no(read_lsn)
             F == wal.fault_page
  <2>1. Step /\ wal' = wal
    BY <1>2 DEF ReaderSteps, live
  <2> SUFFICES ASSUME F # NO_PAGE
               PROVE  /\ Reading' => page_no' < F
                      /\ pc' \in {"open", "first_page", "idle", "find"} /\ ~done' =>
                           lsn_to_page_no(read_lsn') <= F
    BY <2>1 DEF BeforeFault
  <2>2. F \in PageNo /\ F \in Nat
    <3>1. F \in PageNo
      BY LayoutAssumption DEF FileIsWal, IsLayout
    <3> HIDE DEF F
    <3> QED BY <3>1, GeometryAssumption DEF PageNo
  <2>3. \A p \in PageNo : Valid(p) => p # F
    BY ValidIsWal DEF FileIsWal, HoldsWal
  <2>4. n \in PageNo /\ n \in Nat
    <3>1. n \in PageNo
      BY PageOfLsn DEF ScanInv, TypeOK
    <3> HIDE DEF n
    <3> QED BY <3>1, GeometryAssumption DEF PageNo
  <2>5. Reading => page_no \in PageNo /\ page_no \in Nat /\ page_no < F
    BY GeometryAssumption DEF BeforeFault, ScanInv, TypeOK, BufferedPageIsValid, PageNo
  <2>6. pc \in {"open", "first_page", "idle", "find"} /\ ~done => n <= F
    BY DEF BeforeFault
  <2>7. ASSUME FindOn(n), ~done PROVE page_no' < F /\ n < F
    <3>1. pc = "find" /\ page_no' = n /\ (page_no = n \/ Valid(n))
      BY <2>7 DEF FindOn
    <3>2. n < F
      <4>1. CASE page_no = n
        BY <2>5, <3>1, <4>1 DEF Reading
      <4>2. CASE Valid(n)
        BY <2>2, <2>3, <2>4, <2>6, <2>7, <3>1, <4>2
      <4> QED BY <3>1, <4>1, <4>2
    <3> QED BY <3>1, <3>2
  <2>8. pc = "find" => ~done
    BY DEF WorkingNotDone
  <2> HIDE DEF n, F
  <2>9. CASE OpenFails \/ FindReachesEnd \/ FindCannotLoad \/ CopyReachesEnd \/ HeaderEndsScan
             \/ DecodeFails \/ NothingToShow \/ ReadFileAgain
    BY <2>9 DEF OpenFails, FindReachesEnd, FindCannotLoad, CopyReachesEnd, HeaderEndsScan,
       DecodeFails, NothingToShow, ReadFileAgain, ReturnNone, ReturnErr, Reading
  <2>10. CASE Open
    BY <2>6, <2>10 DEF Open, Reading, n
  <2>11. CASE LoadFirstPage
    <3>1. 0 \in PageNo
      BY Segment DEF PageNo
    <3>2. CASE Valid(0) /\ pc' = "idle"
      <4>1. page_no' = 0 /\ read_lsn' = read_lsn /\ done' = done /\ pc = "first_page"
        BY <2>11, <3>2 DEF LoadFirstPage, load_page, Valid
      <4>2. 0 < F
        BY <2>2, <2>3, <3>1, <3>2
      <4> QED BY <2>6, <3>2, <4>1, <4>2 DEF n
    <3>3. CASE pc' = "stopped"
      BY <3>3 DEF Reading
    <3> QED BY <2>11, <3>2, <3>3 DEF LoadFirstPage, ReturnErr
  <2>12. CASE LoadNextRecord
    BY <2>5, <2>6, <2>12 DEF LoadNextRecord, buffer, ReturnNone, Reading, n
  <2>13. CASE FindSkipsPage
    <3>1. FindOn(n) /\ pc' = pc /\ pc = "find" /\ read_lsn' = page_start_lsn(n + 1)
      BY <2>13 DEF FindSkipsPage, FindOn, n
    <3>2. n + 1 \in PageNo /\ n + 1 <= F /\ page_no' < F
      <4>1. n < F /\ page_no' < F
        BY <2>7, <2>8, <3>1
      <4> QED BY <2>2, <2>4, <4>1, GeometryAssumption DEF PageNo
    <3>3. lsn_to_page_no(read_lsn') = n + 1
      <4>1. 0 \in Offset /\ page_start_lsn(n + 1) + 0 = page_start_lsn(n + 1)
        BY <3>2, PageEnd, Segment DEF Offset
      <4> QED BY <3>1, <3>2, <4>1, LsnOfPage
    <3> QED BY <3>2, <3>3
  <2>14. CASE FindRecord
    <3>1. FindOn(n) /\ pc' = "copy_header" /\ pc = "find"
      BY <2>14 DEF FindRecord, FindOn, n
    <3> QED BY <2>7, <2>8, <3>1
  <2>15. CASE CopyNextPage
    <3> DEFINE next == page_no + 1
    <3>1. /\ pc \in {"copy_header", "copy_body"} /\ Valid(next) /\ page_no' = next /\ pc' = pc
      BY <2>15 DEF CopyNextPage, Copying, load_page, Valid, app
    <3>2. next \in PageNo /\ next \in Nat /\ next <= F
      BY <2>2, <2>5, <3>1, GeometryAssumption DEF PageNo, Reading
    <3> HIDE DEF next
    <3> QED BY <2>2, <2>3, <3>1, <3>2
  <2>16. CASE CopyTake \/ HeaderCopied
    BY <2>5, <2>16 DEF CopyTake, HeaderCopied, Copying, buffer, app, Reading
  <2>17. CASE ReturnRecord
    <3> DEFINE k == Len(records) + 1
               m == lsn_to_page_no(read_lsn')
               o == lsn_to_page_offset(read_lsn')
               E == FirstContent(page_no + 1)
    <3>1. /\ pc = "copy_body" /\ remaining = 0 /\ pc' = "idle" /\ page_no' = page_no
          /\ done' = (done \/ ~verify_record_crc(record_buffer))
          /\ records' # <<>> /\ Len(records') = k
      <4>1. records \in Seq(Record)
        BY DEF ScanInv, TypeOK
      <4>2. PICK r : records' = Append(records, r)
        BY <2>17 DEF ReturnRecord
      <4>3. records' # <<>> /\ Len(records') = k
        BY <4>1, <4>2, AppendProperties
      <4> QED BY <2>17, <4>3 DEF ReturnRecord, StopAtBadCrc, buffer
    <3>2. page_no < F /\ page_no \in Nat
      BY <2>5, <3>1 DEF Reading
    <3>3. SUFFICES ASSUME ~done' PROVE m <= F
      BY <3>1, <3>2
    <3>4. verify_record_crc(record_buffer)
      BY <3>1, <3>3
    <3>5. NextPos(wal, k) \in Nat /\ NextPos(wal, k) <= E /\ E \in Nat
      BY <3>1, <3>4, GoodEnds DEF WalInv
    <3>6. E <= FirstContent(F) /\ FirstContent(F) \in Nat
      BY <2>2, <3>2, FirstContentGrows, FirstContentNext
    <3>7. \/ o >= HeaderOf(m) /\ ContentAt(m, o) = NextPos(wal, k)
          \/ o = 0 /\ FirstContent(m) = NextPos(wal, k)
      BY <2>1, <3>1, <3>3 DEF SeeksNext
    <3>8. m \in Nat /\ o \in Nat
      <4>1. m \in PageNo /\ o \in Offset
        BY PageOfLsn DEF ScanInv, TypeOK
      <4> HIDE DEF m, o
      <4> QED BY <4>1, GeometryAssumption DEF PageNo, Offset
    <3>9. FirstContent(m) \in Nat /\ HeaderOf(m) \in Nat
      BY <3>8, FirstContentNext, HeaderOfType
    <3> HIDE DEF m, o, k, E
    <3>10. FirstContent(m) <= FirstContent(F)
      BY <3>5, <3>6, <3>7, <3>8, <3>9 DEF ContentAt
    <3> QED BY <2>2, <3>8, <3>10, NotBehind
  <2> QED BY <2>1, <2>9, <2>10, <2>11, <2>12, <2>13, <2>14, <2>15, <2>16, <2>17 DEF Step
<1> QED BY <1>1, <1>2 DEF LiveNext
\* A good record is there, and before any damage.
ShownAreThere ==
  \A k \in 1 .. Len(records) : records[k].crc_ok => IsIn(wal, flushed, k) /\ IsIntact(wal, k)

LEMMA NextShownAreThere ==
  ASSUME ScanInv, WorkingNotDone, FileIsWal, WalInv, OnlyLastFails, BeforeFault,
         ShownAreThere, [LiveNext]_LiveVars
  PROVE  ShownAreThere'
<1>1. wal' = wal
  BY DEF LiveNext, ReaderSteps, ServerWrites, LiveVars, live
<1>2. IsLayout(wal) /\ Last(wal) \in Nat /\ flushed \in Nat
  BY LayoutAssumption, LayoutType, StopsType DEF FileIsWal
<1>3. CASE ServerWrites \/ UNCHANGED LiveVars
  <2>1. records' = records /\ flushed' \in Nat /\ flushed <= flushed'
    BY <1>2, <1>3, StopsType DEF ServerWrites, LiveVars, vars, live, reader, app
  <2>2. ASSUME NEW k \in 1 .. Len(records), records[k].crc_ok
        PROVE  IsIn(wal, flushed', k) /\ IsIntact(wal, k)
    <3>1. IsIn(wal, flushed, k) /\ IsIntact(wal, k)
      BY <2>2 DEF ShownAreThere
    <3>2. EndOf(wal, k) \in Nat
      <4>1. k \in WalRecords(wal)
        BY <2>2 DEF WalInv, RecordsAreWal
      <4>2. WalRecords(wal) = 1 .. Last(wal)
        BY DEF WalRecords
      <4>3. k \in 0 .. Last(wal)
        BY <1>2, <4>1, <4>2
      <4> QED BY <1>2, <4>3, EndsInOrder
    <3> QED BY <1>2, <2>1, <3>1, <3>2 DEF IsIn
  <2> QED BY <1>1, <2>1, <2>2 DEF ShownAreThere
<1>4. CASE ReaderSteps /\ ReturnRecord
  <2> DEFINE n == Len(records)
             k == n + 1
             ok == verify_record_crc(record_buffer)
  <2>1. pc = "copy_body" /\ remaining = 0 /\ ~done /\ flushed' = flushed
    BY <1>4 DEF ReaderSteps, live, ReturnRecord, WorkingNotDone
  <2>2. /\ n \in Nat /\ Len(records') = k /\ records'[k].crc_ok = ok
        /\ \A i \in 1 .. n : records'[i] = records[i]
    <3> DEFINE r == [lsn |-> record_lsn, raw |-> record_buffer,
                     crc_ok |-> ok, file_ranges |-> file_ranges]
    <3>1. r.crc_ok = ok
      OBVIOUS
    <3>2. records' = Append(records, r) /\ records \in Seq(Record)
      BY <1>4 DEF ReturnRecord, ScanInv, TypeOK
    <3> HIDE DEF r, ok
    <3> QED BY <3>1, <3>2
  <2>3. \A i \in 1 .. n : records[i].crc_ok /\ IsIn(wal, flushed, i) /\ IsIntact(wal, i)
    BY <2>1 DEF OnlyLastFails, ShownAreThere
  <2>4. ASSUME ok PROVE IsIn(wal, flushed, k) /\ IsIntact(wal, k)
    <3>1. /\ k \in 1 .. Last(wal) /\ ~Aborted(wal, k)
          /\ \A i \in Nat : <<k, i>> \notin wal.flipped
          /\ page_no \in PageNo /\ page_no \in Nat /\ FirstContent(page_no + 1) \in Nat
          /\ EndOf(wal, k) \in Nat /\ EndOf(wal, k) <= FirstContent(page_no + 1)
          /\ EndOf(wal, k) <= flushed
      BY <2>1, <2>4, GoodEnds DEF WalInv
    <3>2. \A p \in Nat : page_no < p => EndOf(wal, k) <= FirstContent(p)
      <4> TAKE p \in Nat
      <4> SUFFICES ASSUME page_no < p PROVE EndOf(wal, k) <= FirstContent(p)
        OBVIOUS
      <4>1. FirstContent(page_no + 1) <= FirstContent(p) /\ FirstContent(p) \in Nat
        BY <3>1, FirstContentGrows, FirstContentNext
      <4> HIDE DEF k
      <4> QED BY <3>1, <4>1
    <3>3. Reading
      BY <2>1 DEF Reading
    <3>4. EndOf(wal, k) <= FirstContent(wal.pages)
      <4>1. wal.pages \in Nat /\ page_no < wal.pages
        BY SMTT(30), <1>2, <3>1, <3>3, GeometryAssumption
           DEF FileIsWal, IsLayout, ScanInv, TypeOK, BufferedPageIsValid
      <4> QED BY <3>2, <4>1
    <3>5. wal.fault_page = NO_PAGE \/ EndOf(wal, k) <= FirstContent(wal.fault_page)
      <4> SUFFICES ASSUME wal.fault_page # NO_PAGE
                   PROVE  EndOf(wal, k) <= FirstContent(wal.fault_page)
        OBVIOUS
      <4>1. wal.fault_page \in PageNo /\ page_no < wal.fault_page
        BY <1>2, <3>3 DEF IsLayout, BeforeFault
      <4>2. wal.fault_page \in Nat
        BY <4>1, GeometryAssumption DEF PageNo
      <4> QED BY <3>2, <4>1, <4>2
    <3>6. \A d \in wal.flipped : d[1] = 0 \/ d[1] > k
      <4> SUFFICES ASSUME NEW d \in wal.flipped, d[1] # 0 PROVE d[1] > k
        OBVIOUS
      <4>1. PICK r \in DOMAIN wal.lens : d \in {r} \X (0 .. wal.lens[r] - 1)
        BY <1>2 DEF IsLayout
      <4>2. PICK i \in 0 .. wal.lens[r] - 1 : d = <<r, i>>
        BY <4>1
      <4>3. r \in Nat /\ r # 0 /\ i \in Nat /\ d[1] = r
        <5>1. DOMAIN wal.lens = 0 .. Last(wal) /\ wal.lens[r] \in Nat
          BY <1>2, LayoutType
        <5> QED BY <1>2, <4>2, <5>1
      <4>4. r # k
        BY <3>1, <4>2, <4>3
      <4>5. ASSUME r \in 1 .. n PROVE FALSE
        <5>1. IsIntact(wal, r)
          BY <2>3, <4>5
        <5>2. d[1] = 0 \/ d[1] > r
          BY <5>1 DEF IsIntact
        <5> QED BY <4>3, <5>2
      <4> QED BY <2>2, <4>3, <4>4, <4>5
    <3>7. \A q \in 1 .. k : ~Aborted(wal, q)
      <4> TAKE q \in 1 .. k
      <4>1. CASE q = k
        BY <3>1, <4>1
      <4>2. CASE q # k
        <5>1. q \in 1 .. n /\ q \in 1 .. q
          BY <2>2, <4>2
        <5>2. IsIntact(wal, q)
          BY <2>3, <5>1
        <5> QED BY <5>1, <5>2 DEF IsIntact
      <4> QED BY <4>1, <4>2
    <3> QED BY <3>1, <3>4, <3>5, <3>6, <3>7 DEF IsIn, IsIntact
  <2> SUFFICES ASSUME NEW j \in 1 .. k, records'[j].crc_ok
               PROVE  IsIn(wal, flushed, j) /\ IsIntact(wal, j)
    BY <1>1, <2>1, <2>2 DEF ShownAreThere
  <2>5. CASE j = k
    BY <2>2, <2>4, <2>5
  <2>6. CASE j # k
    <3>1. j \in 1 .. n
      BY <2>2, <2>6
    <3> QED BY <2>3, <3>1
  <2> QED BY <2>5, <2>6
<1>5. CASE ReaderSteps /\ ~ReturnRecord
  <2>1. records' = records /\ flushed' = flushed
    BY <1>5 DEF ReaderSteps, live, Step, OpenFails, Open, LoadFirstPage, LoadNextRecord,
       FindReachesEnd, FindCannotLoad, FindSkipsPage, FindRecord, FindOn, CopyReachesEnd,
       CopyNextPage, CopyTake, HeaderEndsScan, HeaderCopied, DecodeFails, NothingToShow,
       ReadFileAgain, ReturnErr, ReturnNone, app
  <2> QED BY <1>1, <2>1 DEF ShownAreThere
<1> QED BY <1>3, <1>4, <1>5 DEF LiveNext

-----------------------------------------------------------------------------
(* The scan implements WalScan.                                            *)

\* The server's writing takes no record out of the file.
LEMMA InFileGrows ==
  ASSUME NEW w, IsLayout(w), NEW f \in Nat, NEW g \in Nat, f <= g
  PROVE  InFile(w, f) <= InFile(w, g)
<1> DEFINE r == InFile(w, f)
<1>1. r \in Nat /\ InFile(w, g) \in Nat
  BY CountsOfWal
<1>2. SUFFICES ASSUME r # 0 PROVE r <= InFile(w, g)
  BY <1>1
<1>3. r \in 1 .. Last(w) /\ IsIn(w, f, r)
  <2>1. r \in Nat \ {0} /\ r <= InFile(w, f)
    BY <1>1, <1>2
  <2>2. r \in 1 .. Last(w)
    BY <2>1, CountsOfWal
  <2> QED BY <2>1, <2>2, CountsOfWal
<1>4. EndOf(w, r) \in Nat
  <2>1. r \in 0 .. Last(w)
    BY <1>3, LayoutType
  <2> QED BY <2>1, EndsInOrder
<1>5. IsIn(w, g, r)
  BY <1>3, <1>4 DEF IsIn
<1> QED BY <1>3, <1>5, CountsOfWal

\* What the scan has shown, as WalScan sees it.
Shown == [k \in 1 .. GoodCount |-> records[k].raw[1].rec]

ScanView ==
  /\ InFile(wal, flushed) \in Nat /\ InFile(wal, at_open) \in Nat /\ Intact(wal) \in Nat
  /\ GoodCount \in Nat /\ Len(records) \in Nat
  /\ AllGood => GoodCount = Len(records)
  /\ ~AllGood => GoodCount = Len(records) - 1 /\ done
  /\ Shown = [k \in 1 .. GoodCount |-> k]
  /\ GoodCount <= InFile(wal, flushed) /\ GoodCount <= Intact(wal)
  /\ GoodCount < InFile(wal, at_open) /\ GoodCount < Intact(wal) => AllGood /\ ~Ended

LEMMA ScanIsSeen ==
  ASSUME ScanInv, FileIsWal, WalInv, OnlyLastFails, OwedIsComing, ShownAreThere
  PROVE  ScanView
<1> DEFINE n == GoodCount
<1>1. IsLayout(wal) /\ flushed \in Nat /\ at_open \in Nat
  BY LayoutAssumption, StopsType DEF FileIsWal
<1>2. /\ InFile(wal, flushed) \in Nat /\ InFile(wal, at_open) \in Nat
      /\ Intact(wal) \in Nat
  BY <1>1, CountsOfWal
<1>3. /\ n \in Nat /\ Len(records) \in Nat
      /\ AllGood => n = Len(records)
      /\ ~AllGood => n = Len(records) - 1 /\ done
      /\ \A k \in 1 .. n : k \in 1 .. Len(records) /\ records[k].crc_ok
  BY GoodCountIs
<1>4. ASSUME NEW k \in 1 .. n
      PROVE  /\ k \in 1 .. Last(wal) /\ records[k].raw[1].rec = k
             /\ IsIn(wal, flushed, k) /\ IsIntact(wal, k)
  <2>1. k \in 1 .. Len(records) /\ records[k].crc_ok
    BY <1>3
  <2>2. /\ k \in WalRecords(wal)
        /\ records[k].raw = [i \in 1 .. wal.lens[k] |->
                               RecordCell(k, wal.lens[k], i - 1, TRUE)]
    BY <2>1 DEF WalInv, RecordsAreWal
  <2>3. k \in 1 .. Last(wal) /\ k \in 0 .. Last(wal)
    BY <1>1, <2>2, LayoutType
  <2>4. wal.lens[k] \in Nat /\ wal.lens[k] > 0
    BY <1>1, <2>3, LayoutType
  <2>5. records[k].raw[1] = RecordCell(k, wal.lens[k], 1 - 1, TRUE)
    <3>1. 1 \in 1 .. wal.lens[k]
      BY <2>4
    <3> QED BY Zenon, <2>2, <3>1
  <2>6. records[k].raw[1].rec = k
    BY <2>5 DEF RecordCell
  <2> QED BY <2>1, <2>3, <2>6 DEF ShownAreThere
<1>5. Shown = [k \in 1 .. n |-> k]
  BY <1>4 DEF Shown
<1>6. n <= InFile(wal, flushed) /\ n <= Intact(wal)
  <2>1. SUFFICES ASSUME n # 0 PROVE n <= InFile(wal, flushed) /\ n <= Intact(wal)
    BY <1>2, <1>3
  <2>2. n \in 1 .. n
    BY <1>3, <2>1
  <2> QED BY <1>1, <1>4, <2>2, CountsOfWal
<1>7. ASSUME n < InFile(wal, at_open), n < Intact(wal)
      PROVE  AllGood /\ ~Ended
  <2>1. n + 1 \in Nat \ {0} /\ n + 1 <= InFile(wal, at_open) /\ n + 1 <= Intact(wal)
    BY <1>2, <1>3, <1>7
  <2>2. n + 1 \in 1 .. Last(wal)
    BY <1>1, <2>1, CountsOfWal
  <2>3. IsOwed(n + 1)
    BY <1>1, <2>1, <2>2, CountsOfWal DEF IsOwed
  <2> QED BY <2>3 DEF OwedIsComing
<1> QED BY <1>2, <1>3, <1>5, <1>6, <1>7 DEF ScanView

LEMMA CountingUp ==
  ASSUME NEW n \in Nat
  PROVE  LET s == [k \in 1 .. n |-> k] IN
         Len(s) = n /\ Append(s, n + 1) = [k \in 1 .. n + 1 |-> k]
<1> DEFINE s == [k \in 1 .. n |-> k]
           t == [k \in 1 .. n + 1 |-> k]
<1>1. s \in Seq(Nat) /\ Len(s) = n /\ t \in Seq(Nat) /\ Len(t) = n + 1
  OBVIOUS
<1>2. Append(s, n + 1) \in Seq(Nat) /\ Len(Append(s, n + 1)) = n + 1
  BY <1>1
<1>3. \A k \in 1 .. n + 1 : Append(s, n + 1)[k] = t[k]
  BY <1>1
<1> QED BY <1>1, <1>2, <1>3

\* Only ReturnRecord hands a record over, and the scan does not begin again.
LEMMA OtherSteps ==
  ASSUME Step, ~ReturnRecord
  PROVE  records' = records /\ (Ended => Ended')
BY DEF Step, OpenFails, Open, LoadFirstPage, LoadNextRecord, FindReachesEnd, FindCannotLoad,
       FindSkipsPage, FindRecord, FindOn, CopyReachesEnd, CopyNextPage, CopyTake, Copying,
       HeaderEndsScan, HeaderCopied, DecodeFails, NothingToShow, ReadFileAgain, ReturnNone,
       ReturnErr, app, Ended

IsBroken == \E k \in 1 .. Len(records) : ~records[k].crc_ok

LEMMA ScanStep ==
  ASSUME ScanInv, WorkingNotDone, FileIsWal, ScanView, ScanView', [LiveNext]_LiveVars
  PROVE  [Scan!Next]_(Scan!vars)
<1> DEFINE n == GoodCount
           d == InFile(wal, flushed)
           a == InFile(wal, at_open)
           t == Intact(wal)
<1> USE DEF Scan!Next, Scan!Write, Scan!Show, Scan!ShowBroken, Scan!Stop, Scan!vars, Scan!Owed
<1>1. wal' = wal /\ at_open' = at_open
  BY DEF LiveNext, ReaderSteps, ServerWrites, LiveVars, live
<1>2. a' = a /\ t' = t
  BY <1>1 DEF InFile, Intact
<1>3. /\ n \in Nat /\ d \in Nat /\ a \in Nat /\ t \in Nat /\ n' \in Nat /\ d' \in Nat
      /\ Len(records) \in Nat /\ Len(records') \in Nat
  BY DEF ScanView
<1>4. /\ Len(Shown) = n /\ Append(Shown, n + 1) = [k \in 1 .. n + 1 |-> k]
      /\ Shown' = [k \in 1 .. n' |-> k]
  BY <1>3, CountingUp DEF ScanView
<1>5. CASE ServerWrites \/ UNCHANGED LiveVars
  <2>1. records' = records /\ Ended' = Ended /\ flushed \in Nat /\ flushed' \in Nat
        /\ flushed <= flushed'
    BY <1>5, StopsType DEF ServerWrites, LiveVars, vars, live, reader, app, Ended, FileIsWal
  <2>2. Shown' = Shown /\ IsBroken' = IsBroken
    BY <2>1 DEF Shown, IsBroken, GoodCount
  <2>3. d <= d'
    <3>1. IsLayout(wal)
      BY LayoutAssumption DEF FileIsWal
    <3> QED BY <1>1, <2>1, <3>1, InFileGrows
  <2>4. d' = d \/ d' > d
    BY <1>3, <2>3
  <2> QED BY <1>2, <1>3, <2>1, <2>2, <2>4 DEF Shown, IsBroken
<1>6. CASE Step /\ ~ReturnRecord /\ flushed' = flushed
  <2>1. records' = records /\ (Ended => Ended')
    BY <1>6, OtherSteps
  <2>2. Shown' = Shown /\ IsBroken' = IsBroken /\ n' = n /\ d' = d
    BY <1>1, <1>6, <2>1 DEF Shown, IsBroken, GoodCount, InFile
  <2>3. CASE Ended' = Ended
    BY <1>2, <2>2, <2>3 DEF Shown, IsBroken
  <2>4. CASE ~Ended /\ Ended'
    <3>1. ~(n < a /\ n < t)
      BY <1>2, <2>2, <2>4 DEF ScanView
    <3> QED BY <1>2, <1>3, <1>4, <2>2, <2>4, <3>1 DEF Shown, IsBroken
  <2>5. Ended' = Ended \/ (~Ended /\ Ended')
    <3>1. Ended \in BOOLEAN /\ Ended' \in BOOLEAN
      BY DEF Ended
    <3> QED BY Zenon, <2>1, <3>1
  <2> QED BY <2>3, <2>4, <2>5
<1>7. CASE ReturnRecord /\ flushed' = flushed
  <2> DEFINE ok == verify_record_crc(record_buffer)
  <2>1. ~done /\ ~Ended /\ ~Ended' /\ d' = d
    BY <1>1, <1>7 DEF ReturnRecord, WorkingNotDone, Ended, InFile
  <2>2. AllGood /\ n = Len(records) /\ ~IsBroken
    BY <2>1 DEF ScanView, AllGood, IsBroken
  <2>3. /\ Len(records') = n + 1 /\ records'[n + 1].crc_ok = ok
        /\ \A i \in 1 .. n : records'[i] = records[i]
    <3> DEFINE r == [lsn |-> record_lsn, raw |-> record_buffer,
                     crc_ok |-> ok, file_ranges |-> file_ranges]
    <3>1. r.crc_ok = ok
      OBVIOUS
    <3>2. records' = Append(records, r)
      BY Zenon, <1>7 DEF ReturnRecord
    <3>3. records \in Seq(Record)
      <4>1. TypeOK
        BY Zenon DEF ScanInv
      <4> QED BY Zenon, <4>1 DEF TypeOK
    <3> HIDE DEF r, ok
    <3> QED BY <2>2, <3>1, <3>2, <3>3
  <2> HIDE DEF ok
  <2>4. AllGood' <=> ok
    BY <1>3, <2>2, <2>3 DEF AllGood
  <2>5. IsBroken' <=> ~ok
    BY <2>4 DEF AllGood, IsBroken
  <2>6. CASE ok
    <3>1. n' = n + 1
      BY <2>3, <2>4, <2>6 DEF ScanView
    <3>2. n < d /\ n < t
      BY <1>2, <1>3, <2>1, <3>1 DEF ScanView
    <3>3. Shown' = Append(Shown, Len(Shown) + 1)
      BY <1>4, <3>1
    <3> QED BY <1>2, <1>4, <2>1, <2>2, <2>5, <2>6, <3>2, <3>3 DEF Shown, IsBroken
  <2>7. CASE ~ok
    <3>1. n' = n
      BY <1>3, <2>3, <2>4, <2>7 DEF ScanView
    <3>2. ~(n < a /\ n < t)
      BY <1>2, <2>4, <2>7, <3>1 DEF ScanView
    <3>3. Shown' = Shown
      BY <3>1 DEF ScanView
    <3> QED BY <1>2, <1>3, <1>4, <2>1, <2>2, <2>5, <2>7, <3>2, <3>3 DEF Shown, IsBroken
  <2> QED BY <2>6, <2>7
<1> QED BY <1>5, <1>6, <1>7 DEF LiveNext, ReaderSteps, live

LEMMA ScanInit ==
  ASSUME LiveInit
  PROVE  Scan!Init
<1>1. IsLayout(wal) /\ flushed \in Nat /\ at_open = flushed
  BY LayoutAssumption, StopsType DEF LiveInit
<1>2. records = <<>> /\ ~Ended
  BY DEF LiveInit, ReaderInit, Ended
<1>3. {k \in 1 .. Len(records) : records[k].crc_ok} = {} /\ ~IsBroken
  BY <1>2 DEF IsBroken
<1>4. GoodCount = 0
  BY <1>3, FS_EmptySet DEF GoodCount
<1>5. Shown = <<>>
  BY <1>4 DEF Shown
<1>6. /\ InFile(wal, flushed) \in Nat /\ InFile(wal, at_open) = InFile(wal, flushed)
      /\ Intact(wal) \in Nat
  BY <1>1, CountsOfWal
<1> QED BY <1>2, <1>3, <1>5, <1>6 DEF Scan!Init, Shown, IsBroken

(***************************************************************************)
(* The scan implements the safety part of WalScan, however the server's    *)
(* writing and the reader's steps interleave: the records are shown in WAL *)
(* order, none skipped and none twice, none that is not written or not     *)
(* behind undamaged WAL; at most one broken record follows; and the scan   *)
(* neither stops nor shows a broken record as long as an intact record     *)
(* that was in the file when it was opened has not been shown.  That it    *)
(* ends takes fairness.                                                    *)
(***************************************************************************)
THEOREM ScanIsImplemented ==
  LiveSpec => (NeverAtSegmentEnd(wal) => Scan!Init /\ [][Scan!Next]_(Scan!vars))
<1> DEFINE N == NeverAtSegmentEnd(wal)
<1>1. LiveSpec => [](ScanInv /\ WorkingNotDone)
  <2>1. Init => WorkingNotDone
    BY DEF Init, ReaderInit, WorkingNotDone
  <2>2. Spec => []WorkingNotDone
    BY <2>1, NextWorkingNotDone, PTL DEF Spec
  <2> QED BY <2>2, ClosedIsOpen, PointerInvariant, PTL
<1>2. LiveSpec => [](OnlyLastFails) /\ []FileIsWal /\ [](N => WalInv)
  BY LiveReaderIsSound, WalInvariant, PTL
<1>3. N /\ [LiveNext]_LiveVars => N'
  BY DEF LiveNext, ReaderSteps, ServerWrites, LiveVars, live
<1>4. LiveSpec /\ N => []N
  BY <1>3, PTL DEF LiveSpec
<1>5. /\ ScanInv /\ ScanInv' /\ FileIsWal /\ WalInv /\ OnlyLastFails /\ OnlyLastFails'
      /\ [LiveNext]_LiveVars /\ OwedIsComing
      => OwedIsComing'
  BY NextOwedIsComing
<1>6. /\ ScanInv /\ ScanInv' /\ WorkingNotDone /\ FileIsWal /\ WalInv /\ WalInv'
      /\ [LiveNext]_LiveVars /\ BeforeFault
      => BeforeFault'
  <2>1. WalInv' => SeeksNext'
    BY DEF WalInv
  <2> QED BY <2>1, NextBeforeFault
<1>7. /\ ScanInv /\ WorkingNotDone /\ FileIsWal /\ WalInv /\ OnlyLastFails /\ BeforeFault
      /\ [LiveNext]_LiveVars /\ ShownAreThere
      => ShownAreThere'
  BY NextShownAreThere
<1>8. LiveInit => OwedIsComing /\ BeforeFault /\ ShownAreThere
  BY InitOwedIsComing, InitBeforeFault DEF LiveInit, ReaderInit, ShownAreThere
<1>9. /\ ScanInv /\ FileIsWal /\ WalInv /\ OnlyLastFails /\ OwedIsComing /\ ShownAreThere
      => ScanView
  BY ScanIsSeen
<1>10. LiveSpec /\ N => []ScanView
  <2>1. LiveSpec /\ N => []OwedIsComing
    BY <1>1, <1>2, <1>4, <1>5, <1>8, PTL DEF LiveSpec
  <2>2. LiveSpec /\ N => []BeforeFault
    BY <1>1, <1>2, <1>4, <1>6, <1>8, PTL DEF LiveSpec
  <2>3. LiveSpec /\ N => []ShownAreThere
    BY <1>1, <1>2, <1>4, <1>7, <1>8, <2>2, PTL DEF LiveSpec
  <2> QED BY <1>1, <1>2, <1>4, <1>9, <2>1, <2>3, PTL
<1>11. /\ ScanInv /\ WorkingNotDone /\ FileIsWal /\ ScanView /\ ScanView'
       /\ [LiveNext]_LiveVars
       => [Scan!Next]_(Scan!vars)
  BY ScanStep
<1>12. LiveInit => Scan!Init
  BY ScanInit
<1> SUFFICES LiveSpec /\ N => Scan!Init /\ [][Scan!Next]_(Scan!vars)
  OBVIOUS
<1>13. LiveSpec /\ N => [][Scan!Next]_(Scan!vars)
  BY <1>1, <1>2, <1>10, <1>11, PTL DEF LiveSpec
<1> QED BY <1>12, <1>13, PTL DEF LiveSpec

===============================================================================
