----------------------------- MODULE OpenSegment -----------------------------
(***************************************************************************)
(* WALReader::open and WALReader::new (walreader.rs): from the name of a   *)
(* file and the long header of its first page to a reader that knows the   *)
(* geometry and the place of the segment.  WalReader starts from there: it *)
(* takes the geometry as constants, and what it assumes of them is what    *)
(* has to come out of here.  The file may change between two accesses.     *)
(***************************************************************************)
EXTENDS Integers

CONSTANTS
  Names,          \* file names: see IsName
  FirstPages,     \* what the first page may hold: see IsFirstPage
  FileSizes,      \* how long the file may be
  DefaultBlcksz,  \* DEFAULT_XLOG_BLCKSZ
  LongHdr, MaxAlign,
  MaxBlcksz, MinSeg, MaxSeg,  \* 1 MiB, 1 MiB and 1 GiB
  IdSpace         \* 2^32; an LSN is a number below IdSpace^2

VARIABLES
  name,           \* of the file
  page, size,     \* the first page and the length of the file, as they are now
  \* locals and fields of the reader
  file_size, seg_no, seg_size, xlog_blcksz, readable_pages, read_lsn,
  outcome,        \* "none" as long as there is none, "opened", or an error
  pc

file   == <<name, page, size>>
fields == <<seg_no, seg_size, xlog_blcksz, readable_pages, read_lsn>>
vars   == <<file, file_size, fields, outcome, pc>>

\* 24 hexadecimal digits, but for a suffix .partial: three numbers of eight digits.
IsName(n) == n.digits \in BOOLEAN /\ {n.tli, n.log, n.seg} \subseteq 0 .. IdSpace - 1
IsFirstPage(p) ==
  /\ {p.zeroed, p.magic_ok, p.long, p.flags_ok} \subseteq BOOLEAN
  /\ {p.blcksz, p.seg_size, p.tli, p.pageaddr} \subseteq Nat

ASSUME InputAssumption ==
  /\ \A n \in Names : IsName(n)
  /\ \A p \in FirstPages : IsFirstPage(p)
  /\ FileSizes \subseteq Nat

Wrapped(n) == n % (IdSpace * IdSpace)
is_power_of_two(n) == \E k \in 0 .. 30 : n = 2 ^ k   \* MaxSeg is 2^30

\* 40 is the length of a long header, 8 the alignment, and 2^32 = IdSpace.
ASSUME SizeAssumption ==
  /\ {DefaultBlcksz, LongHdr, MaxBlcksz, MinSeg, MaxSeg} \subseteq Nat
  /\ is_power_of_two(MaxAlign) /\ MaxAlign <= LongHdr /\ ~is_power_of_two(LongHdr)
  /\ IdSpace \in Nat \ {0}
  /\ \A k \in 0 .. 30 : 2 ^ k <= MaxSeg => IdSpace % (2 ^ k) = 0

-----------------------------------------------------------------------------
Init ==
  /\ name \in Names /\ page \in FirstPages /\ size \in FileSizes
  /\ file_size = 0 /\ seg_no = 0 /\ seg_size = 0 /\ xlog_blcksz = 0
  /\ readable_pages = 0 /\ read_lsn = 0
  /\ outcome = "none" /\ pc = "name"

Fail(error) == outcome' = error /\ pc' = "end"

ParseName ==
  /\ pc = "name"
  /\ \/ ~name.digits /\ Fail("InvalidInput")
     \/ name.digits /\ pc' = "seek" /\ UNCHANGED outcome
  /\ UNCHANGED <<file, file_size, fields>>

SeekEnd ==
  /\ pc = "seek"
  /\ file_size' = size
  /\ pc' = "read"
  /\ UNCHANGED <<file, fields, outcome>>

\* Faulty: any size that is in range is taken.
SegSizeIsGood_AnyInRange(s, blcksz) == blcksz <= s /\ MinSeg <= s /\ s <= MaxSeg

\* Faulty: the largest size is turned away.
SegSizeIsGood_BelowMax(s, blcksz) ==
  is_power_of_two(s) /\ blcksz <= s /\ MinSeg <= s /\ s < MaxSeg

SegSizeIsGood(s, blcksz) ==
  is_power_of_two(s) /\ blcksz <= s /\ MinSeg <= s /\ s <= MaxSeg

BlckszIsGood(b) == is_power_of_two(b) /\ LongHdr <= b /\ b <= MaxBlcksz

\* The checks on the first DefaultBlcksz bytes, in the order they are made.
HeaderError ==
  CASE size < DefaultBlcksz                -> "Io"
    [] size >= DefaultBlcksz /\ ~page.magic_ok
                                           -> IF page.zeroed THEN "EmptySegment"
                                                             ELSE "InvalidPageMagicNumber"
    [] OTHER ->
         IF ~page.long                     THEN "MissingLongHeader"
         ELSE IF ~BlckszIsGood(page.blcksz) THEN "InvalidXLogBlockSize"
         ELSE IF ~SegSizeIsGood(page.seg_size, page.blcksz) THEN "InvalidSegmentSize"
         ELSE IF file_size > page.seg_size THEN "FileTooLarge"
         ELSE "none"

RejectHeader ==
  /\ pc = "read" /\ HeaderError # "none"
  /\ Fail(HeaderError)
  /\ UNCHANGED <<file, file_size, fields>>

AcceptHeader ==
  /\ pc = "read" /\ HeaderError = "none"
  /\ xlog_blcksz' = page.blcksz /\ seg_size' = page.seg_size
  /\ seg_no' = Wrapped(name.log * (IdSpace \div page.seg_size) + name.seg)
  /\ readable_pages' = file_size \div page.blcksz
  /\ read_lsn' = Wrapped(seg_no' * page.seg_size)
  /\ pc' = "load"
  /\ UNCHANGED <<file, file_size, outcome>>

page_start_lsn(n)       == Wrapped(seg_no * seg_size + n * xlog_blcksz)
lsn_to_page_no(lsn)     == (lsn % seg_size) \div xlog_blcksz
lsn_to_page_offset(lsn) == (lsn % seg_size) % xlog_blcksz
pages_per_segment       == seg_size \div xlog_blcksz

\* load_page(0) reads the page again, whole, and validates its header.
LoadError ==
  CASE size < xlog_blcksz -> "Io"
    [] size >= xlog_blcksz /\ ~page.magic_ok
                          -> IF page.zeroed THEN "ZeroedPage" ELSE "InvalidPageMagicNumber"
    [] OTHER              ->
         IF ~page.flags_ok \/ ~page.long           THEN "InvalidPageFlags"
         ELSE IF page.pageaddr # page_start_lsn(0) THEN "UnexpectedPageAddr"
         ELSE IF page.tli # name.tli               THEN "UnexpectedTimeLineId"
         ELSE "none"

LoadFirstPage ==
  /\ pc = "load"
  /\ IF LoadError = "none" THEN outcome' = "opened" /\ pc' = "end" ELSE Fail(LoadError)
  /\ UNCHANGED <<file, file_size, fields>>

\* A server fills or recycles the segment, pg_receivewal lengthens it.
Environment ==
  /\ pc \in {"seek", "read", "load"}
  /\ page' \in FirstPages /\ size' \in FileSizes
  /\ UNCHANGED <<name, file_size, fields, outcome, pc>>

End == pc = "end" /\ UNCHANGED vars

Next == ParseName \/ SeekEnd \/ RejectHeader \/ AcceptHeader \/ LoadFirstPage
          \/ Environment \/ End

Spec == Init /\ [][Next]_vars

-----------------------------------------------------------------------------
(***************************************************************************)
(* The geometry of an opened segment is one that WalReader can work with,  *)
(* whatever the header says and however the file changed in between: that  *)
(* is GeometryAssumption and AlignmentAssumption of WalSegment.  The pages *)
(* tile the segment, no readable one is beyond it, and the LSN of each     *)
(* leads back to it, even where the file name gives an LSN that wraps      *)
(* around.                                                                 *)
(***************************************************************************)
GeometryIsSound ==
  outcome = "opened" =>
    /\ LongHdr < xlog_blcksz /\ xlog_blcksz % MaxAlign = 0
    /\ pages_per_segment > 0 /\ pages_per_segment * xlog_blcksz = seg_size
    /\ readable_pages \in 0 .. pages_per_segment
    /\ read_lsn % MaxAlign = 0
    /\ \A n \in 0 .. pages_per_segment - 1 :
         lsn_to_page_no(page_start_lsn(n)) = n /\ lsn_to_page_offset(page_start_lsn(n)) = 0

\* The file is the segment that a server with pages of b bytes and segments of s
\* bytes gave this name: its first page starts at the LSN that the two last numbers of
\* the name are the high and the low part of, and all of that page is there.
HoldsSegment(b, s) ==
  /\ is_power_of_two(b) /\ LongHdr <= b /\ b <= MaxBlcksz
  /\ is_power_of_two(s) /\ b <= s /\ MinSeg <= s /\ s <= MaxSeg
  /\ b <= size /\ DefaultBlcksz <= size /\ size <= s
  /\ name.digits /\ name.seg < IdSpace \div s
  /\ page.magic_ok /\ page.long /\ page.flags_ok /\ page.blcksz = b /\ page.seg_size = s
  /\ page.tli = name.tli /\ page.pageaddr = name.log * IdSpace + name.seg * s

(***************************************************************************)
(* A file that holds the segment of its name for as long as it takes to    *)
(* open it is opened, whatever its sizes are, at the limits of the code as *)
(* well, and however it grows or shrinks meanwhile: the quick checks of    *)
(* new and those of load_page(0) turn away no segment of a server.         *)
(***************************************************************************)
SoundIsOpened ==
  \A sizes \in {[b |-> p.blcksz, s |-> p.seg_size] : p \in FirstPages} :
    []HoldsSegment(sizes.b, sizes.s) => [](pc = "end" => outcome = "opened")
=============================================================================
