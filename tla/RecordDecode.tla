---------------------------- MODULE RecordDecode ----------------------------
(***************************************************************************)
(* decode_wal_record (walreader.rs) on the byte reader of walmisc.rs: a    *)
(* first pass over the descriptors that follow the XLogRecord header, and  *)
(* a second that gives each payload its range of the record.               *)
(*                                                                         *)
(* No byte of the descriptors is read twice, so what a descriptor says may *)
(* be chosen when it is read: the bytes are anything, and the only thing   *)
(* given is how many there are.  Or they are those of a record that a      *)
(* server has assembled (written), and then they decode to just that.      *)
(***************************************************************************)
EXTENDS RecordParts

CONSTANTS
  SIZE_OF_XLOG_RECORD,
  BLCKSZ,            \* bytes of a data page
  Items,             \* what the bytes at a descriptor can read as
  Lengths,           \* lengths of records of any bytes
  Written,           \* records as assembled by a server: see IsAssembled
  Splits             \* ways in which page headers can split a record: see FileRanges

(***************************************************************************)
(* A descriptor as read: a block reference, the main data's length, origin *)
(* or top-level transaction, or a block_id that is none of these.  The     *)
(* fields a kind does not have are ignored.                                *)
(***************************************************************************)
Kinds == {"block", "main_short", "main_long", "origin", "top_xid", "invalid"}

Item == [kind : Kinds, block_id : Nat, has_data : BOOLEAN, data_len : Nat,
         has_image : BOOLEAN, bimg_len : Nat, hole_offset : Nat, has_hole : BOOLEAN,
         compressed : BOOLEAN, hole_read : Nat, same_rel : BOOLEAN, main_len : Nat]

VARIABLES
  written,       \* the record that was assembled, or <<>> for any bytes
  read,          \* how many of the written descriptors have been read
  len,           \* record_bytes.len(), which is xl_tot_len
  pos,           \* of the Reader
  datatotal, max_block_id, rlocator_set, has_main, main_len, blocks, main_range,
  placed,        \* how many blocks the second pass has done
  error, pc

input  == <<written, len>>
result == <<has_main, main_len, blocks, main_range>>
vars   == <<input, read, pos, datatotal, max_block_id, rlocator_set, result, placed, error, pc>>

-----------------------------------------------------------------------------
(* Sizes of descriptors.                                                   *)

is_main(d) == d.kind \in {"main_short", "main_long"}

ImageHdr(d) == IF ~d.has_image THEN 0 ELSE IF d.compressed /\ d.has_hole THEN 7 ELSE 5

DescriptorSize(d) ==
  CASE d.kind = "block"      -> 4 + ImageHdr(d) + (IF d.same_rel THEN 0 ELSE 12) + 4
    [] d.kind = "main_short" -> 2
    [] d.kind = "main_long"  -> 5
    [] d.kind = "origin"     -> 3
    [] d.kind = "top_xid"    -> 5
    [] d.kind = "invalid"    -> 1

ImageLen(d) == IF d.has_image THEN d.bimg_len ELSE 0
DataLen(d)  == IF d.has_data THEN d.data_len ELSE 0

\* Faulty: the image is not counted.
Announced_NoImage(d) == IF is_main(d) THEN d.main_len
                        ELSE IF d.kind = "block" THEN d.data_len ELSE 0

\* What a descriptor adds to datatotal.
Announced(d) == IF is_main(d) THEN d.main_len
                ELSE IF d.kind = "block" THEN d.data_len + ImageLen(d) ELSE 0

\* The length of a record of these descriptors and their payloads.
AssembledLength(w) ==
  LET sum[k \in 0 .. Len(w)] ==
        IF k = 0 THEN SIZE_OF_XLOG_RECORD
        ELSE sum[k - 1] + DescriptorSize(w[k]) + Announced(w[k])
  IN  sum[Len(w)]

(***************************************************************************)
(* What a server assembles.  An image is a whole page, a page without its  *)
(* hole, or either of them compressed to less than a page.  Blocks are in  *)
(* the order of their ids, and only a later one can be of the same         *)
(* relation as one before it; the main data is the last.                   *)
(***************************************************************************)
IsImage(d) ==
  /\ IF d.compressed \/ d.has_hole THEN d.bimg_len < BLCKSZ ELSE d.bimg_len = BLCKSZ
  /\ d.has_hole => d.hole_offset > 0 /\ (d.compressed => d.hole_read > 0)
  /\ ~d.has_hole => d.hole_offset = 0

IsAssembled(w) ==
  LET refs == {k \in 1 .. Len(w) : w[k].kind = "block"} IN
  /\ w # <<>>
  /\ \A k \in 1 .. Len(w) : w[k].kind # "invalid" /\ (is_main(w[k]) => k = Len(w))
  /\ \A k \in refs :
       /\ \A j \in refs : j < k => w[j].block_id < w[k].block_id
       /\ w[k].same_rel => \E j \in refs : j < k
       /\ w[k].has_data <=> w[k].data_len > 0
       /\ w[k].has_image => IsImage(w[k])

\* xl_tot_len covers at least the XLogRecord header.
IsLength(n) == n \in Nat /\ n >= SIZE_OF_XLOG_RECORD

\* The pages that a record is on have room for some of it each.
IsSplit(s) == s \in [base : Nat, first : Nat \ {0}, room : Nat \ {0}, gap : Nat]

ASSUME DecodeAssumption ==
  /\ SIZE_OF_XLOG_RECORD \in Nat \ {0} /\ BLCKSZ \in Nat
  /\ Items \subseteq Item
  /\ \A n \in Lengths : IsLength(n)
  /\ \A w \in Written : /\ w \in Seq(Items) /\ IsAssembled(w)
                         /\ IsLength(AssembledLength(w))
  /\ \A s \in Splits : IsSplit(s)

Init ==
  /\ \/ written = <<>> /\ len \in Lengths
     \/ written \in Written /\ len = AssembledLength(written)
  /\ read = 0 /\ pos = SIZE_OF_XLOG_RECORD
  /\ datatotal = 0 /\ max_block_id = -1 /\ rlocator_set = FALSE
  /\ has_main = FALSE /\ main_len = 0 /\ blocks = <<>> /\ main_range = Span(0, 0)
  /\ placed = 0
  /\ error = "none" /\ pc = "descriptors"

-----------------------------------------------------------------------------
(* The byte reader: reads consume what they want or nothing.               *)

remaining == IF len >= pos THEN len - pos ELSE 0

\* Faulty: off by one.
Fits_Beyond(n) == pos + n <= len + 1

Fits(n) == pos + n <= len

-----------------------------------------------------------------------------
(* The first pass.                                                         *)

hole_len(d) ==
  IF d.compressed THEN IF d.has_hole THEN d.hole_read ELSE 0
  ELSE IF d.bimg_len < BLCKSZ THEN BLCKSZ - d.bimg_len ELSE 0

ImageError(d) ==
  IF d.has_hole /\ (d.hole_offset = 0 \/ hole_len(d) = 0 \/ d.bimg_len = BLCKSZ)
    THEN "InvalidHoleData"
  ELSE IF ~d.has_hole /\ (d.hole_offset # 0 \/ hole_len(d) # 0)
    THEN "InvalidHoleFlag"
  ELSE IF d.compressed /\ d.bimg_len = BLCKSZ
    THEN "InvalidCompressFlag"
  ELSE "none"

\* The checks of a block reference, in the order the code makes them.
BlockError(d) ==
  IF d.block_id <= max_block_id THEN "OutOfOrderBlockId"
  ELSE IF ~Fits(4) THEN "TruncatedRecord"
  ELSE IF d.has_data /\ d.data_len = 0 THEN "NoDataIncluded"
  ELSE IF ~d.has_data /\ d.data_len > 0 THEN "InvalidDataLength"
  ELSE IF ~Fits(4 + ImageHdr(d)) THEN "TruncatedRecord"
  ELSE IF d.has_image /\ ImageError(d) # "none" THEN ImageError(d)
  ELSE IF d.same_rel /\ ~rlocator_set THEN "SameRelNotFound"
  ELSE IF ~Fits(DescriptorSize(d)) THEN "TruncatedRecord"
  ELSE "none"

ItemError(d) ==
  CASE d.kind = "block"   -> BlockError(d)
    [] d.kind = "invalid" -> "InvalidBlockId"
    [] OTHER              -> IF Fits(DescriptorSize(d)) THEN "none" ELSE "TruncatedRecord"

\* Faulty: descriptors are looked for as long as there are bytes.
MoreDescriptors_AnyBytes == remaining > 0

MoreDescriptors == remaining > datatotal

\* What can be read next.  Past the descriptors of a record the bytes are anything.
NextItems == IF read < Len(written) THEN {written[read + 1]} ELSE Items

CountRead == read' = IF read < Len(written) THEN read + 1 ELSE read

DescriptorBad ==
  /\ pc = "descriptors" /\ MoreDescriptors
  /\ \E d \in NextItems : ItemError(d) # "none" /\ error' = ItemError(d)
  /\ pc' = "failed"
  /\ UNCHANGED <<input, read, pos, datatotal, max_block_id, rlocator_set, result, placed>>

Consume(d) == pos' = pos + DescriptorSize(d)

ReadBlock ==
  /\ pc = "descriptors" /\ MoreDescriptors
  /\ \E d \in NextItems :
       /\ d.kind = "block" /\ BlockError(d) = "none"
       /\ Consume(d)
       /\ datatotal' = datatotal + Announced(d)
       /\ max_block_id' = d.block_id
       /\ rlocator_set' = TRUE
       /\ blocks' = Append(blocks, [item |-> d, has_image |-> d.has_image,
                                    has_data |-> d.has_data,
                                    bimg_range |-> Span(0, 0), data_range |-> Span(0, 0)])
  /\ CountRead
  /\ UNCHANGED <<input, has_main, main_len, main_range, placed, error, pc>>

\* The replication origin or the top-level transaction.
ReadOther ==
  /\ pc = "descriptors" /\ MoreDescriptors
  /\ \E d \in NextItems :
       d.kind \in {"origin", "top_xid"} /\ ItemError(d) = "none" /\ Consume(d)
  /\ CountRead
  /\ UNCHANGED <<input, datatotal, max_block_id, rlocator_set, result, placed, error, pc>>

\* The main data is the last: the loop is left.
ReadMainHeader ==
  /\ pc = "descriptors" /\ MoreDescriptors
  /\ \E d \in NextItems :
       /\ is_main(d) /\ ItemError(d) = "none"
       /\ Consume(d)
       /\ main_len' = d.main_len /\ datatotal' = datatotal + Announced(d)
  /\ has_main' = TRUE
  /\ CountRead
  /\ pc' = "check"
  /\ UNCHANGED <<input, max_block_id, rlocator_set, blocks, main_range, placed, error>>

DescriptorsEnd ==
  /\ pc = "descriptors" /\ ~MoreDescriptors
  /\ pc' = "check"
  /\ UNCHANGED <<input, read, pos, datatotal, max_block_id, rlocator_set, result, placed, error>>

\* Faulty: only a record that is too short is refused.
LengthAgrees_OrMore == remaining >= datatotal

LengthAgrees == remaining = datatotal

CheckLength ==
  /\ pc = "check"
  /\ \/ LengthAgrees /\ pc' = "payloads" /\ UNCHANGED error
     \/ ~LengthAgrees /\ pc' = "failed" /\ error' = "InvalidRecordLength"
  /\ UNCHANGED <<input, read, pos, datatotal, max_block_id, rlocator_set, result, placed>>

-----------------------------------------------------------------------------
(* The second pass.  Reader::take would fail on too few bytes: PayloadsFit *)
(* says that it never does here.                                           *)

\* A block whose payloads begin at start.
WithRanges(b, start) ==
  LET image_end == start + ImageLen(b.item) IN
  [b EXCEPT !.bimg_range = IF b.item.has_image THEN Span(start, image_end) ELSE @,
            !.data_range = IF b.item.has_data THEN Span(image_end, image_end + b.item.data_len)
                                              ELSE @]

PlaceBlock ==
  /\ pc = "payloads" /\ placed < Len(blocks)
  /\ LET b == blocks[placed + 1] IN
     /\ blocks' = [blocks EXCEPT ![placed + 1] = WithRanges(b, pos)]
     /\ pos' = pos + ImageLen(b.item) + DataLen(b.item)
  /\ placed' = placed + 1
  /\ UNCHANGED <<input, read, datatotal, max_block_id, rlocator_set, has_main, main_len,
                 main_range, error, pc>>

PlaceMain ==
  /\ pc = "payloads" /\ placed = Len(blocks)
  /\ \/ has_main /\ main_range' = Span(pos, pos + main_len) /\ pos' = pos + main_len
     \/ ~has_main /\ UNCHANGED <<main_range, pos>>
  /\ pc' = "decoded"
  /\ UNCHANGED <<input, read, datatotal, max_block_id, rlocator_set, has_main, main_len,
                 blocks, placed, error>>

-----------------------------------------------------------------------------
Next ==
  \/ DescriptorBad \/ ReadBlock \/ ReadOther \/ ReadMainHeader \/ DescriptorsEnd
  \/ CheckLength
  \/ PlaceBlock \/ PlaceMain

Spec == Init /\ [][Next]_vars

-----------------------------------------------------------------------------
(* Properties.                                                             *)

Block == [item : Item, has_image : BOOLEAN, has_data : BOOLEAN,
          bimg_range : [start : Nat, end : Nat], data_range : [start : Nat, end : Nat]]

\* The type invariant.
TypeOK ==
  /\ written \in Written \cup {<<>>} /\ len \in Nat /\ read \in Nat
  /\ pos \in 0 .. len /\ datatotal \in Nat
  /\ max_block_id \in Nat \cup {-1} /\ rlocator_set \in BOOLEAN
  /\ has_main \in BOOLEAN /\ main_len \in Nat /\ main_range \in [start : Nat, end : Nat]
  /\ blocks \in Seq(Block) /\ placed \in 0 .. Len(blocks)
  /\ error \in {"none", "OutOfOrderBlockId", "TruncatedRecord", "NoDataIncluded",
                "InvalidDataLength", "InvalidHoleData", "InvalidHoleFlag",
                "InvalidCompressFlag", "SameRelNotFound", "InvalidBlockId",
                "InvalidRecordLength"}
  /\ pc \in {"descriptors", "check", "payloads", "decoded", "failed"}

(***************************************************************************)
(* Whatever the bytes are, every range of a record lies in it: taking that *)
(* slice of raw never panics.                                              *)
(***************************************************************************)
InRecord(r) == r.start <= r.end /\ r.end <= len

RangesInRecord ==
  /\ InRecord(main_range)
  /\ \A k \in 1 .. Len(blocks) : InRecord(blocks[k].bimg_range) /\ InRecord(blocks[k].data_range)

(***************************************************************************)
(* In the second pass the bytes for the next payload are always there, up  *)
(* to the last: what the first pass counted is what the second one takes.  *)
(***************************************************************************)
PayloadsFit ==
  pc = "payloads" =>
    IF placed < Len(blocks) THEN Fits(Announced(blocks[placed + 1].item))
                            ELSE pos + main_len = len

Decoded == [blocks |-> blocks, has_main |-> has_main, main_range |-> main_range, len |-> len]

(***************************************************************************)
(* The parts of a decoded record are not empty and tile it: nothing of it  *)
(* is left out or claimed twice, although descriptors, images and data of  *)
(* zero length are all possible.                                           *)
(***************************************************************************)
PartsTile ==
  pc = "decoded" =>
    LET parts == Parts(Decoded, SIZE_OF_XLOG_RECORD) IN
    /\ parts[1].range.start = 0 /\ parts[Len(parts)].range.end = len
    /\ \A k \in 1 .. Len(parts) : Length(parts[k].range) > 0
    /\ \A k \in 1 .. Len(parts) - 1 : parts[k].range.end = parts[k + 1].range.start

(***************************************************************************)
(* A record in the file: it begins at s.base, its first s.first bytes are  *)
(* on one page, and after every further s.room bytes there are s.gap bytes *)
(* of page header.                                                         *)
(***************************************************************************)
Break(s, i)  == IF i < s.first THEN 0 ELSE 1 + (i - s.first) \div s.room
InFile(s, i) == s.base + i + Break(s, i) * s.gap

FileRanges(s) ==
  [k \in 1 .. Break(s, len - 1) + 1 |->
     LET mine == {i \in 0 .. len - 1 : Break(s, i) = k - 1}
         first == CHOOSE i \in mine : \A j \in mine : i <= j
         last  == CHOOSE i \in mine : \A j \in mine : i >= j
     IN  Span(InFile(s, first), InFile(s, last) + 1)]

(***************************************************************************)
(* However page headers split the record, the overlay gives each byte of   *)
(* the file that belongs to it the part that this byte is of, and no part  *)
(* to any other byte.                                                      *)
(***************************************************************************)
OverlayIsExact ==
  pc = "decoded" =>
    LET parts == Parts(Decoded, SIZE_OF_XLOG_RECORD)
        PartOf(i) == parts[CHOOSE k \in 1 .. Len(parts) : Within(parts[k].range, i)].part IN
    \A s \in Splits :
      LET overlay == Overlay(Decoded, FileRanges(s), SIZE_OF_XLOG_RECORD) IN
      /\ \A i \in 0 .. len - 1 : part_at(overlay, InFile(s, i)) = PartOf(i)
      /\ \A o \in 0 .. InFile(s, len) \ {InFile(s, i) : i \in 0 .. len - 1} :
            part_at(overlay, o) = NoPart

(***************************************************************************)
(* A record that a server has assembled decodes, and all of its            *)
(* descriptors are read: the loop does not stop early because the payloads *)
(* announced so far would fill the rest.                                   *)
(***************************************************************************)
IntactDecodes ==
  written # <<>> => pc # "failed" /\ (pc = "decoded" => read = Len(written))

(***************************************************************************)
(* The loop over the descriptors ends, as every pass of it consumes some   *)
(* of the finitely many bytes.                                             *)
(***************************************************************************)
LoopConsumes == [][pc = "descriptors" /\ pc' = "descriptors" => pos' > pos]_vars
=============================================================================
