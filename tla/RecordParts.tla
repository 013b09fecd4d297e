----------------------------- MODULE RecordParts -----------------------------
(***************************************************************************)
(* A decoded record in terms of ranges: the parts it is made of as ranges  *)
(* of its bytes (raw), the same parts as ranges of the segment file, and   *)
(* the overlay the hex pane is coloured with.                              *)
(*                                                                         *)
(* A range [start, end) is a record, as in Rust; raw and the file count    *)
(* from 0.                                                                 *)
(***************************************************************************)
EXTENDS Integers, SequencesExt

Span(s, e)   == [start |-> s, end |-> e]
Length(r)    == r.end - r.start
Within(r, i) == r.start <= i /\ i < r.end

-----------------------------------------------------------------------------
(* WALRecordInfo::parts.  A block has a range for its image and one for    *)
(* its data if it has them; the record one for its main data.              *)

\* What is left of a payload when the empty ones are dropped.
Retained(range, part) ==
  IF Length(range) # 0 THEN <<[range |-> range, part |-> part]>> ELSE <<>>

BlockPayloads(b, i) ==
  (IF b.has_image THEN Retained(b.bimg_range, <<"Fpi", i>>) ELSE <<>>)
  \o (IF b.has_data THEN Retained(b.data_range, <<"BlockData", i>>) ELSE <<>>)

Payloads(rec) ==
  FlattenSeq([i \in 1 .. Len(rec.blocks) |-> BlockPayloads(rec.blocks[i], i)])
  \o (IF rec.has_main THEN Retained(rec.main_range, <<"MainData", 0>>) ELSE <<>>)

\* hdr is SIZE_OF_XLOG_RECORD.
Parts(rec, hdr) ==
  LET payloads == Payloads(rec)
      descriptors_end == IF payloads # <<>> THEN payloads[1].range.start ELSE rec.len
  IN  <<[range |-> Span(0, hdr), part |-> <<"Header", 0>>]>>
      \o (IF descriptors_end > hdr
            THEN <<[range |-> Span(hdr, descriptors_end), part |-> <<"Descriptors", 0>>]>>
            ELSE <<>>)
      \o payloads

-----------------------------------------------------------------------------
(* WALRecordInfo::file_ranges_of.                                          *)

\* Faulty: where in the piece the range starts is forgotten.
Piece_FromStart(file, consumed, raw) ==
  LET start == IF raw.start > consumed THEN raw.start ELSE consumed
      end   == IF raw.end < consumed + Length(file) THEN raw.end ELSE consumed + Length(file)
  IN  IF start >= end THEN <<>> ELSE <<Span(file.start, file.start + (end - start))>>

\* The piece of raw that a range of the file holds, consumed bytes into raw.
Piece(file, consumed, raw) ==
  LET start == IF raw.start > consumed THEN raw.start ELSE consumed
      end   == IF raw.end < consumed + Length(file) THEN raw.end ELSE consumed + Length(file)
  IN  IF start >= end THEN <<>>
      ELSE <<Span(file.start + (start - consumed), file.start + (end - consumed))>>

\* consumed, behind each of the ranges.
Consumed(file_ranges) ==
  LET consumed[k \in 0 .. Len(file_ranges)] ==
        IF k = 0 THEN 0 ELSE consumed[k - 1] + Length(file_ranges[k])
  IN  consumed

FileRangesOf(file_ranges, raw) ==
  FlattenSeq([k \in 1 .. Len(file_ranges) |->
                Piece(file_ranges[k], Consumed(file_ranges)[k - 1], raw)])

-----------------------------------------------------------------------------
(* RecordOverlay.                                                          *)

\* sort_by_key, which keeps the order of those with the same key.
ByStart(s) ==
  LET before(k) == {j \in 1 .. Len(s) : \/ s[j].range.start < s[k].range.start
                                        \/ s[j].range.start = s[k].range.start /\ j < k}
  IN  [i \in 1 .. Len(s) |-> s[CHOOSE k \in 1 .. Len(s) : Cardinality(before(k)) = i - 1]]

Mapped(file_ranges, p) ==
  LET ranges == FileRangesOf(file_ranges, p.range) IN
  [j \in 1 .. Len(ranges) |-> [range |-> ranges[j], part |-> p.part]]

Overlay(rec, file_ranges, hdr) ==
  LET parts == Parts(rec, hdr) IN
  ByStart(FlattenSeq([k \in 1 .. Len(parts) |-> Mapped(file_ranges, parts[k])]))

NoPart == <<"None", 0>>

\* The first entry that contains the offset.
part_at(overlay, offset) ==
  LET hits == {k \in 1 .. Len(overlay) : Within(overlay[k].range, offset)} IN
  IF hits = {} THEN NoPart
  ELSE overlay[CHOOSE k \in hits : \A j \in hits : k <= j].part
=============================================================================
