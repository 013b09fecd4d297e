--------------------------- MODULE MCRecordDecode ---------------------------
(***************************************************************************)
(* Records of up to three blocks, with the sizes of the real format but a  *)
(* data page of 8 bytes.                                                   *)
(***************************************************************************)
EXTENDS RecordDecode

NoItem == [kind |-> "invalid", block_id |-> 0, has_data |-> FALSE, data_len |-> 0,
           has_image |-> FALSE, bimg_len |-> 0, hole_offset |-> 0, has_hole |-> FALSE,
           compressed |-> FALSE, hole_read |-> 0, same_rel |-> FALSE, main_len |-> 0]

Others == {[NoItem EXCEPT !.kind = k] : k \in {"origin", "top_xid", "invalid"}}
Mains  == {[NoItem EXCEPT !.kind = k, !.main_len = n] :
             k \in {"main_short", "main_long"}, n \in {0, 1, 5}}

\* Whether there is data, and how much; the two that are contradictions too.
Data == {[has |-> FALSE, len |-> 0], [has |-> TRUE, len |-> 3]}
BadData == {[has |-> TRUE, len |-> 0], [has |-> FALSE, len |-> 3]}

Image(bytes, offset, hole, compressed, holed) ==
  [has |-> TRUE, len |-> bytes, offset |-> offset, hole |-> hole, compressed |-> compressed,
   read |-> holed]
None == [Image(0, 0, FALSE, FALSE, 0) EXCEPT !.has = FALSE]

\* None, a whole page, one with a hole, compressed without and with a hole.
Images == {None, Image(8, 0, FALSE, FALSE, 0), Image(5, 2, TRUE, FALSE, 0),
           Image(2, 0, FALSE, TRUE, 0), Image(2, 1, TRUE, TRUE, 4)}
\* A hole without the flag, none with it, one that is not in the page, an
\* uncompressed and a compressed image that are too long, an empty one.
BadImages == {Image(5, 0, FALSE, FALSE, 0), Image(8, 2, TRUE, FALSE, 0),
              Image(2, 1, TRUE, TRUE, 0), Image(9, 0, FALSE, FALSE, 0),
              Image(8, 0, FALSE, TRUE, 0), Image(9, 1, TRUE, TRUE, 4),
              Image(0, 0, FALSE, TRUE, 0)}

BlockItem(id, d, i, same) ==
  [NoItem EXCEPT !.kind = "block", !.block_id = id, !.same_rel = same,
     !.has_data = d.has, !.data_len = d.len,
     !.has_image = i.has, !.bimg_len = i.len, !.hole_offset = i.offset,
     !.has_hole = i.hole, !.compressed = i.compressed, !.hole_read = i.read]

Holed  == Image(5, 2, TRUE, FALSE, 0)
Blocks == {BlockItem(0, d, i, same) : d \in Data, i \in Images, same \in BOOLEAN}
            \cup {BlockItem(1, d, i, same) : d \in Data, i \in {None, Holed}, same \in BOOLEAN}
Bad    == {BlockItem(0, d, i, FALSE) : d \in Data, i \in BadImages}
            \cup {BlockItem(1, d, None, FALSE) : d \in BadData}

AllItems == Others \cup Mains \cup Blocks \cup Bad

\* From a bare header to two blocks with images and main data.
AnyLength == {24, 25, 26, 29, 31, 32, 44, 47, 50, 52, 54, 60, 62, 63, 68, 70, 81}

\* As a server assembles them: blocks in order, then origin or transaction,
\* then the main data.
Maybe(S) == {<<>>} \cup {<<d>> : d \in S}
First  == {BlockItem(0, d, i, FALSE) : d \in Data, i \in Images}
Second == {BlockItem(1, d, i, same) : d \in Data, i \in {None, Holed}, same \in BOOLEAN}
Assembled ==
  {b \o o \o m : b \in Maybe(First) \cup {<<f, s>> : f \in First, s \in Second},
                 o \in Maybe(Others \ {NoItem}),
                 m \in Maybe({d \in Mains : d.main_len # 1})} \ {<<>>}

\* Not split; split in the header and at its end, and in every part.
AllSplits == {[base |-> 3, first |-> 100, room |-> 9, gap |-> 2],
              [base |-> 1, first |-> 10, room |-> 7, gap |-> 1]}
=============================================================================
