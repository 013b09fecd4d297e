------------------------- MODULE RecordDecodeProofs -------------------------
(***************************************************************************)
(* Proofs about RecordDecode, for every set of descriptors and every       *)
(* length: the decoder stays within the record and so do all the ranges it *)
(* hands out, because the second pass takes what the first one counted;    *)
(* the parts tile the record; and what a server assembles decodes.         *)
(***************************************************************************)
EXTENDS RecordDecode, TLAPS, SequenceTheorems, FiniteSetTheorems, WellFoundedInduction

-----------------------------------------------------------------------------
(* Sizes.                                                                  *)

LEMMA ItemTypes ==
  ASSUME NEW d \in Item
  PROVE  DescriptorSize(d) \in Nat /\ ImageLen(d) \in Nat /\ Announced(d) \in Nat
<1>1. ImageHdr(d) \in Nat /\ ImageLen(d) \in Nat
  BY DEF Item, ImageHdr, ImageLen
<1>2. DescriptorSize(d) \in Nat
  BY <1>1 DEF Item, Kinds, DescriptorSize
<1>3. Announced(d) \in Nat
  BY <1>1 DEF Item, Announced
<1> QED
  BY <1>1, <1>2, <1>3

\* What can be read is a descriptor, whoever wrote it.
LEMMA NextItemTypes ==
  ASSUME TypeOK, NEW d \in NextItems
  PROVE  d \in Item
<1>1. CASE read < Len(written)
  <2>1. CASE written = <<>>
    BY <1>1, <2>1 DEF TypeOK
  <2>2. CASE written \in Written
    <3>1. written \in Seq(Items) /\ read + 1 \in 1 .. Len(written)
      BY <1>1, <2>2, DecodeAssumption DEF TypeOK
    <3>2. written[read + 1] \in Items
      BY <3>1
    <3> QED
      BY <1>1, <3>2, DecodeAssumption DEF NextItems
  <2> QED
    BY <2>1, <2>2 DEF TypeOK
<1>2. CASE ~(read < Len(written))
  BY <1>2, DecodeAssumption DEF NextItems
<1> QED
  BY <1>1, <1>2

\* A descriptor without an error has been read to its last byte.
LEMMA ReadFits ==
  ASSUME TypeOK, NEW d \in Item, d.kind # "invalid", ItemError(d) = "none"
  PROVE  pos + DescriptorSize(d) \in 0 .. len
<1>1. Fits(DescriptorSize(d))
  <2>1. CASE d.kind = "block"
    <3>1. BlockError(d) = "none"
      BY <2>1 DEF ItemError
    <3>2. d.has_image => ImageError(d) = "none"
      BY <3>1 DEF BlockError
    <3> QED
      BY <3>1, <3>2 DEF BlockError
  <2>2. CASE d.kind # "block"
    BY <2>2 DEF ItemError
  <2> QED
    BY <2>1, <2>2
<1> QED
  BY <1>1, ItemTypes DEF Fits, TypeOK

-----------------------------------------------------------------------------
(* Types.  The blocks of the first pass are block references with empty    *)
(* ranges; main_len is zero until the main data's header has been read.    *)
(* Only a block that says it has data has a data_len other than zero.      *)

NoRange == Span(0, 0)

DecodeState ==
  /\ pc \in {"descriptors", "check", "payloads"} => main_range = NoRange
  /\ pc \in {"descriptors", "check"} => placed = 0
  /\ pc = "descriptors" => ~has_main
  /\ ~has_main => main_len = 0
  /\ \A k \in 1 .. Len(blocks) :
       blocks[k].item.kind = "block" /\ DataLen(blocks[k].item) = blocks[k].item.data_len

(***************************************************************************)
(* f[k] is what the first k blocks have announced.                         *)
(***************************************************************************)
Totals(f, bs) ==
  /\ f \in [0 .. Len(bs) -> Nat]
  /\ f[0] = 0
  /\ \A k \in 1 .. Len(bs) : f[k] = f[k - 1] + Announced(bs[k].item)
  /\ \A j, k \in 0 .. Len(bs) : j <= k => f[j] <= f[k]

(***************************************************************************)
(* In the first pass datatotal is what the blocks and the main data have   *)
(* announced; in the second the bytes left are what the blocks not yet     *)
(* placed and the main data have.                                          *)
(***************************************************************************)
Counted ==
  \E f : /\ Totals(f, blocks)
         /\ datatotal = f[Len(blocks)] + main_len
         /\ pc = "payloads" => len - pos = (f[Len(blocks)] - f[placed]) + main_len

DecodeInv == TypeOK /\ DecodeState /\ RangesInRecord /\ Counted

LEMMA InitDecodeInv == Init => DecodeInv
<1> SUFFICES ASSUME Init PROVE DecodeInv
  OBVIOUS
<1>1. len \in Nat /\ pos \in 0 .. len
  BY DecodeAssumption DEF Init, IsLength
<1>2. <<>> \in Seq(Block) /\ Len(<<>>) = 0
  BY EmptySeq
<1>3. NoRange \in [start : Nat, end : Nat] /\ InRecord(NoRange)
  BY <1>1 DEF NoRange, Span, InRecord
<1>4. TypeOK
  <2>1. blocks \in Seq(Block) /\ placed \in 0 .. Len(blocks)
    BY <1>2 DEF Init
  <2>2. written \in Written \cup {<<>>}
    BY DEF Init
  <2>3. main_range \in [start : Nat, end : Nat]
    BY <1>3 DEF Init, NoRange
  <2> QED
    BY <1>1, <2>1, <2>2, <2>3 DEF Init, TypeOK
<1>5. DecodeState /\ RangesInRecord
  BY <1>2, <1>3 DEF Init, DecodeState, RangesInRecord, NoRange
<1>6. Counted
  <2> DEFINE f == [k \in 0 .. 0 |-> 0]
  <2>1. Totals(f, <<>>)
    BY <1>2 DEF Totals
  <2>2. datatotal = f[Len(blocks)] + main_len /\ pc # "payloads" /\ blocks = <<>>
    BY <1>2 DEF Init
  <2> QED
    BY <2>1, <2>2 DEF Counted
<1> QED
  BY <1>4, <1>5, <1>6 DEF DecodeInv

\* One more block adds one more total.
LEMMA TotalsAppend ==
  ASSUME NEW bs \in Seq(Block), NEW b \in Block, NEW f, Totals(f, bs)
  PROVE  \E g : /\ Totals(g, Append(bs, b))
                /\ g[Len(bs) + 1] = f[Len(bs)] + Announced(b.item)
<1> DEFINE n == Len(bs)
           g == [k \in 0 .. n + 1 |-> IF k <= n THEN f[k] ELSE f[n] + Announced(b.item)]
<1>1. /\ n \in Nat /\ Len(Append(bs, b)) = n + 1
      /\ Append(bs, b)[n + 1] = b
      /\ \A k \in 1 .. n : Append(bs, b)[k] = bs[k]
  BY AppendProperties
<1>2. Announced(b.item) \in Nat /\ \A k \in 0 .. n : f[k] \in Nat
  BY ItemTypes, <1>1 DEF Block, Totals
<1>3. g \in [0 .. n + 1 -> Nat] /\ g[0] = 0 /\ g[n + 1] = f[n] + Announced(b.item)
  BY <1>1, <1>2 DEF Totals
<1>4. \A k \in 1 .. n + 1 : g[k] = g[k - 1] + Announced(Append(bs, b)[k].item)
  <2> SUFFICES ASSUME NEW k \in 1 .. n + 1
               PROVE  g[k] = g[k - 1] + Announced(Append(bs, b)[k].item)
    OBVIOUS
  <2>1. CASE k = n + 1
    BY <1>1, <1>3, <2>1
  <2>2. CASE k \in 1 .. n
    <3>1. f[k] = f[k - 1] + Announced(bs[k].item)
      BY <2>2 DEF Totals
    <3> QED
      BY <1>1, <2>2, <3>1
  <2> QED
    BY <1>1, <2>1, <2>2
<1>5. \A j, k \in 0 .. n + 1 : j <= k => g[j] <= g[k]
  <2> SUFFICES ASSUME NEW j \in 0 .. n + 1, NEW k \in 0 .. n + 1, j <= k PROVE g[j] <= g[k]
    OBVIOUS
  <2>1. CASE k <= n
    <3>1. f[j] <= f[k]
      BY <1>1, <2>1 DEF Totals
    <3> QED
      BY <1>1, <2>1, <3>1
  <2>2. CASE j = n + 1
    BY <1>1, <1>3, <2>2
  <2>3. CASE k = n + 1 /\ j <= n
    <3>1. f[j] <= f[n]
      BY <1>1, <2>3 DEF Totals
    <3> QED
      BY <1>1, <1>2, <1>3, <2>3, <3>1
  <2> QED
    BY <1>1, <2>1, <2>2, <2>3
<1> QED
  BY <1>1, <1>3, <1>4, <1>5 DEF Totals

\* The totals do not depend on the ranges of the blocks.
LEMMA TotalsSameItems ==
  ASSUME NEW bs \in Seq(Block), NEW cs \in Seq(Block), NEW f, Totals(f, bs),
         Len(cs) = Len(bs), \A k \in 1 .. Len(bs) : cs[k].item = bs[k].item
  PROVE  Totals(f, cs)
  BY DEF Totals

\* The next payload is there, and all of them are when there is no more.
LEMMA NextPayloadFits ==
  ASSUME DecodeInv, pc = "payloads"
  PROVE  IF placed < Len(blocks) THEN Fits(Announced(blocks[placed + 1].item))
                                 ELSE pos + main_len = len
<1>1. PICK f : /\ Totals(f, blocks)
               /\ len - pos = (f[Len(blocks)] - f[placed]) + main_len
  BY DEF DecodeInv, Counted
<1>2. /\ Len(blocks) \in Nat /\ placed \in 0 .. Len(blocks) /\ main_len \in Nat
      /\ len \in Nat /\ pos \in Nat
  BY DEF DecodeInv, TypeOK
<1>3. CASE placed < Len(blocks)
  <2>1. placed + 1 \in 1 .. Len(blocks) /\ (placed + 1) - 1 = placed
    BY <1>2, <1>3
  <2>2. f[placed + 1] = f[placed] + Announced(blocks[placed + 1].item)
    BY <1>1, <2>1 DEF Totals
  <2>3. f[placed + 1] <= f[Len(blocks)]
    BY <1>1, <1>2, <2>1 DEF Totals
  <2>4. f[placed] \in Nat /\ f[placed + 1] \in Nat /\ f[Len(blocks)] \in Nat
    BY SMTT(30), <1>1, <1>2, <2>1 DEF Totals
  <2>5. Announced(blocks[placed + 1].item) \in Nat
    <3>1. blocks[placed + 1] \in Block
      BY <2>1 DEF DecodeInv, TypeOK
    <3> QED
      BY <3>1, ItemTypes DEF Block
  <2> QED
    BY SMTT(30), <1>1, <1>2, <1>3, <2>2, <2>3, <2>4, <2>5 DEF Fits
<1>4. CASE placed = Len(blocks)
  <2>1. f[placed] \in Nat
    BY <1>1, <1>2 DEF Totals
  <2> QED
    BY <1>1, <1>2, <1>4, <2>1
<1> QED
  BY <1>2, <1>3, <1>4

-----------------------------------------------------------------------------
(* One lemma for each step that does more than move pc.                    *)

LEMMA ReadBlockInv == DecodeInv /\ ReadBlock => DecodeInv'
<1> SUFFICES ASSUME DecodeInv, ReadBlock PROVE DecodeInv'
  OBVIOUS
<1>1. PICK d \in NextItems :
        /\ d.kind = "block" /\ BlockError(d) = "none"
        /\ pos' = pos + DescriptorSize(d)
        /\ datatotal' = datatotal + Announced(d)
        /\ max_block_id' = d.block_id
        /\ blocks' = Append(blocks, [item |-> d, has_image |-> d.has_image,
                                     has_data |-> d.has_data,
                                     bimg_range |-> Span(0, 0), data_range |-> Span(0, 0)])
  BY DEF ReadBlock, Consume
<1> DEFINE b == [item |-> d, has_image |-> d.has_image, has_data |-> d.has_data,
                 bimg_range |-> Span(0, 0), data_range |-> Span(0, 0)]
<1>2. d \in Item /\ TypeOK
  BY NextItemTypes DEF DecodeInv
<1>3. b \in Block /\ b.item = d /\ b.bimg_range = NoRange /\ b.data_range = NoRange
  BY <1>2 DEF Item, Block, Span, NoRange
<1>4. pos' \in 0 .. len /\ Announced(d) \in Nat
  BY <1>1, <1>2, ReadFits, ItemTypes DEF ItemError
<1>5. blocks' = Append(blocks, b)
  BY <1>1
<1> HIDE DEF b
<1>6. /\ blocks \in Seq(Block) /\ blocks' \in Seq(Block) /\ Len(blocks') = Len(blocks) + 1
      /\ blocks'[Len(blocks) + 1] = b
      /\ \A k \in 1 .. Len(blocks) : blocks'[k] = blocks[k]
  BY <1>2, <1>3, <1>5, AppendProperties DEF TypeOK
<1>7. TypeOK'
  <2>1. max_block_id' \in Nat
    BY <1>1, <1>2 DEF Item
  <2>2. placed' \in 0 .. Len(blocks')
    BY <1>2, <1>6 DEF ReadBlock, TypeOK
  <2> QED
    BY SMTT(30), <1>1, <1>2, <1>4, <1>6, <2>1, <2>2 DEF ReadBlock, CountRead, TypeOK, input
<1>8. DecodeState'
  <2>1. DataLen(d) = d.data_len
    BY <1>1, <1>2 DEF BlockError, DataLen, Item
  <2>2. \A k \in 1 .. Len(blocks') :
          blocks'[k].item.kind = "block" /\ DataLen(blocks'[k].item) = blocks'[k].item.data_len
    BY <1>1, <1>3, <1>6, <2>1 DEF DecodeInv, DecodeState
  <2> QED
    BY <2>2 DEF ReadBlock, DecodeInv, DecodeState
<1>9. RangesInRecord'
  <2>1. InRecord(NoRange)
    BY <1>2 DEF InRecord, NoRange, Span, TypeOK
  <2>2. \A k \in 1 .. Len(blocks') :
          InRecord(blocks'[k].bimg_range) /\ InRecord(blocks'[k].data_range)
    BY <1>3, <1>6, <2>1 DEF DecodeInv, RangesInRecord
  <2> QED
    BY <2>2 DEF ReadBlock, DecodeInv, RangesInRecord, InRecord, input
<1>10. Counted'
  <2>1. PICK f : Totals(f, blocks) /\ datatotal = f[Len(blocks)] + main_len
    BY DEF DecodeInv, Counted
  <2>2. PICK g : Totals(g, blocks') /\ g[Len(blocks')] = f[Len(blocks)] + Announced(d)
    BY <1>3, <1>5, <1>6, <2>1, TotalsAppend
  <2>3. f[Len(blocks)] \in Nat /\ main_len \in Nat
    BY <1>2, <1>6, <2>1 DEF Totals, TypeOK
  <2>4. datatotal' = g[Len(blocks')] + main_len'
    BY <1>1, <1>4, <2>1, <2>2, <2>3 DEF ReadBlock
  <2>5. pc' # "payloads"
    BY DEF ReadBlock
  <2> QED
    BY <2>2, <2>4, <2>5 DEF Counted
<1> QED
  BY <1>7, <1>8, <1>9, <1>10 DEF DecodeInv

LEMMA ReadOtherInv == DecodeInv /\ ReadOther => DecodeInv'
<1> SUFFICES ASSUME DecodeInv, ReadOther PROVE DecodeInv'
  OBVIOUS
<1>1. PICK d \in NextItems : /\ d.kind \in {"origin", "top_xid"} /\ ItemError(d) = "none"
                             /\ pos' = pos + DescriptorSize(d)
  BY DEF ReadOther, Consume
<1>2. pos' \in 0 .. len
  BY <1>1, NextItemTypes, ReadFits DEF DecodeInv
<1>3. TypeOK'
  BY <1>2 DEF DecodeInv, ReadOther, CountRead, TypeOK, input, result
<1>4. DecodeState' /\ RangesInRecord'
  BY DEF DecodeInv, ReadOther, DecodeState, RangesInRecord, InRecord, input, result
<1>5. Counted'
  BY DEF DecodeInv, ReadOther, Counted, result
<1> QED
  BY <1>3, <1>4, <1>5 DEF DecodeInv

LEMMA ReadMainHeaderInv == DecodeInv /\ ReadMainHeader => DecodeInv'
<1> SUFFICES ASSUME DecodeInv, ReadMainHeader PROVE DecodeInv'
  OBVIOUS
<1>1. PICK d \in NextItems :
        /\ is_main(d) /\ ItemError(d) = "none"
        /\ pos' = pos + DescriptorSize(d)
        /\ main_len' = d.main_len /\ datatotal' = datatotal + Announced(d)
  BY DEF ReadMainHeader, Consume
<1>2. d \in Item /\ TypeOK
  BY NextItemTypes DEF DecodeInv
<1>3. pos' \in 0 .. len
  BY <1>1, <1>2, ReadFits DEF is_main
<1>4. main_len' \in Nat /\ Announced(d) = main_len' /\ main_len = 0
  BY <1>1, <1>2 DEF Item, Announced, DecodeInv, DecodeState, ReadMainHeader
<1>5. TypeOK'
  BY <1>1, <1>2, <1>3, <1>4 DEF ReadMainHeader, CountRead, TypeOK, input
<1>6. DecodeState' /\ RangesInRecord'
  BY DEF DecodeInv, ReadMainHeader, DecodeState, RangesInRecord, InRecord, input
<1>7. Counted'
  <2>1. PICK f : Totals(f, blocks) /\ datatotal = f[Len(blocks)] + main_len
    BY DEF DecodeInv, Counted
  <2>2. f[Len(blocks)] \in Nat
    BY <1>2, <2>1 DEF Totals, TypeOK
  <2>3. datatotal' = f[Len(blocks')] + main_len' /\ pc' # "payloads" /\ blocks' = blocks
    BY <1>1, <1>4, <2>1, <2>2 DEF ReadMainHeader
  <2> QED
    BY <2>1, <2>3 DEF Counted
<1> QED
  BY <1>5, <1>6, <1>7 DEF DecodeInv

LEMMA CheckLengthInv == DecodeInv /\ CheckLength => DecodeInv'
<1> SUFFICES ASSUME DecodeInv, CheckLength PROVE DecodeInv'
  OBVIOUS
<1>1. TypeOK'
  BY DEF DecodeInv, CheckLength, TypeOK, input, result
<1>2. DecodeState' /\ RangesInRecord'
  BY DEF DecodeInv, CheckLength, DecodeState, RangesInRecord, InRecord, input, result
<1>3. Counted'
  <2>1. PICK f : Totals(f, blocks) /\ datatotal = f[Len(blocks)] + main_len
    BY DEF DecodeInv, Counted
  <2>2. /\ f[Len(blocks)] \in Nat /\ f[0] = 0 /\ main_len \in Nat /\ pos \in 0 .. len /\ len \in Nat
        /\ placed = 0
    BY <2>1 DEF DecodeInv, DecodeState, CheckLength, Totals, TypeOK
  <2>3. pc' = "payloads" => len - pos = (f[Len(blocks)] - f[placed]) + main_len
    BY <2>1, <2>2 DEF CheckLength, LengthAgrees, remaining
  <2> QED
    BY <2>1, <2>3 DEF CheckLength, Counted, input, result
<1> QED
  BY <1>1, <1>2, <1>3 DEF DecodeInv

LEMMA PlaceBlockInv == DecodeInv /\ PlaceBlock => DecodeInv'
<1> SUFFICES ASSUME DecodeInv, PlaceBlock PROVE DecodeInv'
  OBVIOUS
<1> DEFINE old == blocks[placed + 1]
           d == old.item
           b == WithRanges(old, pos)
           end == pos + ImageLen(d)
<1>1. /\ placed + 1 \in 1 .. Len(blocks) /\ placed \in Nat /\ Len(blocks) \in Nat
      /\ len \in Nat /\ pos \in 0 .. len /\ blocks \in Seq(Block)
  BY DEF DecodeInv, TypeOK, PlaceBlock
<1>2. /\ old \in Block /\ d \in Item /\ d.kind = "block" /\ DataLen(d) = d.data_len
      /\ Announced(d) = d.data_len + ImageLen(d)
      /\ ImageLen(d) \in Nat /\ d.data_len \in Nat /\ Announced(d) \in Nat
  <2>1. old \in Block
    BY <1>1
  <2>2. d \in Item /\ d.kind = "block" /\ DataLen(d) = d.data_len
    BY <1>1, <2>1 DEF Block, DecodeInv, DecodeState
  <2>3. ImageLen(d) \in Nat /\ Announced(d) \in Nat
    BY <2>2, ItemTypes
  <2> QED
    BY <2>1, <2>2, <2>3 DEF Announced, is_main, Item
<1>3. Fits(Announced(d))
  BY NextPayloadFits DEF PlaceBlock
<1>4. pos' = pos + Announced(d) /\ pos' \in 0 .. len
  BY SMTT(30), <1>1, <1>2, <1>3 DEF PlaceBlock, Fits
<1>5. /\ b \in Block /\ b.item = d
      /\ InRecord(b.bimg_range) /\ InRecord(b.data_range)
  <2>1. end \in Nat /\ end + d.data_len \in Nat /\ end + d.data_len <= len /\ pos <= end
    BY SMTT(30), <1>1, <1>2, <1>3 DEF Fits
  <2>2. /\ Span(pos, end) \in [start : Nat, end : Nat]
        /\ Span(end, end + d.data_len) \in [start : Nat, end : Nat]
        /\ InRecord(Span(pos, end)) /\ InRecord(Span(end, end + d.data_len))
    <3>1. pos \in Nat /\ end \in Nat /\ end + d.data_len \in Nat /\ end <= len /\ end <= end + d.data_len
      BY SMTT(30), <1>1, <1>2, <2>1
    <3> HIDE DEF end, d
    <3> QED
      BY <2>1, <3>1 DEF Span, InRecord
  <2>3. InRecord(old.bimg_range) /\ InRecord(old.data_range)
    BY <1>1 DEF DecodeInv, RangesInRecord
  <2> DEFINE image == IF d.has_image THEN Span(pos, end) ELSE old.bimg_range
             data == IF d.has_data THEN Span(end, end + d.data_len) ELSE old.data_range
  <2>4. b = [old EXCEPT !.bimg_range = image, !.data_range = data]
    BY <1>2 DEF WithRanges, Block
  <2>5. /\ image \in [start : Nat, end : Nat] /\ InRecord(image)
        /\ data \in [start : Nat, end : Nat] /\ InRecord(data)
    BY <1>2, <2>2, <2>3 DEF Block
  <2> HIDE DEF image, data, b
  <2> QED
    BY <1>2, <2>4, <2>5 DEF Block
<1>6. blocks' = [blocks EXCEPT ![placed + 1] = b]
  BY DEF PlaceBlock
<1> HIDE DEF b, end
<1>7. /\ blocks' \in Seq(Block) /\ Len(blocks') = Len(blocks)
      /\ \A k \in 1 .. Len(blocks) : blocks'[k] = IF k = placed + 1 THEN b ELSE blocks[k]
  BY <1>1, <1>5, <1>6, ExceptSeq
<1>8. TypeOK'
  <2>1. placed' \in 0 .. Len(blocks')
    BY <1>1, <1>7 DEF PlaceBlock
  <2> QED
    BY <1>4, <1>7, <2>1 DEF DecodeInv, PlaceBlock, TypeOK, input
<1>9. DecodeState'
  BY SMTT(30), <1>1, <1>2, <1>5, <1>7 DEF DecodeInv, DecodeState, PlaceBlock
<1>10. RangesInRecord'
  BY <1>5, <1>7 DEF DecodeInv, RangesInRecord, InRecord, PlaceBlock, input
<1>11. Counted'
  <2>1. PICK f : /\ Totals(f, blocks)
                 /\ datatotal = f[Len(blocks)] + main_len
                 /\ len - pos = (f[Len(blocks)] - f[placed]) + main_len
    BY DEF DecodeInv, Counted, PlaceBlock
  <2>2. Totals(f, blocks')
    BY <1>1, <1>5, <1>7, <2>1, TotalsSameItems
  <2>3. f[placed + 1] = f[placed] + Announced(d)
    <3>1. (placed + 1) - 1 = placed
      BY <1>1
    <3> QED
      BY <1>1, <2>1, <3>1 DEF Totals
  <2>4. f[placed] \in Nat /\ f[Len(blocks)] \in Nat /\ main_len \in Nat
    <3>1. f \in [0 .. Len(blocks) -> Nat] /\ placed \in 0 .. Len(blocks) /\ Len(blocks) \in 0 .. Len(blocks)
      BY <1>1, <2>1 DEF Totals, DecodeInv, TypeOK
    <3> QED
      BY <3>1 DEF DecodeInv, TypeOK
  <2>5. len' - pos' = (f[Len(blocks')] - f[placed']) + main_len'
    <3>1. len' = len /\ main_len' = main_len /\ placed' = placed + 1 /\ Len(blocks') = Len(blocks)
      BY <1>7 DEF PlaceBlock, input
    <3>2. pos' = pos + Announced(d) /\ pos \in Nat /\ len \in Nat /\ Announced(d) \in Nat
      BY <1>1, <1>2, <1>4
    <3> DEFINE a == Announced(d)
               all == f[Len(blocks)]
               sofar == f[placed]
    <3>3. \A l, p, x, t, s, m \in Nat : l - p = (t - s) + m => l - (p + x) = (t - (s + x)) + m
      OBVIOUS
    <3>4. a \in Nat /\ all \in Nat /\ sofar \in Nat /\ main_len \in Nat /\ len - pos = (all - sofar) + main_len
      BY <2>1, <2>4, <3>2
    <3> HIDE DEF a, all, sofar
    <3>5. len - (pos + a) = (all - (sofar + a)) + main_len
      BY <3>2, <3>3, <3>4
    <3> USE DEF a, all, sofar
    <3> QED
      BY <2>3, <3>1, <3>2, <3>5
  <2>6. datatotal' = f[Len(blocks')] + main_len'
    BY <1>7, <2>1 DEF PlaceBlock
  <2> QED
    BY <2>2, <2>5, <2>6 DEF Counted
<1> QED
  BY <1>8, <1>9, <1>10, <1>11 DEF DecodeInv

LEMMA PlaceMainInv == DecodeInv /\ PlaceMain => DecodeInv'
<1> SUFFICES ASSUME DecodeInv, PlaceMain PROVE DecodeInv'
  OBVIOUS
<1>1. placed = Len(blocks) /\ Len(blocks) \in Nat /\ pos \in 0 .. len /\ len \in Nat /\ main_len \in Nat
  BY DEF PlaceMain, DecodeInv, TypeOK
<1>2. pos + main_len = len
  BY <1>1, NextPayloadFits DEF PlaceMain
<1>3. pos' \in 0 .. len /\ main_range' \in [start : Nat, end : Nat] /\ InRecord(main_range')
  <2>1. CASE has_main
    BY <1>1, <1>2, <2>1 DEF PlaceMain, Span, InRecord
  <2>2. CASE ~has_main
    BY <1>1, <2>2 DEF PlaceMain, DecodeInv, TypeOK, RangesInRecord
  <2> QED
    BY <2>1, <2>2 DEF DecodeInv, TypeOK
<1>4. TypeOK'
  BY <1>3 DEF DecodeInv, PlaceMain, TypeOK, input
<1>5. DecodeState' /\ RangesInRecord'
  BY <1>3 DEF DecodeInv, PlaceMain, DecodeState, RangesInRecord, InRecord, input
<1>6. Counted'
  BY DEF DecodeInv, PlaceMain, Counted
<1> QED
  BY <1>4, <1>5, <1>6 DEF DecodeInv

LEMMA NextDecodeInv == DecodeInv /\ [Next]_vars => DecodeInv'
<1> SUFFICES ASSUME DecodeInv, [Next]_vars PROVE DecodeInv'
  OBVIOUS
<1>1. CASE DescriptorBad
  <2>1. TypeOK'
    BY <1>1 DEF DecodeInv, DescriptorBad, TypeOK, ItemError, BlockError, ImageError, input, result
  <2>2. DecodeState' /\ RangesInRecord' /\ Counted'
    BY <1>1 DEF DecodeInv, DescriptorBad, DecodeState, RangesInRecord, InRecord, Counted, input, result
  <2> QED
    BY <2>1, <2>2 DEF DecodeInv
<1>2. CASE DescriptorsEnd
  BY <1>2 DEF DecodeInv, DescriptorsEnd, TypeOK, DecodeState, RangesInRecord, InRecord, Counted, input, result
<1>3. CASE UNCHANGED vars
  BY <1>3 DEF DecodeInv, TypeOK, DecodeState, RangesInRecord, InRecord, Counted, vars, input, result
<1> QED
  BY <1>1, <1>2, <1>3, ReadBlockInv, ReadOtherInv, ReadMainHeaderInv, CheckLengthInv,
     PlaceBlockInv, PlaceMainInv DEF Next

LEMMA DecodeInvariant == Spec => []DecodeInv
  BY InitDecodeInv, NextDecodeInv, PTL DEF Spec

-----------------------------------------------------------------------------
(* The decoder's types; that its reader never passes the end of the record *)
(* is one of them.                                                         *)
THEOREM DecodeTypeCorrect == Spec => []TypeOK
  BY DecodeInvariant, PTL DEF DecodeInv

(* Whatever the bytes of a record, its payloads are ranges within it.      *)
THEOREM SlicesNeverPanic == Spec => []RangesInRecord
  BY DecodeInvariant, PTL DEF DecodeInv

(* The second pass always finds the bytes it takes, and takes them all.    *)
THEOREM SecondPassNeverFails == Spec => []PayloadsFit
<1>1. DecodeInv => PayloadsFit
  BY NextPayloadFits DEF PayloadsFit
<1> QED
  BY <1>1, DecodeInvariant, PTL

(* A descriptor has at least one byte, so every pass of the loop brings    *)
(* the reader nearer to the end of the record.                             *)
THEOREM EveryPassConsumes == Spec => LoopConsumes
<1>1. ASSUME NEW d \in Item PROVE DescriptorSize(d) > 0
  <2>1. ImageHdr(d) \in Nat
    BY DEF ImageHdr
  <2> QED
    BY <2>1 DEF Item, Kinds, DescriptorSize
<1>2. TypeOK /\ [Next]_vars => [pc = "descriptors" /\ pc' = "descriptors" => pos' > pos]_vars
  <2> SUFFICES ASSUME TypeOK, Next, pc = "descriptors", pc' = "descriptors" PROVE pos' > pos
    OBVIOUS
  <2>1. ReadBlock \/ ReadOther
    BY DEF Next, DescriptorBad, ReadMainHeader, DescriptorsEnd, CheckLength, PlaceBlock, PlaceMain
  <2>2. PICK d \in NextItems : pos' = pos + DescriptorSize(d)
    BY <2>1 DEF ReadBlock, ReadOther, Consume
  <2>3. DescriptorSize(d) \in Nat /\ DescriptorSize(d) > 0
    BY <1>1, NextItemTypes, ItemTypes
  <2> QED
    BY <2>2, <2>3 DEF TypeOK
<1> QED
  BY <1>2, DecodeTypeCorrect, PTL DEF Spec, LoopConsumes

-----------------------------------------------------------------------------
(* Induction over numbers, and sequences that are joined.                  *)

\* A set of natural numbers has a least element.
LEMMA Least ==
  ASSUME NEW T, T \subseteq Nat, T # {}
  PROVE  \E m \in T : \A k \in T : m <= k
<1>1. PICK m \in T : \A k \in T : ~ (<<k, m>> \in OpToRel(<, Nat))
  BY NatLessThanWellFounded, WFMin
<1>2. ASSUME NEW k \in T PROVE m <= k
  <2>1. ~ (k < m)
    BY <1>1 DEF OpToRel
  <2> QED
    BY <2>1
<1> QED
  BY <1>2

\* Induction up to n.
LEMMA UpTo ==
  ASSUME NEW n \in Nat, NEW T, 0 \in T, \A m \in 0 .. n - 1 : m \in T => m + 1 \in T
  PROVE  \A m \in 0 .. n : m \in T
<1> SUFFICES ASSUME 0 .. n \ T # {} PROVE FALSE
  OBVIOUS
<1>1. 0 .. n \ T \subseteq Nat
  OBVIOUS
<1>2. PICK m \in 0 .. n \ T : \A k \in 0 .. n \ T : m <= k
  BY <1>1, Least
<1>3. m \in 0 .. n /\ m \notin T /\ m # 0
  BY <1>2
<1>4. m - 1 \in 0 .. n - 1 /\ m - 1 \in 0 .. n /\ ~ (m <= m - 1) /\ (m - 1) + 1 = m
  BY <1>3
<1>5. m - 1 \in T
  BY <1>2, <1>4
<1> QED BY <1>3, <1>4, <1>5

Cat(ss, m, g) == g = [i \in 1 .. m |-> IF i = 1 THEN ss[i] ELSE g[i - 1] \o ss[i]]

LEMMA CatExists ==
  ASSUME NEW ss, NEW n \in Nat
  PROVE  \E g : Cat(ss, n, g)
<1> DEFINE T == {m \in Nat : \E g : Cat(ss, m, g)}
<1>1. 0 \in T
  <2>1. Cat(ss, 0, [i \in 1 .. 0 |-> IF i = 1 THEN ss[i] ELSE <<>>])
    BY DEF Cat
  <2> QED BY <2>1
<1>2. ASSUME NEW m \in 0 .. n - 1, m \in T PROVE m + 1 \in T
  <2>1. PICK g : Cat(ss, m, g)
    BY <1>2
  <2> DEFINE h == [i \in 1 .. m + 1 |-> IF i = 1 THEN ss[i]
                                        ELSE IF i = m + 1 THEN g[m] \o ss[i] ELSE g[i]]
  <2>2. Cat(ss, m + 1, h)
    <3> SUFFICES ASSUME NEW i \in 1 .. m + 1
                 PROVE  h[i] = IF i = 1 THEN ss[i] ELSE h[i - 1] \o ss[i]
      BY DEF Cat
    <3>1. CASE i = 1
      BY <3>1
    <3>2. CASE i # 1 /\ i = m + 1
      <4>1. i - 1 = m /\ m \in 1 .. m + 1 /\ m # m + 1 /\ m \in 1 .. m
        BY <3>2
      <4>2. h[m] = g[m]
        BY <2>1, <4>1 DEF Cat
      <4> QED BY <3>2, <4>1, <4>2
    <3>3. CASE i # 1 /\ i # m + 1
      <4>1. i \in 1 .. m /\ i - 1 \in 1 .. m /\ i - 1 \in 1 .. m + 1 /\ i - 1 # m + 1
        BY <3>3
      <4>2. g[i] = g[i - 1] \o ss[i]
        BY <2>1, <3>3, <4>1 DEF Cat
      <4>3. h[i - 1] = g[i - 1]
        BY <2>1, <4>1 DEF Cat
      <4> QED BY <3>3, <4>2, <4>3
    <3> QED BY <3>1, <3>2, <3>3
  <2> QED BY <2>2
<1> HIDE DEF T
<1>3. \A m \in 0 .. n : m \in T
  BY <1>1, <1>2, UpTo
<1> QED BY <1>3 DEF T

LEMMA FlattenIsCat ==
  ASSUME NEW ss, Len(ss) \in Nat, Len(ss) # 0
  PROVE  \E g : Cat(ss, Len(ss), g) /\ FlattenSeq(ss) = g[Len(ss)]
<1> DEFINE c == CHOOSE g : Cat(ss, Len(ss), g)
<1>1. Cat(ss, Len(ss), c)
  BY CatExists
<1>2. FlattenSeq(ss) = c[Len(ss)]
  BY DEF FlattenSeq, Cat
<1> QED BY <1>1, <1>2

-----------------------------------------------------------------------------
(* Lists that lead from a to z by the steps in T: <<e, x, y>> is in T if   *)
(* the element e may lead from x to y.                                     *)

Along(T, u, a, z, g) ==
  /\ g \in [0 .. Len(u) -> Nat] /\ g[0] = a /\ g[Len(u)] = z
  /\ \A k \in 1 .. Len(u) : <<u[k], g[k - 1], g[k]>> \in T

Leads(T, S, u, a, z) == u \in Seq(S) /\ \E g : Along(T, u, a, z, g)

LEMMA LeadsEmpty ==
  ASSUME NEW T, NEW S, NEW a \in Nat
  PROVE  Leads(T, S, <<>>, a, a)
<1>1. <<>> \in Seq(S) /\ Len(<<>>) = 0
  BY EmptySeq
<1>2. Along(T, <<>>, a, a, [k \in 0 .. 0 |-> a])
  BY <1>1 DEF Along
<1> QED BY <1>1, <1>2 DEF Leads

LEMMA LeadsOne ==
  ASSUME NEW T, NEW S, NEW e \in S, NEW a \in Nat, NEW z \in Nat, <<e, a, z>> \in T
  PROVE  Leads(T, S, <<e>>, a, z)
<1>1. <<e>> \in Seq(S) /\ Len(<<e>>) = 1 /\ <<e>>[1] = e
  OBVIOUS
<1> DEFINE g == [k \in 0 .. 1 |-> IF k = 0 THEN a ELSE z]
<1>2. g \in [0 .. 1 -> Nat] /\ g[0] = a /\ g[1] = z
  OBVIOUS
<1> HIDE DEF g
<1>3. \A k \in 1 .. 1 : k = 1 /\ k - 1 = 0
  OBVIOUS
<1>4. Along(T, <<e>>, a, z, g)
  BY <1>1, <1>2, <1>3 DEF Along
<1> QED BY <1>1, <1>4 DEF Leads

LEMMA LeadsJoin ==
  ASSUME NEW T, NEW S, NEW u, NEW v, NEW a, NEW m, NEW z,
         Leads(T, S, u, a, m), Leads(T, S, v, m, z)
  PROVE  Leads(T, S, u \o v, a, z)
<1>1. /\ u \in Seq(S) /\ v \in Seq(S) /\ Len(u) \in Nat /\ Len(v) \in Nat
  BY LenProperties DEF Leads
<1>2. PICK g : Along(T, u, a, m, g)
  BY DEF Leads
<1>3. PICK h : Along(T, v, m, z, h)
  BY DEF Leads
<1> DEFINE w == u \o v
           n == Len(u)
           f == [k \in 0 .. n + Len(v) |-> IF k <= n THEN g[k] ELSE h[k - n]]
<1>4. /\ w \in Seq(S) /\ Len(w) = n + Len(v)
      /\ \A k \in 1 .. n + Len(v) : w[k] = IF k <= n THEN u[k] ELSE v[k - n]
  BY <1>1, ConcatProperties
<1>5. /\ \A k \in 0 .. n : g[k] \in Nat
      /\ \A k \in 0 .. Len(v) : h[k] \in Nat
      /\ g[0] = a /\ g[n] = m /\ h[0] = m /\ h[Len(v)] = z
  BY <1>2, <1>3 DEF Along
<1> HIDE DEF w
<1>6. /\ \A k \in 0 .. n : f[k] = g[k]
      /\ \A k \in 0 .. Len(v) : f[n + k] = h[k]
  <2>1. ASSUME NEW k \in 0 .. n PROVE f[k] = g[k]
    <3>1. k \in 0 .. n + Len(v) /\ k <= n
      BY <1>1
    <3> QED BY <3>1
  <2>2. ASSUME NEW k \in 0 .. Len(v) PROVE f[n + k] = h[k]
    <3>1. n + k \in 0 .. n + Len(v) /\ (n + k) - n = k /\ (n + k <= n <=> k = 0) /\ n + 0 = n
      BY <1>1
    <3>2. CASE k = 0
      BY <1>5, <3>1, <3>2
    <3>3. CASE k # 0
      BY <3>1, <3>3
    <3> QED BY <3>2, <3>3
  <2> QED BY <2>1, <2>2
<1>7. f \in [0 .. n + Len(v) -> Nat]
  <2>1. ASSUME NEW k \in 0 .. n + Len(v) PROVE f[k] \in Nat
    <3>1. k \in 0 .. n \/ (k - n \in 0 .. Len(v) /\ n + (k - n) = k)
      BY <1>1
    <3> HIDE DEF f
    <3> QED BY <1>5, <1>6, <3>1
  <2> QED BY <2>1
<1> HIDE DEF f, n
<1>8. f[0] = a /\ f[n + Len(v)] = z
  <2>1. n \in Nat /\ 0 \in 0 .. n /\ Len(v) \in 0 .. Len(v)
    BY <1>1 DEF n
  <2> QED BY <1>5, <1>6, <2>1
<1>9. ASSUME NEW k \in 1 .. n + Len(v) PROVE <<w[k], f[k - 1], f[k]>> \in T
  <2>1. n \in Nat
    BY <1>1 DEF n
  <2>2. CASE k <= n
    <3>1. k \in 1 .. n /\ k \in 0 .. n /\ k - 1 \in 0 .. n
      BY <2>1, <2>2
    <3>2. <<u[k], g[k - 1], g[k]>> \in T
      BY <1>2, <3>1 DEF Along, n
    <3> QED BY <1>4, <1>6, <2>2, <3>1, <3>2
  <2>3. CASE ~(k <= n)
    <3> DEFINE j == k - n
    <3>1. j \in 1 .. Len(v) /\ j \in 0 .. Len(v) /\ j - 1 \in 0 .. Len(v) /\ n + j = k /\ n + (j - 1) = k - 1
      BY <1>1, <2>1, <2>3
    <3>2. w[k] = v[j]
      BY <1>4, <2>3
    <3> HIDE DEF j
    <3>3. <<v[j], h[j - 1], h[j]>> \in T
      BY <1>3, <3>1 DEF Along
    <3> QED BY <1>6, <3>1, <3>2, <3>3
  <2> QED BY <2>2, <2>3
<1>10. Along(T, w, a, z, f)
  BY <1>4, <1>7, <1>8, <1>9 DEF Along
<1> QED BY <1>4, <1>10 DEF Leads, w

LEMMA LeadsFlatten ==
  ASSUME NEW T, NEW S, NEW ss, NEW n \in Nat, Len(ss) = n, n = 0 => ss = <<>>,
         NEW f, f[0] \in Nat, \A k \in 1 .. n : Leads(T, S, ss[k], f[k - 1], f[k])
  PROVE  Leads(T, S, FlattenSeq(ss), f[0], f[n])
<1>1. CASE n = 0
  <2>1. FlattenSeq(ss) = <<>>
    BY <1>1 DEF FlattenSeq
  <2> QED BY <1>1, <2>1, LeadsEmpty
<1>2. CASE n # 0
  <2>1. PICK g : Cat(ss, n, g) /\ FlattenSeq(ss) = g[n]
    BY <1>2, FlattenIsCat
  <2> DEFINE D == {m \in 0 .. n : m # 0 => Leads(T, S, g[m], f[0], f[m])}
  <2>2. 0 \in D
    OBVIOUS
  <2>3. ASSUME NEW m \in 0 .. n - 1, m \in D PROVE m + 1 \in D
    <3>1. m + 1 \in 1 .. n /\ m + 1 \in 0 .. n /\ (m + 1) - 1 = m
      OBVIOUS
    <3>2. Leads(T, S, ss[m + 1], f[m], f[m + 1])
      BY <3>1
    <3>3. CASE m = 0
      <4>1. g[1] = ss[1]
        BY <1>2, <2>1 DEF Cat
      <4> QED BY <3>1, <3>2, <3>3, <4>1
    <3>4. CASE m # 0
      <4>1. m + 1 # 1
        BY <3>4
      <4>2. g[m + 1] = g[m] \o ss[m + 1]
        BY <2>1, <3>1, <4>1 DEF Cat
      <4>3. Leads(T, S, g[m], f[0], f[m])
        BY <2>3, <3>4
      <4>4. Leads(T, S, g[m + 1], f[0], f[m + 1])
        BY <3>2, <4>2, <4>3, LeadsJoin
      <4> QED BY <3>1, <4>4
    <3> QED BY <3>3, <3>4
  <2> HIDE DEF D
  <2>4. \A m \in 0 .. n : m \in D
    BY <2>2, <2>3, UpTo
  <2> USE DEF D
  <2> QED BY <1>2, <2>1, <2>4
<1> QED BY <1>1, <1>2

\* Every step of a list leads from within [a, z] to within it, and forwards.
LEMMA AlongGrows ==
  ASSUME NEW T, NEW u, Len(u) \in Nat, NEW a, NEW z, NEW g, Along(T, u, a, z, g),
         \A t \in T : t[2] < t[3]
  PROVE  \A k \in 0 .. Len(u) : \A j \in 0 .. k : j < k => g[j] < g[k]
<1> DEFINE n == Len(u)
           D == {m \in 0 .. n : \A j \in 0 .. m : j < m => g[j] < g[m]}
<1>1. /\ n \in Nat /\ \A k \in 0 .. n : g[k] \in Nat
      /\ \A k \in 1 .. n : g[k - 1] < g[k]
  <2>1. \A k \in 1 .. n : <<u[k], g[k - 1], g[k]>> \in T
    BY DEF Along
  <2>2. \A k \in 1 .. n : g[k - 1] < g[k]
    <3> TAKE k \in 1 .. n
    <3> DEFINE t == <<u[k], g[k - 1], g[k]>>
    <3>1. t \in T /\ t[2] = g[k - 1] /\ t[3] = g[k]
      BY <2>1
    <3> HIDE DEF t
    <3> QED BY <3>1
  <2> QED BY <2>2 DEF Along
<1> HIDE DEF n
<1>2. 0 \in D
  BY <1>1
<1>3. ASSUME NEW m \in 0 .. n - 1, m \in D PROVE m + 1 \in D
  <2>1. m + 1 \in 1 .. n /\ m + 1 \in 0 .. n /\ (m + 1) - 1 = m /\ m \in 0 .. n
    BY <1>1
  <2>2. g[m] < g[m + 1] /\ g[m] \in Nat /\ g[m + 1] \in Nat
    BY <1>1, <2>1
  <2>3. ASSUME NEW j \in 0 .. m + 1, j < m + 1 PROVE g[j] < g[m + 1]
    <3>1. j \in 0 .. m /\ j \in 0 .. n /\ (j < m \/ j = m)
      BY <1>1, <2>1, <2>3
    <3>2. j < m => g[j] < g[m]
      BY <1>3, <3>1
    <3>3. g[j] \in Nat
      BY <1>1, <3>1
    <3> QED BY <2>2, <3>1, <3>2, <3>3
  <2> QED BY <2>1, <2>3
<1> HIDE DEF D
<1>4. \A k \in 0 .. n : k \in D
  BY <1>1, <1>2, <1>3, UpTo
<1> QED BY <1>4 DEF D, n

\* A place between a and z is in one of the steps.
LEMMA AlongCovers ==
  ASSUME NEW T, NEW u, Len(u) \in Nat, NEW a \in Nat, NEW z \in Nat, NEW g, Along(T, u, a, z, g),
         NEW i \in Nat, a <= i, i < z
  PROVE  \E k \in 1 .. Len(u) : g[k - 1] <= i /\ i < g[k]
<1> DEFINE n == Len(u)
           D == {k \in 0 .. n : i < g[k]}
<1>1. n \in Nat /\ g[0] = a /\ g[n] = z /\ \A k \in 0 .. n : g[k] \in Nat
  BY DEF Along
<1> HIDE DEF n
<1>2. n \in D /\ D \subseteq Nat
  BY <1>1
<1>3. PICK k \in D : \A j \in D : k <= j
  BY <1>2, Least
<1>4. k # 0 /\ k \in 0 .. n
  BY <1>1, <1>3
<1>5. k \in 1 .. n /\ k - 1 \in 0 .. n /\ ~(k <= k - 1)
  BY <1>1, <1>4
<1>6. ~(i < g[k - 1]) /\ g[k - 1] \in Nat
  BY <1>1, <1>3, <1>5
<1> QED BY <1>3, <1>5, <1>6 DEF n

-----------------------------------------------------------------------------
(* The parts of a decoded record.                                          *)

PartName   == {"Header", "Descriptors", "Fpi", "BlockData", "MainData"} \X Nat
RangedPart == [range : [start : Nat, end : Nat], part : PartName]

(***************************************************************************)
(* s leads from a to z without a gap, an overlap or an empty range.        *)
(***************************************************************************)
Tiles == {t \in RangedPart \X Nat \X Nat :
            t[2] = t[1].range.start /\ t[3] = t[1].range.end /\ t[2] < t[3]}

Tiled(s, a, z) == Leads(Tiles, RangedPart, s, a, z)

LEMMA TiledEmpty ==
  ASSUME NEW a \in Nat
  PROVE  Tiled(<<>>, a, a)
BY LeadsEmpty DEF Tiled

LEMMA TiledOne ==
  ASSUME NEW a \in Nat, NEW z \in Nat, a < z, NEW part \in PartName
  PROVE  Tiled(<<[range |-> Span(a, z), part |-> part]>>, a, z)
<1> DEFINE p == [range |-> Span(a, z), part |-> part]
<1>1. p \in RangedPart /\ p.range.start = a /\ p.range.end = z
  BY DEF RangedPart, Span
<1> HIDE DEF p
<1>2. <<p, a, z>> \in Tiles
  BY <1>1 DEF Tiles
<1>3. Tiled(<<p>>, a, z)
  BY <1>1, <1>2, LeadsOne DEF Tiled
<1> QED BY <1>3 DEF p

LEMMA TiledJoin ==
  ASSUME NEW a, NEW m, NEW z, NEW s, NEW t, Tiled(s, a, m), Tiled(t, m, z)
  PROVE  Tiled(s \o t, a, z)
BY LeadsJoin DEF Tiled

\* Where the ranges are, and that they are in order.
LEMMA TiledPlaces ==
  ASSUME NEW s, NEW a, NEW z, Tiled(s, a, z)
  PROVE  /\ s \in Seq(RangedPart) /\ Len(s) \in Nat
         /\ \E g : /\ g[0] = a /\ g[Len(s)] = z
                   /\ \A k \in 0 .. Len(s) : g[k] \in Nat
                   /\ \A k \in 1 .. Len(s) : /\ s[k].range.start = g[k - 1]
                                             /\ s[k].range.end = g[k] /\ g[k - 1] < g[k]
                   /\ \A k \in 0 .. Len(s) : \A j \in 0 .. k : j < k => g[j] < g[k]
<1>1. s \in Seq(RangedPart) /\ Len(s) \in Nat
  BY LenProperties DEF Tiled, Leads
<1>2. PICK g : Along(Tiles, s, a, z, g)
  BY DEF Tiled, Leads
<1>3. g[0] = a /\ g[Len(s)] = z /\ \A k \in 0 .. Len(s) : g[k] \in Nat
  BY <1>2 DEF Along
<1>4. \A k \in 1 .. Len(s) : /\ s[k].range.start = g[k - 1]
                             /\ s[k].range.end = g[k] /\ g[k - 1] < g[k]
  <2> TAKE k \in 1 .. Len(s)
  <2>1. <<s[k], g[k - 1], g[k]>> \in Tiles
    BY <1>2 DEF Along
  <2> QED BY <2>1 DEF Tiles
<1>5. \A t \in Tiles : t[2] < t[3]
  BY DEF Tiles
<1>6. \A k \in 0 .. Len(s) : \A j \in 0 .. k : j < k => g[j] < g[k]
  BY <1>1, <1>2, <1>5, AlongGrows
<1> QED BY <1>1, <1>3, <1>4, <1>6

\* Where a block's payloads are when they take [a, z) of the record.
BlockAt(b, a, z) ==
  LET image_end == a + ImageLen(b.item) IN
  /\ a \in Nat /\ z = image_end + DataLen(b.item)
  /\ b.has_image = b.item.has_image /\ b.has_data = b.item.has_data
  /\ b.has_image => b.bimg_range = Span(a, image_end)
  /\ b.has_data => b.data_range = Span(image_end, z)

LEMMA RetainedTiles ==
  ASSUME NEW a \in Nat, NEW n \in Nat, NEW part \in PartName
  PROVE  Tiled(Retained(Span(a, a + n), part), a, a + n)
<1>1. Length(Span(a, a + n)) = n
  BY DEF Length, Span
<1>2. CASE n = 0
  <2>1. a + n = a /\ Retained(Span(a, a + n), part) = <<>>
    BY <1>1, <1>2 DEF Retained
  <2> QED BY <2>1, TiledEmpty
<1>3. CASE n # 0
  <2>1. a + n \in Nat /\ a < a + n
    BY <1>3
  <2>2. Retained(Span(a, a + n), part) = <<[range |-> Span(a, a + n), part |-> part]>>
    BY <1>1, <1>3 DEF Retained
  <2> QED BY <2>1, <2>2, TiledOne
<1> QED BY <1>2, <1>3

LEMMA BlockTiles ==
  ASSUME NEW b \in Block, NEW i \in Nat, NEW a, NEW z, BlockAt(b, a, z)
  PROVE  Tiled(BlockPayloads(b, i), a, z)
<1> DEFINE l == ImageLen(b.item)
           n == DataLen(b.item)
           image == IF b.has_image THEN Retained(b.bimg_range, <<"Fpi", i>>) ELSE <<>>
           data == IF b.has_data THEN Retained(b.data_range, <<"BlockData", i>>) ELSE <<>>
<1>1. l \in Nat /\ n \in Nat /\ a \in Nat /\ a + l \in Nat /\ z = (a + l) + n
  BY ItemTypes DEF Block, BlockAt, Item, DataLen
<1>2. <<"Fpi", i>> \in PartName /\ <<"BlockData", i>> \in PartName
  BY DEF PartName
<1>3. Tiled(image, a, a + l)
  <2>1. CASE b.has_image
    BY <1>1, <1>2, <2>1, RetainedTiles DEF BlockAt
  <2>2. CASE ~b.has_image
    <3>1. image = <<>> /\ l = 0
      BY <2>2 DEF BlockAt, ImageLen
    <3> HIDE DEF l, image
    <3>2. a + l = a /\ a \in Nat
      BY <1>1, <3>1
    <3> QED BY <3>1, <3>2, TiledEmpty
  <2> QED BY <2>1, <2>2
<1>4. Tiled(data, a + l, z)
  <2>1. CASE b.has_data
    <3>1. b.data_range = Span(a + l, (a + l) + n)
      BY <1>1, <2>1 DEF BlockAt
    <3> QED BY <1>1, <1>2, <2>1, <3>1, RetainedTiles
  <2>2. CASE ~b.has_data
    <3>1. data = <<>> /\ n = 0
      BY <2>2 DEF BlockAt, DataLen
    <3> HIDE DEF l, n, data
    <3>2. z = a + l /\ a + l \in Nat
      BY <1>1, <3>1
    <3> QED BY <3>1, <3>2, TiledEmpty
  <2> QED BY <2>1, <2>2
<1> HIDE DEF image, data
<1>5. Tiled(image \o data, a, z)
  BY <1>3, <1>4, TiledJoin
<1> QED BY <1>5 DEF image, data, BlockPayloads

(***************************************************************************)
(* The second pass: the first payload begins behind the record's header at *)
(* the earliest, the payloads of a block where those of the block before   *)
(* it end, and the main data are the rest.                                 *)
(***************************************************************************)
PlacedAt(f) ==
  /\ f[0] \in Nat /\ SIZE_OF_XLOG_RECORD <= f[0]
  /\ \A k \in 1 .. placed : BlockAt(blocks[k], f[k - 1], f[k])
  /\ pc = "payloads" => pos = f[placed]
  /\ pc = "decoded" => IF has_main THEN main_range = Span(f[placed], len) /\ f[placed] <= len
                                   ELSE f[placed] = len

Placed ==
  /\ SIZE_OF_XLOG_RECORD <= pos
  /\ \A k \in 1 .. Len(blocks) : /\ blocks[k].has_image = blocks[k].item.has_image
                                 /\ blocks[k].has_data = blocks[k].item.has_data
  /\ pc = "decoded" => placed = Len(blocks)
  /\ pc \in {"payloads", "decoded"} => \E f : PlacedAt(f)

LEMMA InitPlaced == Init => Placed
<1>1. Len(<<>>) = 0
  BY EmptySeq
<1> QED BY <1>1, DecodeAssumption DEF Init, Placed

LEMMA RangesAreSet ==
  ASSUME NEW b \in Block, NEW a \in Nat
  PROVE  LET c == WithRanges(b, a) IN
         /\ c \in Block
         /\ c.item = b.item /\ c.has_image = b.has_image /\ c.has_data = b.has_data
<1> DEFINE l == ImageLen(b.item)
           n == b.item.data_len
           image == IF b.item.has_image THEN Span(a, a + l) ELSE b.bimg_range
           data == IF b.item.has_data THEN Span(a + l, (a + l) + n) ELSE b.data_range
<1>1. l \in Nat /\ n \in Nat
  BY ItemTypes DEF Block, Item
<1>2. WithRanges(b, a) = [b EXCEPT !.bimg_range = image, !.data_range = data]
  BY DEF WithRanges, Block
<1>3. image \in [start : Nat, end : Nat] /\ data \in [start : Nat, end : Nat]
  BY <1>1 DEF Span, Block
<1> HIDE DEF image, data
<1> QED BY <1>2, <1>3 DEF Block

LEMMA PlaceBlockPlaced ==
  ASSUME DecodeInv, Placed, PlaceBlock
  PROVE  Placed'
<1> DEFINE old == blocks[placed + 1]
           b == WithRanges(old, pos)
<1>1. /\ placed + 1 \in 1 .. Len(blocks) /\ placed \in Nat /\ Len(blocks) \in Nat
      /\ pos \in Nat /\ blocks \in Seq(Block)
  BY DEF DecodeInv, TypeOK, PlaceBlock
<1>2. PICK f : PlacedAt(f)
  BY DEF Placed, PlaceBlock
<1>3. pos = f[placed] /\ old \in Block /\ old.item \in Item /\ old.item.kind = "block"
  <2>1. old \in Block
    BY <1>1
  <2> QED BY <1>1, <1>2, <2>1 DEF PlacedAt, PlaceBlock, Block, DecodeInv, DecodeState
<1>4. /\ ImageLen(old.item) \in Nat /\ DataLen(old.item) \in Nat
      /\ old.item.has_data => DataLen(old.item) = old.item.data_len
      /\ old.has_image = old.item.has_image /\ old.has_data = old.item.has_data
  BY <1>1, <1>3, ItemTypes DEF DataLen, Item, Placed
<1>5. /\ pos' = pos + ImageLen(old.item) + DataLen(old.item) /\ placed' = placed + 1
      /\ pc = "payloads" /\ pc' = "payloads"
      /\ blocks' = [blocks EXCEPT ![placed + 1] = b]
  BY DEF PlaceBlock
<1>6. b.item = old.item /\ b.has_image = old.has_image /\ b.has_data = old.has_data
  BY <1>1, <1>3, RangesAreSet
<1>7. BlockAt(b, pos, pos')
  <2>1. b.has_image => b.bimg_range = Span(pos, pos + ImageLen(old.item))
    BY <1>3, <1>4, <1>6 DEF WithRanges, Block
  <2>2. b.has_data => b.data_range = Span(pos + ImageLen(old.item),
                                          pos + ImageLen(old.item) + DataLen(old.item))
    BY <1>3, <1>4, <1>6 DEF WithRanges, Block
  <2> HIDE DEF b, old
  <2> QED BY <1>1, <1>4, <1>5, <1>6, <2>1, <2>2 DEF BlockAt
<1> HIDE DEF b
<1>8. /\ Len(blocks') = Len(blocks)
      /\ \A k \in 1 .. Len(blocks) : blocks'[k] = IF k = placed + 1 THEN b ELSE blocks[k]
  <2>1. b \in Block
    BY <1>1, <1>3, RangesAreSet DEF b
  <2> QED BY <1>1, <1>5, <2>1, ExceptSeq
<1>0. PICK g : g = [k \in 0 .. placed + 1 |-> IF k = placed + 1 THEN pos' ELSE f[k]]
  OBVIOUS
<1>9. /\ g[0] = f[0] /\ g[placed + 1] = pos'
      /\ \A k \in 0 .. placed : g[k] = f[k]
  BY <1>0, <1>1
<1>10. \A k \in 1 .. placed + 1 : BlockAt(blocks'[k], g[k - 1], g[k])
  <2> TAKE k \in 1 .. placed + 1
  <2>1. CASE k = placed + 1
    <3>1. k - 1 = placed /\ placed \in 0 .. placed
      BY <1>1, <2>1
    <3> QED BY <1>1, <1>3, <1>7, <1>8, <1>9, <2>1, <3>1
  <2>2. CASE k # placed + 1
    <3>1. k \in 1 .. placed /\ k \in 0 .. placed /\ k - 1 \in 0 .. placed /\ k \in 1 .. Len(blocks)
      BY <1>1, <2>2
    <3>2. BlockAt(blocks[k], f[k - 1], f[k])
      BY <1>2, <3>1 DEF PlacedAt
    <3> QED BY <1>8, <1>9, <2>2, <3>1, <3>2
  <2> QED BY <2>1, <2>2
<1>11. PlacedAt(g)'
  <2>1. g[0] \in Nat /\ SIZE_OF_XLOG_RECORD <= g[0]
    BY <1>2, <1>9 DEF PlacedAt
  <2> QED BY <1>5, <1>9, <1>10, <2>1 DEF PlacedAt
<1>12. SIZE_OF_XLOG_RECORD <= pos'
  BY <1>1, <1>4, <1>5, DecodeAssumption DEF Placed
<1>13. \A k \in 1 .. Len(blocks') : /\ blocks'[k].has_image = blocks'[k].item.has_image
                                    /\ blocks'[k].has_data = blocks'[k].item.has_data
  BY <1>4, <1>6, <1>8 DEF Placed
<1> QED BY <1>5, <1>11, <1>12, <1>13 DEF Placed

LEMMA NextPlaced ==
  ASSUME DecodeInv, Placed, [Next]_vars
  PROVE  Placed'
<1>1. /\ pos \in Nat /\ SIZE_OF_XLOG_RECORD \in Nat /\ Len(blocks) \in Nat
      /\ blocks \in Seq(Block) /\ placed \in 0 .. Len(blocks) /\ TypeOK
  BY DecodeAssumption DEF DecodeInv, TypeOK
<1>2. CASE ReadBlock
  <2>1. PICK d \in NextItems :
          /\ pos' = pos + DescriptorSize(d)
          /\ blocks' = Append(blocks, [item |-> d, has_image |-> d.has_image,
                                       has_data |-> d.has_data,
                                       bimg_range |-> Span(0, 0), data_range |-> Span(0, 0)])
    BY <1>2 DEF ReadBlock, Consume
  <2> DEFINE b == [item |-> d, has_image |-> d.has_image, has_data |-> d.has_data,
                   bimg_range |-> Span(0, 0), data_range |-> Span(0, 0)]
  <2>2. d \in Item /\ DescriptorSize(d) \in Nat
    BY <1>1, NextItemTypes, ItemTypes
  <2>3. SIZE_OF_XLOG_RECORD <= pos'
    BY <1>1, <2>1, <2>2 DEF Placed
  <2>4. b \in Block /\ b.has_image = b.item.has_image /\ b.has_data = b.item.has_data
    BY <2>2 DEF Block, Span, Item
  <2> HIDE DEF b
  <2>5. /\ Len(blocks') = Len(blocks) + 1 /\ blocks'[Len(blocks) + 1] = b
        /\ \A k \in 1 .. Len(blocks) : blocks'[k] = blocks[k]
    BY <1>1, <2>1, <2>4, AppendProperties DEF b
  <2>6. \A k \in 1 .. Len(blocks') : k \in 1 .. Len(blocks) \/ k = Len(blocks) + 1
    BY <1>1, <2>5
  <2>7. pc' = "descriptors"
    BY <1>2 DEF ReadBlock
  <2> QED BY <2>3, <2>4, <2>5, <2>6, <2>7 DEF Placed
<1>3. CASE ReadOther \/ ReadMainHeader
  <2>1. PICK d \in NextItems : pos' = pos + DescriptorSize(d)
    BY <1>3 DEF ReadOther, ReadMainHeader, Consume
  <2>2. DescriptorSize(d) \in Nat
    BY <1>1, NextItemTypes, ItemTypes
  <2>3. SIZE_OF_XLOG_RECORD <= pos'
    BY <1>1, <2>1, <2>2 DEF Placed
  <2>4. blocks' = blocks /\ pc' \in {"descriptors", "check"}
    BY <1>3 DEF ReadOther, ReadMainHeader, result
  <2> QED BY <2>3, <2>4 DEF Placed
<1>4. CASE CheckLength
  <2>1. pc = "check" /\ UNCHANGED <<pos, blocks, placed>> /\ pc' \in {"payloads", "failed"}
    BY <1>4 DEF CheckLength, result
  <2>2. placed = 0
    BY <2>1 DEF DecodeInv, DecodeState
  <2>3. PlacedAt([k \in 0 .. 0 |-> pos])'
    BY <1>1, <2>1, <2>2 DEF PlacedAt, Placed
  <2> QED BY <2>1, <2>3 DEF Placed
<1>5. CASE PlaceMain
  <2>1. /\ pc = "payloads" /\ pc' = "decoded" /\ placed = Len(blocks)
        /\ UNCHANGED <<blocks, placed, len, has_main>>
    BY <1>5 DEF PlaceMain, input
  <2>2. PICK f : PlacedAt(f)
    BY <2>1 DEF Placed
  <2>3. pos + main_len = len /\ main_len \in Nat /\ len \in Nat
    BY <1>1, <2>1, NextPayloadFits DEF DecodeInv, TypeOK
  <2>4. /\ pos = f[placed]
        /\ pos' = IF has_main THEN pos + main_len ELSE pos
        /\ has_main => main_range' = Span(pos, pos + main_len)
        /\ ~has_main => main_len = 0
    BY <1>5, <2>1, <2>2 DEF PlaceMain, PlacedAt, DecodeInv, DecodeState
  <2>5. PlacedAt(f)'
    BY <1>1, <2>1, <2>2, <2>3, <2>4 DEF PlacedAt
  <2>6. SIZE_OF_XLOG_RECORD <= pos'
    BY <1>1, <2>3, <2>4 DEF Placed
  <2> QED BY <2>1, <2>5, <2>6 DEF Placed
<1>6. CASE DescriptorBad \/ DescriptorsEnd \/ UNCHANGED vars
  <2>1. /\ UNCHANGED <<pos, blocks>>
        /\ pc' \in {"failed", "check"} \/ UNCHANGED <<pc, placed, len, has_main, main_range>>
    BY <1>6 DEF DescriptorBad, DescriptorsEnd, vars, input, result
  <2> QED BY <2>1 DEF Placed, PlacedAt
<1> QED BY <1>2, <1>3, <1>4, <1>5, <1>6, PlaceBlockPlaced DEF Next

LEMMA PlacedTiles ==
  ASSUME DecodeInv, Placed, pc = "decoded"
  PROVE  LET parts == Parts(Decoded, SIZE_OF_XLOG_RECORD) IN
         parts # <<>> /\ Tiled(parts, 0, len)
<1> DEFINE n == Len(blocks)
           hdr == SIZE_OF_XLOG_RECORD
           ss == [i \in 1 .. n |-> BlockPayloads(blocks[i], i)]
           main == IF has_main THEN Retained(main_range, <<"MainData", 0>>) ELSE <<>>
           payloads == Payloads(Decoded)
<1>1. /\ n \in Nat /\ blocks \in Seq(Block) /\ len \in Nat /\ placed = n
      /\ hdr \in Nat /\ 0 < hdr
  BY DecodeAssumption DEF DecodeInv, TypeOK, Placed
<1>2. PICK f : PlacedAt(f)
  BY DEF Placed
<1>3. /\ \A k \in 1 .. n : BlockAt(blocks[k], f[k - 1], f[k])
      /\ f[0] \in Nat /\ hdr <= f[0]
      /\ has_main => main_range = Span(f[n], len) /\ f[n] <= len
      /\ ~has_main => f[n] = len
  BY <1>1, <1>2 DEF PlacedAt
<1>4. f[n] \in Nat
  <2>1. CASE n = 0
    BY <1>3, <2>1
  <2>2. CASE n # 0
    <3>0. n \in 1 .. n /\ BlockAt(blocks[n], f[n - 1], f[n]) /\ blocks[n] \in Block
      BY <1>1, <1>3, <2>2
    <3>1. BlockAt(blocks[n], f[n - 1], f[n]) /\ blocks[n].item \in Item
      BY <3>0 DEF Block
    <3>2. ImageLen(blocks[n].item) \in Nat /\ DataLen(blocks[n].item) \in Nat
      BY <3>1, ItemTypes DEF DataLen, Item
    <3> QED BY <3>1, <3>2 DEF BlockAt
  <2> QED BY <2>1, <2>2
<1>5. Tiled(FlattenSeq(ss), f[0], f[n])
  <2>1. Len(ss) = n /\ (n = 0 => ss = <<>>)
    BY <1>1
  <2>2. \A k \in 1 .. n : Tiled(ss[k], f[k - 1], f[k])
    BY <1>1, <1>3, BlockTiles
  <2> HIDE DEF ss
  <2> QED BY <1>1, <1>3, <2>1, <2>2, LeadsFlatten DEF Tiled
<1>6. Tiled(main, f[n], len)
  <2>1. CASE has_main
    <3>1. len - f[n] \in Nat /\ f[n] + (len - f[n]) = len
      BY <1>1, <1>3, <1>4, <2>1
    <3>2. <<"MainData", 0>> \in PartName
      BY DEF PartName
    <3>3. Tiled(Retained(Span(f[n], f[n] + (len - f[n])), <<"MainData", 0>>), f[n], f[n] + (len - f[n]))
      BY <1>4, <3>1, <3>2, RetainedTiles
    <3> QED BY <1>3, <2>1, <3>1, <3>3
  <2>2. CASE ~has_main
    BY <1>3, <1>4, <2>2, TiledEmpty
  <2> QED BY <2>1, <2>2
<1>7. payloads = FlattenSeq(ss) \o main
  BY DEF Payloads, Decoded
<1>8. Tiled(payloads, f[0], len)
  BY <1>5, <1>6, <1>7, TiledJoin
<1> HIDE DEF payloads, ss, main
<1> DEFINE ends == IF payloads # <<>> THEN payloads[1].range.start ELSE len
           head == <<[range |-> Span(0, hdr), part |-> <<"Header", 0>>]>>
           descs == IF ends > hdr THEN <<[range |-> Span(hdr, ends), part |-> <<"Descriptors", 0>>]>>
                                  ELSE <<>>
<1>9. ends = f[0]
  <2>1. PICK g : /\ g[0] = f[0] /\ g[Len(payloads)] = len
                 /\ \A k \in 1 .. Len(payloads) : payloads[k].range.start = g[k - 1]
    BY <1>8, TiledPlaces
  <2>2. payloads \in Seq(RangedPart) /\ Len(payloads) \in Nat
    BY <1>8, TiledPlaces
  <2>3. CASE payloads = <<>>
    <3>1. Len(payloads) = 0
      BY <2>3, EmptySeq
    <3> QED BY <2>1, <2>3, <3>1
  <2>4. CASE payloads # <<>>
    <3>1. 1 \in 1 .. Len(payloads) /\ 1 - 1 = 0
      BY <2>2, <2>4, EmptySeq
    <3> QED BY <2>1, <2>4, <3>1
  <2> QED BY <2>3, <2>4
<1> HIDE DEF ends
<1>10. Tiled(head, 0, hdr)
  <2>1. <<"Header", 0>> \in PartName
    BY DEF PartName
  <2> QED BY <1>1, <2>1, TiledOne
<1>11. Tiled(descs, hdr, ends)
  <2>1. CASE ends > hdr
    <3>1. <<"Descriptors", 0>> \in PartName /\ ends \in Nat /\ hdr < ends
      BY <1>1, <1>3, <1>9, <2>1 DEF PartName
    <3> QED BY <1>1, <2>1, <3>1, TiledOne
  <2>2. CASE ~(ends > hdr)
    <3>1. ends = hdr
      BY <1>1, <1>3, <1>9, <2>2
    <3> QED BY <1>1, <2>2, <3>1, TiledEmpty
  <2> QED BY <2>1, <2>2
<1> HIDE DEF head, descs
<1>12. Tiled(head \o descs, 0, ends)
  BY <1>10, <1>11, TiledJoin
<1>13. Tiled((head \o descs) \o payloads, 0, len)
  BY <1>8, <1>9, <1>12, TiledJoin
<1>14. Parts(Decoded, hdr) = (head \o descs) \o payloads
  BY DEF Parts, Decoded, payloads, ends, head, descs
<1>15. Parts(Decoded, hdr) # <<>>
  <2>1. /\ head \in Seq(RangedPart) /\ descs \in Seq(RangedPart) /\ payloads \in Seq(RangedPart)
    BY <1>8, <1>10, <1>11, TiledPlaces
  <2>2. Len(head) = 1
    BY DEF head
  <2>3. Len((head \o descs) \o payloads) # 0
    BY <2>1, <2>2, ConcatProperties, LenProperties
  <2> QED BY <1>14, <2>3, EmptySeq
<1> QED BY <1>13, <1>14, <1>15

(***************************************************************************)
(* The parts of a decoded record tile it, for any number of blocks of any  *)
(* sizes: header, descriptors, and those payloads that are not empty.      *)
(***************************************************************************)
THEOREM PartsTileRecords == Spec => []PartsTile
<1>1. DecodeInv /\ Placed => PartsTile
  <2> SUFFICES ASSUME DecodeInv, Placed, pc = "decoded"
               PROVE  LET parts == Parts(Decoded, SIZE_OF_XLOG_RECORD) IN
                      /\ parts[1].range.start = 0 /\ parts[Len(parts)].range.end = len
                      /\ \A k \in 1 .. Len(parts) : Length(parts[k].range) > 0
                      /\ \A k \in 1 .. Len(parts) - 1 : parts[k].range.end = parts[k + 1].range.start
    BY DEF PartsTile
  <2> DEFINE parts == Parts(Decoded, SIZE_OF_XLOG_RECORD)
  <2>1. parts # <<>> /\ Tiled(parts, 0, len)
    BY PlacedTiles
  <2> HIDE DEF parts
  <2>2. parts \in Seq(RangedPart) /\ Len(parts) \in Nat
    BY <2>1, TiledPlaces
  <2>3. Len(parts) # 0
    BY <2>1, <2>2, EmptySeq
  <2>4. PICK g : /\ g[0] = 0 /\ g[Len(parts)] = len
                 /\ \A k \in 0 .. Len(parts) : g[k] \in Nat
                 /\ \A k \in 1 .. Len(parts) : /\ parts[k].range.start = g[k - 1]
                                               /\ parts[k].range.end = g[k] /\ g[k - 1] < g[k]
    BY <2>1, TiledPlaces
  <2>5. parts[1].range.start = 0 /\ parts[Len(parts)].range.end = len
    <3>1. 1 \in 1 .. Len(parts) /\ Len(parts) \in 1 .. Len(parts) /\ 1 - 1 = 0
      BY <2>2, <2>3
    <3> QED BY <2>4, <3>1
  <2>6. \A k \in 1 .. Len(parts) : Length(parts[k].range) > 0
    <3> TAKE k \in 1 .. Len(parts)
    <3>1. k \in 0 .. Len(parts) /\ k - 1 \in 0 .. Len(parts)
      BY <2>2
    <3>2. Length(parts[k].range) = g[k] - g[k - 1] /\ g[k - 1] < g[k]
      BY <2>4 DEF Length
    <3> QED BY SMTT(30), <2>4, <3>1, <3>2
  <2>7. \A k \in 1 .. Len(parts) - 1 : parts[k].range.end = parts[k + 1].range.start
    <3> TAKE k \in 1 .. Len(parts) - 1
    <3>1. k \in 1 .. Len(parts) /\ k + 1 \in 1 .. Len(parts) /\ (k + 1) - 1 = k
      BY <2>2
    <3> QED BY <2>4, <3>1
  <2> QED BY <2>5, <2>6, <2>7 DEF parts
<1>2. DecodeInv /\ Placed /\ [Next]_vars => Placed'
  BY NextPlaced
<1> QED BY <1>1, <1>2, InitPlaced, DecodeInvariant, PTL DEF Spec

-----------------------------------------------------------------------------
(* Page breaks in a record.                                                *)

LEMMA DivStep ==
  ASSUME NEW x \in Nat, NEW r \in Nat \ {0}
  PROVE  /\ x \div r \in Nat
         /\ x \div r <= (x + 1) \div r /\ (x + 1) \div r <= (x \div r) + 1
<1> DEFINE q == x \div r
           m == x % r
<1>1. q \in Nat /\ m \in 0 .. r - 1 /\ x = q * r + m
  OBVIOUS
<1> HIDE DEF q, m
<1>2. \A p \in Nat : \A k \in 0 .. r - 1 : (p * r + k) \div r = p
  OBVIOUS
<1>3. CASE m # r - 1
  <2>1. m + 1 \in 0 .. r - 1 /\ x + 1 = q * r + (m + 1)
    BY <1>1, <1>3
  <2>2. (x + 1) \div r = q
    BY <1>1, <1>2, <2>1
  <2> QED BY <1>1, <2>2 DEF q
<1>4. CASE m = r - 1
  <2>1. x + 1 = (q + 1) * r + 0 /\ q + 1 \in Nat /\ 0 \in 0 .. r - 1
    BY <1>1, <1>4
  <2>2. (x + 1) \div r = q + 1
    BY <1>2, <2>1
  <2> QED BY <1>1, <2>2 DEF q
<1> QED BY <1>3, <1>4

LEMMA BreakStep ==
  ASSUME NEW s, IsSplit(s), NEW i \in Nat
  PROVE  /\ Break(s, i) \in Nat
         /\ Break(s, i) <= Break(s, i + 1) /\ Break(s, i + 1) <= Break(s, i) + 1
<1>1. s.first \in Nat \ {0} /\ s.room \in Nat \ {0}
  BY DEF IsSplit
<1>2. CASE i + 1 < s.first
  BY <1>1, <1>2 DEF Break
<1>3. CASE i + 1 = s.first
  <2>1. (i + 1) - s.first = 0 /\ 0 \div s.room = 0 /\ i < s.first /\ ~(i + 1 < s.first)
    BY <1>1, <1>3
  <2>2. Break(s, i) = 0 /\ Break(s, i + 1) = 1
    BY <2>1 DEF Break
  <2> QED BY <2>2
<1>4. CASE i >= s.first
  <2> DEFINE x == i - s.first
  <2>1. x \in Nat /\ (i + 1) - s.first = x + 1 /\ ~(i < s.first) /\ ~(i + 1 < s.first)
    BY <1>1, <1>4
  <2>2. Break(s, i) = 1 + (x \div s.room) /\ Break(s, i + 1) = 1 + ((x + 1) \div s.room)
    BY <2>1 DEF Break
  <2> HIDE DEF x
  <2>3. /\ x \div s.room \in Nat /\ (x + 1) \div s.room <= (x \div s.room) + 1
        /\ x \div s.room <= (x + 1) \div s.room
    BY <1>1, <2>1, DivStep
  <2>4. (x + 1) \div s.room \in Int
    BY <1>1, <2>1
  <2> QED BY <2>2, <2>3, <2>4
<1> QED BY <1>1, <1>2, <1>3, <1>4

LEMMA BreakGrows ==
  ASSUME NEW s, IsSplit(s), NEW j \in Nat, NEW i \in 0 .. j
  PROVE  Break(s, i) <= Break(s, j)
<1> DEFINE T == {m \in 0 .. j : \A k \in 0 .. m : Break(s, k) <= Break(s, m)}
<1>1. 0 \in T
  <2>1. Break(s, 0) \in Nat /\ \A k \in 0 .. 0 : k = 0
    BY BreakStep
  <2> QED BY <2>1
<1>2. ASSUME NEW m \in 0 .. j - 1, m \in T PROVE m + 1 \in T
  <2> SUFFICES ASSUME NEW k \in 0 .. m + 1 PROVE Break(s, k) <= Break(s, m + 1)
    OBVIOUS
  <2>1. /\ Break(s, m) \in Nat /\ Break(s, m + 1) \in Nat /\ Break(s, k) \in Nat
        /\ Break(s, m) <= Break(s, m + 1)
    BY BreakStep
  <2>2. CASE k = m + 1
    BY <2>1, <2>2
  <2>3. CASE k # m + 1
    <3>1. k \in 0 .. m
      BY <2>3
    <3>2. Break(s, k) <= Break(s, m)
      BY <1>2, <3>1
    <3> QED BY <2>1, <3>2
  <2> QED BY <2>2, <2>3
<1> HIDE DEF T
<1>3. j \in T
  BY <1>1, <1>2, UpTo
<1> QED BY <1>3 DEF T

\* A byte that comes later in the record does so in the file.
LEMMA InFileGrows ==
  ASSUME NEW s, IsSplit(s), NEW i \in Nat, NEW j \in Nat, i < j
  PROVE  InFile(s, i) \in Nat /\ InFile(s, j) \in Nat /\ InFile(s, i) < InFile(s, j)
<1> DEFINE a == Break(s, i)
           b == Break(s, j)
<1>1. s.base \in Nat /\ s.gap \in Nat
  BY DEF IsSplit
<1>2. a \in Nat /\ b \in Nat /\ a <= b
  <2>1. i \in 0 .. j
    OBVIOUS
  <2> QED BY <2>1, BreakStep, BreakGrows
<1>3. InFile(s, i) = s.base + i + a * s.gap /\ InFile(s, j) = s.base + j + b * s.gap
  BY DEF InFile
<1> HIDE DEF a, b
<1>4. \A x, y, g \in Nat : x <= y => x * g \in Nat /\ y * g \in Nat /\ x * g <= y * g
  <2> TAKE x, y, g \in Nat
  <2> HAVE x <= y
  <2>1. PICK d \in Nat : y = x + d
    <3>1. y - x \in Nat /\ y = x + (y - x)
      OBVIOUS
    <3> QED BY <3>1
  <2>2. y * g = x * g + d * g /\ d * g \in Nat /\ x * g \in Nat
    BY <2>1
  <2> QED BY <2>2
<1>5. a * s.gap \in Nat /\ b * s.gap \in Nat /\ a * s.gap <= b * s.gap
  BY <1>1, <1>2, <1>4
<1> QED BY <1>1, <1>3, <1>5

\* Every page on the way has a byte of the record.
LEMMA PageHasByte ==
  ASSUME NEW s, IsSplit(s), NEW n \in Nat, NEW k \in 0 .. Break(s, n)
  PROVE  \E i \in 0 .. n : Break(s, i) = k
<1> DEFINE T == {i \in 0 .. n : k <= Break(s, i)}
<1>1. \A i \in Nat : Break(s, i) \in Nat
  BY BreakStep
<1>2. n \in T /\ T \subseteq Nat
  BY <1>1
<1>3. PICK m \in T : \A i \in T : m <= i
  BY <1>2, Least
<1>4. CASE m = 0
  <2>1. Break(s, 0) = 0
    BY DEF IsSplit, Break
  <2> QED BY <1>3, <1>4, <2>1
<1>5. CASE m # 0
  <2>1. m - 1 \in 0 .. n /\ m - 1 \in Nat /\ (m - 1) + 1 = m /\ ~(m <= m - 1)
    BY <1>2, <1>3, <1>5
  <2>2. ~(k <= Break(s, m - 1))
    BY <1>3, <2>1
  <2>3. Break(s, m) <= Break(s, m - 1) + 1 /\ Break(s, m - 1) \in Nat /\ Break(s, m) \in Nat
    BY <1>1, <2>1, BreakStep
  <2> QED BY <1>3, <2>2, <2>3
<1> QED BY <1>4, <1>5

(***************************************************************************)
(* The bytes of a record from x on and before y are on one page, and       *)
(* there, in a row, in r.                                                  *)
(***************************************************************************)
RangeAt(s, r, x, y) ==
  /\ x < y /\ y <= len
  /\ r = Span(InFile(s, x), InFile(s, x) + (y - x))
  /\ \A i \in x .. y - 1 : InFile(s, i) = InFile(s, x) + (i - x)

\* g[k] is where the k-th page that the record is on ends in the record.
PagesAt(g, s) ==
  /\ Len(FileRanges(s)) \in Nat
  /\ g \in [0 .. Len(FileRanges(s)) -> Nat] /\ g[0] = 0 /\ g[Len(FileRanges(s))] = len
  /\ \A k \in 1 .. Len(FileRanges(s)) : RangeAt(s, FileRanges(s)[k], g[k - 1], g[k])

LEMMA PagesExist ==
  ASSUME NEW s, IsSplit(s), len \in Nat \ {0}
  PROVE  \E g : PagesAt(g, s)
<1> DEFINE K == Break(s, len - 1) + 1
           ends(k) == {i \in 0 .. len : i = len \/ k <= Break(s, i)}
           g == [k \in 0 .. K |-> CHOOSE i \in ends(k) : \A j \in ends(k) : i <= j]
<1>1. len - 1 \in Nat /\ \A i \in Nat : Break(s, i) \in Nat
  BY BreakStep
<1>2. K \in Nat
  BY <1>1
<1>3. Len(FileRanges(s)) = K
  <2>1. FileRanges(s) = [k \in 1 .. K |-> FileRanges(s)[k]]
    BY DEF FileRanges
  <2> HIDE DEF K
  <2> QED BY <1>2, <2>1
<1>4. \A k \in 0 .. K : g[k] \in ends(k) /\ \A j \in ends(k) : g[k] <= j
  <2> TAKE k \in 0 .. K
  <2>1. ends(k) \subseteq Nat /\ len \in ends(k)
    OBVIOUS
  <2> HIDE DEF ends
  <2>2. \E i \in ends(k) : \A j \in ends(k) : i <= j
    BY <2>1, Least
  <2> HIDE DEF K
  <2> QED BY <2>2
<1> HIDE DEF g
<1>5. \A k \in 0 .. K : g[k] \in 0 .. len
  BY <1>4
<1>6. \A k \in 0 .. K : \A i \in 0 .. len - 1 : i < g[k] <=> Break(s, i) < k
  <2> TAKE k \in 0 .. K
  <2> TAKE i \in 0 .. len - 1
  <2>1. g[k] \in 0 .. len /\ Break(s, i) \in Nat /\ k \in Nat
    BY <1>1, <1>2, <1>5
  <2>2. ASSUME k <= Break(s, i) PROVE g[k] <= i
    <3>1. i \in ends(k)
      BY <2>2
    <3> QED BY <1>4, <3>1
  <2>3. ASSUME g[k] <= i PROVE k <= Break(s, i)
    <3>1. g[k] # len /\ g[k] \in 0 .. i /\ i \in Nat
      BY <2>1, <2>3
    <3>2. k <= Break(s, g[k])
      BY <1>4, <3>1
    <3>3. Break(s, g[k]) <= Break(s, i) /\ Break(s, g[k]) \in Nat
      BY <1>1, <2>1, <3>1, BreakGrows
    <3> QED BY <2>1, <3>2, <3>3
  <2> QED BY <2>1, <2>2, <2>3
<1>7. g \in [0 .. K -> Nat]
  <2>1. g = [k \in 0 .. K |-> g[k]]
    BY DEF g
  <2> HIDE DEF K
  <2> QED BY <1>5, <2>1
<1> HIDE DEF ends
<1>8. g[0] = 0
  <2>1. 0 \in 0 .. K /\ 0 \in 0 .. len - 1 /\ Break(s, 0) \in Nat
    BY <1>1, <1>2
  <2>2. ~(0 < g[0])
    BY <1>6, <2>1
  <2> QED BY <1>5, <2>1, <2>2
<1>9. g[K] = len
  <2>1. K \in 0 .. K /\ len - 1 \in 0 .. len - 1 /\ Break(s, len - 1) < K
    BY <1>1, <1>2
  <2>2. len - 1 < g[K]
    BY <1>6, <2>1
  <2> QED BY <1>5, <2>1, <2>2
<1>10. ASSUME NEW k \in 1 .. K PROVE RangeAt(s, FileRanges(s)[k], g[k - 1], g[k])
  <2> DEFINE mine == {i \in 0 .. len - 1 : Break(s, i) = k - 1}
             c == (k - 1) * s.gap
  <2>1. k \in 0 .. K /\ k - 1 \in 0 .. K /\ k - 1 \in 0 .. Break(s, len - 1) /\ k \in Nat
    BY <1>1, <1>2
  <2>2. /\ g[k] \in 0 .. len /\ g[k - 1] \in 0 .. len
        /\ g[k] \in Nat /\ g[k - 1] \in Nat
    BY <1>5, <2>1
  <2>3. \A i \in 0 .. len - 1 : Break(s, i) = k - 1 <=> g[k - 1] <= i /\ i < g[k]
    <3> TAKE i \in 0 .. len - 1
    <3>1. i < g[k] <=> Break(s, i) < k
      BY <1>6, <2>1
    <3>2. i < g[k - 1] <=> Break(s, i) < k - 1
      BY <1>6, <2>1
    <3>3. Break(s, i) \in Nat
      BY <1>1
    <3> QED BY <2>1, <2>2, <3>1, <3>2, <3>3
  <2>4. g[k - 1] < g[k]
    <3>1. PICK i \in 0 .. len - 1 : Break(s, i) = k - 1
      BY <1>1, <2>1, PageHasByte
    <3> QED BY <2>2, <2>3, <3>1
  <2>5. g[k - 1] \in mine /\ g[k] - 1 \in mine
    <3>1. g[k - 1] \in 0 .. len - 1 /\ g[k] - 1 \in 0 .. len - 1 /\ g[k - 1] <= g[k] - 1
      BY <2>2, <2>4
    <3> QED BY <2>2, <2>3, <2>4, <3>1
  <2>6. \A i \in mine : g[k - 1] <= i /\ i <= g[k] - 1 /\ i \in Nat
    BY <2>2, <2>3
  <2>7. FileRanges(s)[k] = LET first == CHOOSE i \in mine : \A j \in mine : i <= j
                              last  == CHOOSE i \in mine : \A j \in mine : i >= j
                          IN  Span(InFile(s, first), InFile(s, last) + 1)
    BY DEF FileRanges
  <2> HIDE DEF mine
  <2>8. (CHOOSE i \in mine : \A j \in mine : i <= j) = g[k - 1]
    <3> DEFINE x == CHOOSE i \in mine : \A j \in mine : i <= j
    <3>1. x \in mine /\ \A j \in mine : x <= j
      BY <2>5, <2>6
    <3> HIDE DEF x
    <3>2. x = g[k - 1]
      BY <2>2, <2>5, <2>6, <3>1
    <3> QED BY <3>2 DEF x
  <2>9. (CHOOSE i \in mine : \A j \in mine : i >= j) = g[k] - 1
    <3> DEFINE x == CHOOSE i \in mine : \A j \in mine : i >= j
    <3>0. \A j \in mine : g[k] - 1 >= j
      BY <2>2, <2>6
    <3>1. x \in mine /\ \A j \in mine : x >= j
      BY <2>5, <3>0
    <3> HIDE DEF x
    <3>2. x = g[k] - 1
      BY <2>2, <2>5, <2>6, <3>1
    <3> QED BY <3>2 DEF x
  <2>10. FileRanges(s)[k] = Span(InFile(s, g[k - 1]), InFile(s, g[k] - 1) + 1)
    BY <2>7, <2>8, <2>9
  <2>11. \A i \in mine : InFile(s, i) = s.base + i + c
    BY DEF InFile, mine
  <2>12. s.base \in Nat /\ c \in Int
    BY <2>1 DEF IsSplit
  <2> HIDE DEF c
  <2>13. \A i \in g[k - 1] .. g[k] - 1 : i \in mine
    BY <2>2, <2>3 DEF mine
  <2>14. \A i \in g[k - 1] .. g[k] - 1 : InFile(s, i) = InFile(s, g[k - 1]) + (i - g[k - 1])
    <3> TAKE i \in g[k - 1] .. g[k] - 1
    <3>1. InFile(s, i) = s.base + i + c /\ InFile(s, g[k - 1]) = s.base + g[k - 1] + c
      BY <2>5, <2>11, <2>13
    <3> QED BY <2>2, <2>12, <3>1
  <2>15. InFile(s, g[k] - 1) + 1 = InFile(s, g[k - 1]) + (g[k] - g[k - 1])
    <3>1. InFile(s, g[k] - 1) = s.base + (g[k] - 1) + c /\ InFile(s, g[k - 1]) = s.base + g[k - 1] + c
      BY <2>5, <2>11
    <3> QED BY <2>2, <2>12, <3>1
  <2> QED BY <2>2, <2>4, <2>10, <2>14, <2>15 DEF RangeAt
<1> QED BY <1>2, <1>3, <1>7, <1>8, <1>9, <1>10 DEF PagesAt

\* What Consumed defines by recursion.
IsConsumed(rs, n, c) ==
  c = [k \in 0 .. n |-> IF k = 0 THEN 0 ELSE c[k - 1] + Length(rs[k])]

LEMMA ConsumedExists ==
  ASSUME NEW rs, NEW n \in Nat
  PROVE  \E c : IsConsumed(rs, n, c)
<1> DEFINE T == {m \in Nat : \E c : IsConsumed(rs, m, c)}
<1>1. 0 \in T
  <2>1. IsConsumed(rs, 0, [k \in 0 .. 0 |-> 0])
    BY DEF IsConsumed
  <2> QED BY <2>1
<1>2. ASSUME NEW m \in 0 .. n - 1, m \in T PROVE m + 1 \in T
  <2>1. PICK c : IsConsumed(rs, m, c)
    BY <1>2
  <2> DEFINE h == [k \in 0 .. m + 1 |-> IF k = m + 1 THEN c[m] + Length(rs[m + 1]) ELSE c[k]]
  <2>2. IsConsumed(rs, m + 1, h)
    <3> SUFFICES ASSUME NEW k \in 0 .. m + 1
                 PROVE  h[k] = IF k = 0 THEN 0 ELSE h[k - 1] + Length(rs[k])
      BY DEF IsConsumed
    <3>1. CASE k = m + 1
      <4>1. k - 1 = m /\ m \in 0 .. m + 1 /\ m # m + 1 /\ k # 0
        BY <3>1
      <4> QED BY <3>1, <4>1
    <3>2. CASE k # m + 1
      <4>1. k \in 0 .. m /\ (k # 0 => k - 1 \in 0 .. m + 1 /\ k - 1 # m + 1)
        BY <3>2
      <4>2. c[k] = IF k = 0 THEN 0 ELSE c[k - 1] + Length(rs[k])
        BY <2>1, <4>1 DEF IsConsumed
      <4> QED BY <3>2, <4>1, <4>2
    <3> QED BY <3>1, <3>2
  <2> QED BY <2>2
<1> HIDE DEF T
<1>3. \A m \in 0 .. n : m \in T
  BY <1>1, <1>2, UpTo
<1> QED BY <1>3 DEF T

LEMMA ConsumedIsPage ==
  ASSUME NEW s, IsSplit(s), NEW g, PagesAt(g, s)
  PROVE  \A k \in 0 .. Len(FileRanges(s)) : Consumed(FileRanges(s))[k] = g[k]
<1> DEFINE rs == FileRanges(s)
           n == Len(rs)
           c == CHOOSE c : IsConsumed(rs, n, c)
<1>1. n \in Nat
  BY DEF PagesAt
<1>2. IsConsumed(rs, n, c)
  BY <1>1, ConsumedExists
<1>3. Consumed(rs) = c
  BY DEF Consumed, IsConsumed
<1>4. /\ g \in [0 .. n -> Nat] /\ g[0] = 0
      /\ \A k \in 1 .. n : RangeAt(s, rs[k], g[k - 1], g[k])
      /\ \A k \in 0 .. n : g[k] \in Nat
  BY DEF PagesAt
<1> HIDE DEF rs, n, c
<1> DEFINE T == {k \in 0 .. n : c[k] = g[k]}
<1>5. 0 \in T
  BY <1>1, <1>2, <1>4 DEF IsConsumed
<1>6. ASSUME NEW k \in 0 .. n - 1, k \in T PROVE k + 1 \in T
  <2>1. /\ k \in 0 .. n /\ k + 1 \in 0 .. n /\ k + 1 \in 1 .. n
        /\ (k + 1) - 1 = k /\ k + 1 # 0
    BY <1>1
  <2>2. c[k + 1] = c[k] + Length(rs[k + 1])
    BY <1>2, <2>1 DEF IsConsumed
  <2>3. RangeAt(s, rs[k + 1], g[k], g[k + 1]) /\ g[k] \in Nat /\ g[k + 1] \in Nat
    BY <1>4, <2>1
  <2>4. Length(rs[k + 1]) = (InFile(s, g[k]) + (g[k + 1] - g[k])) - InFile(s, g[k])
    BY <2>3 DEF RangeAt, Length, Span
  <2>5. InFile(s, g[k]) \in Nat
    <3>1. g[k] + 1 \in Nat /\ g[k] < g[k] + 1
      BY <2>3
    <3> QED BY <2>3, <3>1, InFileGrows
  <2> QED BY <1>6, <2>1, <2>2, <2>3, <2>4, <2>5
<1> HIDE DEF T
<1>7. \A k \in 0 .. n : k \in T
  BY <1>1, <1>5, <1>6, UpTo
<1>8. \A k \in 0 .. n : c[k] = g[k]
  BY <1>7 DEF T
<1> QED BY <1>3, <1>8 DEF rs, n, c

-----------------------------------------------------------------------------
(* The ranges of the file that a range of the record occupies.             *)

FileRange == [start : Nat, end : Nat]

\* The steps that ranges of the file make in the range p of the record.
FileSteps(s, p) ==
  {t \in FileRange \X Nat \X Nat :
     p.start <= t[2] /\ t[3] <= p.end /\ RangeAt(s, t[1], t[2], t[3])}

LEMMA PieceIsStep ==
  ASSUME NEW s, IsSplit(s), NEW p \in FileRange, p.start < p.end,
         NEW r, NEW b \in Nat, NEW e \in Nat, RangeAt(s, r, b, e), len \in Nat
  PROVE  LET Clamp(i) == IF i <= p.start THEN p.start ELSE IF i >= p.end THEN p.end ELSE i IN
         Leads(FileSteps(s, p), FileRange, Piece(r, b, p), Clamp(b), Clamp(e))
<1> DEFINE Clamp(i) == IF i <= p.start THEN p.start ELSE IF i >= p.end THEN p.end ELSE i
           x == IF p.start > b THEN p.start ELSE b
           y == IF p.end < e THEN p.end ELSE e
           f == InFile(s, b)
<1>1. p.start \in Nat /\ p.end \in Nat
  BY DEF FileRange
<1>2. /\ b < e /\ e <= len /\ r.start = f /\ r.end = f + (e - b)
      /\ \A i \in b .. e - 1 : InFile(s, i) = f + (i - b)
  BY DEF RangeAt, Span
<1>3. \A i \in Nat : InFile(s, i) \in Nat
  <2> TAKE i \in Nat
  <2>1. i + 1 \in Nat /\ i < i + 1
    OBVIOUS
  <2> QED BY <2>1, InFileGrows
<1>4. f \in Nat
  BY <1>3
<1> HIDE DEF f
<1>5. Length(r) = e - b /\ b + Length(r) = e
  BY <1>2, <1>4 DEF Length
<1>6. Piece(r, b, p) = IF x >= y THEN <<>> ELSE <<Span(f + (x - b), f + (y - b))>>
  BY <1>2, <1>5 DEF Piece
<1>7. CASE x >= y
  <2>1. Clamp(b) = Clamp(e) /\ Clamp(b) \in Nat
    BY <1>1, <1>2, <1>7
  <2> HIDE DEF Clamp, x, y
  <2>2. Leads(FileSteps(s, p), FileRange, Piece(r, b, p), Clamp(b), Clamp(e))
    BY <1>6, <1>7, <2>1, LeadsEmpty
  <2> QED BY <2>2 DEF Clamp
<1>8. CASE ~(x >= y)
  <2>1. /\ Clamp(b) = x /\ Clamp(e) = y /\ x \in Nat /\ y \in Nat /\ x < y
        /\ b <= x /\ y <= e /\ y <= len /\ p.start <= x /\ y <= p.end
    BY <1>1, <1>2, <1>8
  <2> HIDE DEF Clamp, x, y
  <2> DEFINE q == Span(f + (x - b), f + (y - b))
  <2>2. InFile(s, x) = f + (x - b)
    <3>1. x \in b .. e - 1
      BY <2>1
    <3> QED BY <1>2, <3>1
  <2>3. f + (x - b) \in Nat /\ f + (y - b) \in Nat /\ f + (y - b) = (f + (x - b)) + (y - x)
    BY <1>4, <2>1
  <2>4. q \in FileRange
    BY <2>3 DEF FileRange, Span
  <2>5. \A i \in x .. y - 1 : InFile(s, i) = InFile(s, x) + (i - x)
    <3> TAKE i \in x .. y - 1
    <3>1. i \in b .. e - 1
      BY <2>1
    <3>2. InFile(s, i) = f + (i - b)
      BY <1>2, <3>1
    <3> QED BY <1>4, <2>1, <2>2, <3>2
  <2>6. RangeAt(s, q, x, y)
    BY <2>1, <2>2, <2>3, <2>5 DEF RangeAt
  <2> HIDE DEF q
  <2>7. <<q, x, y>> \in FileSteps(s, p)
    BY <2>1, <2>4, <2>6 DEF FileSteps
  <2>8. Leads(FileSteps(s, p), FileRange, <<q>>, x, y)
    BY <2>1, <2>4, <2>7, LeadsOne
  <2>9. Piece(r, b, p) = <<q>>
    BY <1>6, <1>8 DEF q
  <2>10. Leads(FileSteps(s, p), FileRange, Piece(r, b, p), Clamp(b), Clamp(e))
    BY <2>1, <2>8, <2>9
  <2> QED BY <2>10 DEF Clamp
<1> QED BY <1>7, <1>8

LEMMA FileRangesLead ==
  ASSUME NEW s, IsSplit(s), len \in Nat \ {0},
         NEW p \in FileRange, p.start < p.end, p.end <= len
  PROVE  Leads(FileSteps(s, p), FileRange, FileRangesOf(FileRanges(s), p), p.start, p.end)
<1> DEFINE rs == FileRanges(s)
           n == Len(rs)
           Clamp(i) == IF i <= p.start THEN p.start ELSE IF i >= p.end THEN p.end ELSE i
<1>1. PICK g : PagesAt(g, s)
  BY PagesExist
<1>2. /\ n \in Nat /\ g[0] = 0 /\ g[n] = len
      /\ \A k \in 1 .. n : RangeAt(s, rs[k], g[k - 1], g[k])
      /\ \A k \in 0 .. n : g[k] \in Nat
  BY <1>1 DEF PagesAt
<1>3. \A k \in 0 .. n : Consumed(rs)[k] = g[k]
  BY <1>1, ConsumedIsPage
<1> DEFINE ss == [k \in 1 .. n |-> Piece(rs[k], Consumed(rs)[k - 1], p)]
           f == [k \in 0 .. n |-> Clamp(g[k])]
<1>4. FileRangesOf(rs, p) = FlattenSeq(ss)
  BY DEF FileRangesOf
<1> HIDE DEF rs, n
<1>5. Len(ss) = n /\ (n = 0 => ss = <<>>)
  BY <1>2
<1>6. f[0] = p.start /\ f[n] = p.end /\ p.start \in Nat
  <2>1. p.start \in Nat /\ p.end \in Nat /\ 0 \in 0 .. n /\ n \in 0 .. n
    BY <1>2 DEF FileRange
  <2>2. f[0] = Clamp(0) /\ f[n] = Clamp(len)
    BY <1>2, <2>1
  <2> HIDE DEF f
  <2> QED BY <2>1, <2>2
<1>7. \A k \in 1 .. n : Leads(FileSteps(s, p), FileRange, ss[k], f[k - 1], f[k])
  <2> TAKE k \in 1 .. n
  <2>1. k \in 0 .. n /\ k - 1 \in 0 .. n
    BY <1>2
  <2>2. RangeAt(s, rs[k], g[k - 1], g[k]) /\ g[k] \in Nat /\ g[k - 1] \in Nat
    BY <1>2, <2>1
  <2>3. ss[k] = Piece(rs[k], g[k - 1], p) /\ f[k - 1] = Clamp(g[k - 1]) /\ f[k] = Clamp(g[k])
    BY <1>3, <2>1
  <2> HIDE DEF ss, f
  <2>4. Leads(FileSteps(s, p), FileRange, Piece(rs[k], g[k - 1], p), Clamp(g[k - 1]), Clamp(g[k]))
    BY <2>2, PieceIsStep
  <2> QED BY <2>3, <2>4
<1> HIDE DEF ss, f
<1>8. Leads(FileSteps(s, p), FileRange, FlattenSeq(ss), f[0], f[n])
  BY <1>2, <1>5, <1>6, <1>7, LeadsFlatten
<1> QED BY <1>4, <1>6, <1>8 DEF rs

(***************************************************************************)
(* The steps of the overlay of a record with these parts: a range of the   *)
(* file is marked as the part that each of its bytes is of.                *)
(***************************************************************************)
PartOfByte(parts, i) == parts[CHOOSE k \in 1 .. Len(parts) : Within(parts[k].range, i)].part

OverlaySteps(s, parts) ==
  {t \in RangedPart \X Nat \X Nat :
     /\ RangeAt(s, t[1].range, t[2], t[3])
     /\ \A i \in t[2] .. t[3] - 1 : PartOfByte(parts, i) = t[1].part}

-----------------------------------------------------------------------------
(* The overlay.                                                            *)

\* A list that is in order of the places where its elements begin.
LEMMA ByStartKeeps ==
  ASSUME NEW S, NEW u \in Seq(S),
         \A j, k \in 1 .. Len(u) : /\ u[k].range.start \in Nat
                                   /\ j < k => u[j].range.start < u[k].range.start
  PROVE  ByStart(u) = u
<1> DEFINE n == Len(u)
           before(k) == {j \in 1 .. n : \/ u[j].range.start < u[k].range.start
                                        \/ u[j].range.start = u[k].range.start /\ j < k}
<1>1. n \in Nat /\ u = [i \in 1 .. n |-> u[i]]
  BY LenProperties
<1>2. ByStart(u) = [i \in 1 .. n |-> u[CHOOSE k \in 1 .. n : Cardinality(before(k)) = i - 1]]
  BY DEF ByStart
<1>3. \A k \in 1 .. n : before(k) = 1 .. k - 1
  <2> TAKE k \in 1 .. n
  <2>1. \A j \in 1 .. n : j \in before(k) <=> j < k
    <3> TAKE j \in 1 .. n
    <3>1. /\ u[j].range.start \in Nat /\ u[k].range.start \in Nat
          /\ j < k => u[j].range.start < u[k].range.start
          /\ k < j => u[k].range.start < u[j].range.start
      OBVIOUS
    <3>2. j < k \/ k < j \/ j = k
      BY <1>1
    <3> DEFINE x == u[j].range.start
               y == u[k].range.start
    <3>3. j \in before(k) <=> x < y \/ (x = y /\ j < k)
      OBVIOUS
    <3> HIDE DEF x, y, before
    <3>4. x \in Nat /\ y \in Nat /\ (j < k => x < y) /\ (k < j => y < x) /\ (j = k => x = y)
      BY <3>1 DEF x, y
    <3> QED BY <1>1, <3>2, <3>3, <3>4
  <2>2. before(k) \subseteq 1 .. n
    OBVIOUS
  <2> HIDE DEF before, n
  <2>3. \A j : j \in 1 .. k - 1 <=> j \in 1 .. n /\ j < k
    BY <1>1
  <2> QED BY <2>1, <2>2, <2>3
<1> HIDE DEF before
<1>4. \A k \in 1 .. n : Cardinality(before(k)) = k - 1
  <2> TAKE k \in 1 .. n
  <2>1. k - 1 \in Nat /\ Cardinality(1 .. k - 1) = (k - 1) - 1 + 1
    <3>1. k - 1 \in Int /\ 1 \in Int /\ k - 1 \in Nat
      BY <1>1
    <3>2. Cardinality(1 .. k - 1) = IF 1 > k - 1 THEN 0 ELSE (k - 1) - 1 + 1
      BY <3>1, FS_Interval
    <3> QED BY <3>1, <3>2
  <2> QED BY <1>1, <1>3, <2>1
<1>5. \A i \in 1 .. n : (CHOOSE k \in 1 .. n : Cardinality(before(k)) = i - 1) = i
  <2> TAKE i \in 1 .. n
  <2>1. \A k \in 1 .. n : k - 1 = i - 1 <=> k = i
    BY <1>1
  <2>2. \A k \in 1 .. n : Cardinality(before(k)) = i - 1 <=> k = i
    BY <1>4, <2>1
  <2> HIDE DEF n
  <2> QED BY <2>2
<1> HIDE DEF n
<1> QED BY <1>1, <1>2, <1>5

\* A byte is of one part.
LEMMA PartIsUnique ==
  ASSUME NEW parts, NEW z, Tiled(parts, 0, z), NEW k \in 1 .. Len(parts),
         NEW i \in Nat, Within(parts[k].range, i)
  PROVE  PartOfByte(parts, i) = parts[k].part
<1>1. Len(parts) \in Nat
  BY TiledPlaces
<1>2. PICK g :
        /\ g[0] = 0 /\ g[Len(parts)] = z
        /\ \A j \in 0 .. Len(parts) : g[j] \in Nat
        /\ \A j \in 1 .. Len(parts) : /\ parts[j].range.start = g[j - 1]
                                      /\ parts[j].range.end = g[j] /\ g[j - 1] < g[j]
        /\ \A m \in 0 .. Len(parts) : \A j \in 0 .. m : j < m => g[j] < g[m]
  BY TiledPlaces
<1>6. ASSUME NEW j \in 1 .. Len(parts), NEW m \in 1 .. Len(parts), j < m,
             Within(parts[j].range, i), Within(parts[m].range, i)
      PROVE  FALSE
  <2>1. j \in 0 .. m - 1 /\ m - 1 \in 0 .. Len(parts) /\ (j < m - 1 \/ j = m - 1)
    BY <1>1, <1>6
  <2>2. g[j] < g[m - 1] \/ j = m - 1
    BY <1>2, <2>1
  <2>3. i < g[j] /\ g[m - 1] <= i
    BY <1>2, <1>6 DEF Within
  <2>4. g[j] \in Nat /\ g[m - 1] \in Nat
    BY <1>1, <1>2, <2>1
  <2> QED BY <2>2, <2>3, <2>4
<1>7. \A j \in 1 .. Len(parts) : Within(parts[j].range, i) => j = k
  <2> TAKE j \in 1 .. Len(parts)
  <2> HAVE Within(parts[j].range, i)
  <2>1. j < k \/ k < j \/ j = k
    BY <1>1
  <2> QED BY <1>6, <2>1
<1>8. (CHOOSE j \in 1 .. Len(parts) : Within(parts[j].range, i)) = k
  BY <1>7
<1> QED BY <1>8 DEF PartOfByte

LEMMA MappedLeads ==
  ASSUME NEW s, IsSplit(s), len \in Nat \ {0}, NEW parts, Tiled(parts, 0, len),
         NEW k \in 1 .. Len(parts), parts[k].range.end <= len,
         parts[k].range.start < parts[k].range.end
  PROVE  Leads(OverlaySteps(s, parts), RangedPart, Mapped(FileRanges(s), parts[k]),
               parts[k].range.start, parts[k].range.end)
<1> DEFINE p == parts[k].range
           rs == FileRangesOf(FileRanges(s), p)
           m == Mapped(FileRanges(s), parts[k])
           n == Len(rs)
<1>1. parts[k] \in RangedPart
  BY TiledPlaces
<1>2. p \in FileRange /\ parts[k].part \in PartName
  BY <1>1 DEF RangedPart, FileRange
<1>3. Leads(FileSteps(s, p), FileRange, rs, p.start, p.end)
  BY <1>2, FileRangesLead
<1>4. rs \in Seq(FileRange) /\ n \in Nat
  BY <1>3, LenProperties DEF Leads
<1>5. PICK g : Along(FileSteps(s, p), rs, p.start, p.end, g)
  BY <1>3 DEF Leads
<1>6. m = [j \in 1 .. n |-> [range |-> rs[j], part |-> parts[k].part]]
  BY DEF Mapped
<1>7. \A i \in Nat : p.start <= i /\ i < p.end => PartOfByte(parts, i) = parts[k].part
  BY PartIsUnique DEF Within
<1> HIDE DEF p, rs, m, n
<1>8. \A j \in 1 .. n : rs[j] \in FileRange
  BY <1>4 DEF n
<1>9. /\ m \in Seq(RangedPart) /\ Len(m) = n
      /\ \A j \in 1 .. n : [range |-> rs[j], part |-> parts[k].part] \in RangedPart
  <2>1. \A j \in 1 .. n : [range |-> rs[j], part |-> parts[k].part] \in RangedPart
    BY <1>2, <1>8 DEF RangedPart, FileRange
  <2> QED BY <1>4, <1>6, <2>1
<1>10. /\ g \in [0 .. n -> Nat] /\ g[0] = p.start /\ g[n] = p.end
       /\ \A j \in 1 .. n : <<rs[j], g[j - 1], g[j]>> \in FileSteps(s, p)
  BY <1>5 DEF Along, n
<1>11. \A j \in 1 .. n : <<m[j], g[j - 1], g[j]>> \in OverlaySteps(s, parts)
  <2> TAKE j \in 1 .. n
  <2>0. m[j] = [range |-> rs[j], part |-> parts[k].part]
    BY <1>6
  <2>1. /\ m[j] \in RangedPart
        /\ m[j].range = rs[j] /\ m[j].part = parts[k].part
    BY <1>9, <2>0
  <2>2. /\ p.start <= g[j - 1] /\ g[j] <= p.end /\ RangeAt(s, rs[j], g[j - 1], g[j])
        /\ g[j - 1] \in Nat /\ g[j] \in Nat
    BY <1>10 DEF FileSteps
  <2>3. p.start \in Nat /\ p.end \in Nat
    BY <1>2 DEF FileRange
  <2>4. \A i \in g[j - 1] .. g[j] - 1 : PartOfByte(parts, i) = parts[k].part
    <3> TAKE i \in g[j - 1] .. g[j] - 1
    <3>1. i \in Nat /\ p.start <= i /\ i < p.end
      BY SMTT(30), <2>2, <2>3
    <3> QED BY <1>7, <3>1
  <2> QED BY <2>1, <2>2, <2>4 DEF OverlaySteps
<1>12. Along(OverlaySteps(s, parts), m, p.start, p.end, g)
  BY <1>9, <1>10, <1>11 DEF Along
<1>13. Leads(OverlaySteps(s, parts), RangedPart, m, p.start, p.end)
  BY <1>9, <1>12 DEF Leads
<1> QED BY <1>13 DEF m, p

\* The overlay leads through the record, in its order.
LEMMA OverlayLeads ==
  ASSUME NEW s, IsSplit(s), len \in Nat \ {0}, NEW rec, NEW hdr,
         Tiled(Parts(rec, hdr), 0, len)
  PROVE  Leads(OverlaySteps(s, Parts(rec, hdr)), RangedPart,
               Overlay(rec, FileRanges(s), hdr), 0, len)
<1> DEFINE parts == Parts(rec, hdr)
           n == Len(parts)
           ss == [k \in 1 .. n |-> Mapped(FileRanges(s), parts[k])]
           u == FlattenSeq(ss)
           T == OverlaySteps(s, parts)
<1>1. n \in Nat
  BY TiledPlaces
<1>2. PICK f : /\ f[0] = 0 /\ f[n] = len
               /\ \A k \in 0 .. n : f[k] \in Nat
               /\ \A k \in 1 .. n : /\ parts[k].range.start = f[k - 1]
                                    /\ parts[k].range.end = f[k] /\ f[k - 1] < f[k]
               /\ \A k \in 0 .. n : \A j \in 0 .. k : j < k => f[j] < f[k]
  BY TiledPlaces
<1>3. Overlay(rec, FileRanges(s), hdr) = ByStart(u)
  BY DEF Overlay
<1>4. Tiled(parts, 0, len)
  OBVIOUS
<1> HIDE DEF parts, n
<1>7. \A k \in 1 .. n : f[k] <= len
  <2> TAKE k \in 1 .. n
  <2>1. n \in 0 .. n /\ k \in 0 .. n /\ (k < n \/ k = n)
    BY <1>1
  <2>2. k < n => f[k] < f[n]
    BY <1>2, <2>1
  <2> QED BY <1>2, <2>1, <2>2
<1>8. \A k \in 1 .. n : Leads(T, RangedPart, ss[k], f[k - 1], f[k])
  <2> TAKE k \in 1 .. n
  <2>1. ss[k] = Mapped(FileRanges(s), parts[k])
    OBVIOUS
  <2> HIDE DEF ss
  <2> QED BY SMTT(30), <1>2, <1>4, <1>7, <2>1, MappedLeads DEF n
<1>9. Leads(T, RangedPart, u, 0, len)
  <2>1. Len(ss) = n /\ (n = 0 => ss = <<>>)
    BY <1>1
  <2> HIDE DEF ss, T, n
  <2>3. f[0] \in Nat
    BY <1>2
  <2>2. Leads(T, RangedPart, FlattenSeq(ss), f[0], f[n])
    BY <1>1, <1>8, <2>1, <2>3, LeadsFlatten
  <2> QED BY <1>2, <2>2
<1> HIDE DEF ss, u
<1>10. PICK g : Along(T, u, 0, len, g)
  BY <1>9 DEF Leads
<1>11. u \in Seq(RangedPart) /\ Len(u) \in Nat
  BY <1>9, LenProperties DEF Leads
<1>12. \A m \in 0 .. Len(u) : \A j \in 0 .. m : j < m => g[j] < g[m]
  <2>1. \A t \in T : t[2] < t[3]
    BY DEF OverlaySteps, RangeAt
  <2> QED BY <1>10, <1>11, <2>1, AlongGrows
<1>13. \A k \in 1 .. Len(u) : /\ u[k].range.start = InFile(s, g[k - 1])
                              /\ g[k - 1] \in Nat
  <2> TAKE k \in 1 .. Len(u)
  <2>1. <<u[k], g[k - 1], g[k]>> \in T
    BY <1>10 DEF Along
  <2> QED BY <2>1 DEF OverlaySteps, RangeAt, Span
<1>14. ByStart(u) = u
  <2>1. ASSUME NEW j \in 1 .. Len(u), NEW k \in 1 .. Len(u)
        PROVE  /\ u[k].range.start \in Nat
               /\ j < k => u[j].range.start < u[k].range.start
    <3>1. InFile(s, g[k - 1]) \in Nat
      <4>1. g[k - 1] \in Nat /\ g[k - 1] + 1 \in Nat /\ g[k - 1] < g[k - 1] + 1
        BY <1>13
      <4> QED BY <4>1, InFileGrows
    <3>2. ASSUME j < k PROVE InFile(s, g[j - 1]) < InFile(s, g[k - 1])
      <4>1. k - 1 \in 0 .. Len(u) /\ j - 1 \in 0 .. k - 1 /\ j - 1 < k - 1
        BY <1>11, <3>2
      <4>2. g[j - 1] < g[k - 1]
        BY <1>12, <4>1
      <4> QED BY <1>13, <4>2, InFileGrows
    <3> QED BY <1>13, <3>1, <3>2
  <2> QED BY <1>11, <2>1, ByStartKeeps
<1> QED BY <1>3, <1>9, <1>14 DEF T, parts

LEMMA MarksAreExact ==
  ASSUME NEW s, IsSplit(s), len \in Nat \ {0}, NEW parts, NEW u,
         Leads(OverlaySteps(s, parts), RangedPart, u, 0, len)
  PROVE  /\ \A i \in 0 .. len - 1 : part_at(u, InFile(s, i)) = PartOfByte(parts, i)
         /\ \A o \in Nat \ {InFile(s, i) : i \in 0 .. len - 1} : part_at(u, o) = NoPart
<1> DEFINE n == Len(u)
           hits(o) == {k \in 1 .. n : Within(u[k].range, o)}
<1>1. n \in Nat
  BY LenProperties DEF Leads
<1>2. PICK g : Along(OverlaySteps(s, parts), u, 0, len, g)
  BY DEF Leads
<1>3. \A k \in 1 .. n :
        /\ RangeAt(s, u[k].range, g[k - 1], g[k])
        /\ g[k - 1] \in Nat /\ g[k] \in Nat
        /\ \A i \in g[k - 1] .. g[k] - 1 : PartOfByte(parts, i) = u[k].part
  <2> TAKE k \in 1 .. n
  <2>1. <<u[k], g[k - 1], g[k]>> \in OverlaySteps(s, parts)
    BY <1>2 DEF Along
  <2> QED BY <2>1 DEF OverlaySteps
<1>4. \A i \in Nat : InFile(s, i) \in Nat
  <2> TAKE i \in Nat
  <2>1. i + 1 \in Nat /\ i < i + 1
    OBVIOUS
  <2> QED BY <2>1, InFileGrows
<1>5. ASSUME NEW o \in Nat, NEW k \in hits(o)
      PROVE  \E i \in 0 .. len - 1 : o = InFile(s, i) /\ u[k].part = PartOfByte(parts, i)
  <2> DEFINE x == g[k - 1]
             y == g[k]
             i == x + (o - InFile(s, x))
  <2>1. /\ k \in 1 .. n /\ u[k].range.start <= o /\ o < u[k].range.end
    BY DEF Within
  <2>0. /\ RangeAt(s, u[k].range, x, y) /\ x \in Nat /\ y \in Nat
        /\ \A j \in x .. y - 1 : PartOfByte(parts, j) = u[k].part
    BY <1>3, <2>1
  <2> HIDE DEF x, y
  <2>2. /\ x < y /\ y <= len
        /\ u[k].range.start = InFile(s, x) /\ u[k].range.end = InFile(s, x) + (y - x)
        /\ \A j \in x .. y - 1 : InFile(s, j) = InFile(s, x) + (j - x)
    BY <2>0 DEF RangeAt, Span
  <2>3. InFile(s, x) \in Nat
    BY <1>4, <2>0
  <2>4. i \in x .. y - 1 /\ i \in 0 .. len - 1 /\ InFile(s, x) + (i - x) = o
    BY SMTT(30), <2>0, <2>1, <2>2, <2>3
  <2> HIDE DEF i
  <2>5. o = InFile(s, i) /\ u[k].part = PartOfByte(parts, i)
    BY <2>0, <2>2, <2>4
  <2> QED BY <2>4, <2>5
<1>6. ASSUME NEW i \in 0 .. len - 1 PROVE hits(InFile(s, i)) # {}
  <2>0. len \in Nat /\ i \in Nat /\ 0 <= i /\ i < len
    OBVIOUS
  <2>1. PICK k \in 1 .. n : g[k - 1] <= i /\ i < g[k]
    <3>1. Len(u) \in Nat
      BY <1>1
    <3>2. \E k \in 1 .. Len(u) : g[k - 1] <= i /\ i < g[k]
      <4> DEFINE T == OverlaySteps(s, parts)
      <4>1. Along(T, u, 0, len, g)
        BY <1>2
      <4> HIDE DEF T, n, hits
      <4> QED BY <2>0, <3>1, <4>1, AlongCovers
    <3> QED BY <3>2 DEF n
  <2> DEFINE x == g[k - 1]
             y == g[k]
  <2>2. RangeAt(s, u[k].range, x, y) /\ x \in Nat /\ y \in Nat /\ x <= i /\ i < y
    BY <1>3, <2>1
  <2> HIDE DEF x, y
  <2>3. /\ u[k].range.start = InFile(s, x) /\ u[k].range.end = InFile(s, x) + (y - x)
        /\ \A j \in x .. y - 1 : InFile(s, j) = InFile(s, x) + (j - x)
    BY <2>2 DEF RangeAt, Span
  <2>4. i \in x .. y - 1
    BY <2>0, <2>2
  <2>5. InFile(s, i) = InFile(s, x) + (i - x) /\ InFile(s, x) \in Nat
    BY <1>4, <2>2, <2>3, <2>4
  <2>6. u[k].range.start <= InFile(s, i) /\ InFile(s, i) < u[k].range.end
    BY <2>0, <2>2, <2>3, <2>5
  <2> QED BY <2>1, <2>6 DEF Within
<1>7. \A o : part_at(u, o) = IF hits(o) = {} THEN NoPart
                             ELSE u[CHOOSE k \in hits(o) : \A j \in hits(o) : k <= j].part
  BY DEF part_at
<1>8. \A o : hits(o) \subseteq Nat
  BY <1>1
<1> HIDE DEF hits, n
<1>9. ASSUME NEW i \in 0 .. len - 1 PROVE part_at(u, InFile(s, i)) = PartOfByte(parts, i)
  <2> DEFINE o == InFile(s, i)
             k == CHOOSE k \in hits(o) : \A j \in hits(o) : k <= j
  <2>1. \E m \in hits(o) : \A j \in hits(o) : m <= j
    BY <1>6, <1>8, Least
  <2>2. k \in hits(o)
    BY <2>1
  <2>3. part_at(u, o) = u[k].part
    BY <1>6, <1>7
  <2>4. o \in Nat /\ i \in Nat
    BY <1>4
  <2> HIDE DEF k
  <2>5. PICK j \in 0 .. len - 1 : o = InFile(s, j) /\ u[k].part = PartOfByte(parts, j)
    BY <1>5, <2>2, <2>4
  <2>6. i = j
    <3>1. i \in Nat /\ j \in Nat /\ InFile(s, i) = InFile(s, j)
      BY <2>5
    <3>2. ~(i < j)
      <4>1. i < j => InFile(s, i) < InFile(s, j) /\ InFile(s, i) \in Nat
        BY <3>1, InFileGrows
      <4> QED BY <3>1, <4>1
    <3>3. ~(j < i)
      <4>1. j < i => InFile(s, j) < InFile(s, i) /\ InFile(s, i) \in Nat
        BY <3>1, InFileGrows
      <4> QED BY <3>1, <4>1
    <3> QED BY <3>1, <3>2, <3>3
  <2> QED BY <2>3, <2>5, <2>6
<1>10. ASSUME NEW o \in Nat, o \notin {InFile(s, i) : i \in 0 .. len - 1}
       PROVE  part_at(u, o) = NoPart
  <2>1. hits(o) = {}
    BY <1>5, <1>10
  <2> QED BY <1>7, <2>1
<1> QED BY <1>9, <1>10

(***************************************************************************)
(* The overlay is exact, for any number of blocks, parts of any sizes, and *)
(* pages of any sizes: each byte of the record in the file is marked as    *)
(* the part that it is of, and no other byte is marked.                    *)
(***************************************************************************)
THEOREM OverlayMarksExactly == Spec => []OverlayIsExact
<1>1. DecodeInv /\ Placed => OverlayIsExact
  <2> SUFFICES ASSUME DecodeInv, Placed, pc = "decoded", NEW s \in Splits
               PROVE  LET parts == Parts(Decoded, SIZE_OF_XLOG_RECORD)
                          overlay == Overlay(Decoded, FileRanges(s), SIZE_OF_XLOG_RECORD)
                      IN  /\ \A i \in 0 .. len - 1 :
                               part_at(overlay, InFile(s, i)) = PartOfByte(parts, i)
                          /\ \A o \in 0 .. InFile(s, len) \ {InFile(s, i) : i \in 0 .. len - 1} :
                               part_at(overlay, o) = NoPart
    BY DEF OverlayIsExact, PartOfByte
  <2> DEFINE parts == Parts(Decoded, SIZE_OF_XLOG_RECORD)
             overlay == Overlay(Decoded, FileRanges(s), SIZE_OF_XLOG_RECORD)
  <2>1. IsSplit(s) /\ Tiled(parts, 0, len)
    BY DecodeAssumption, PlacedTiles
  <2>2. len \in Nat \ {0}
    <3>1. pos \in 0 .. len /\ len \in Nat /\ SIZE_OF_XLOG_RECORD \in Nat \ {0} /\ SIZE_OF_XLOG_RECORD <= pos
      BY DecodeAssumption DEF DecodeInv, TypeOK, Placed
    <3> QED BY <3>1
  <2>3. Leads(OverlaySteps(s, parts), RangedPart, overlay, 0, len)
    BY <2>1, <2>2, OverlayLeads
  <2> HIDE DEF parts, overlay
  <2>4. /\ \A i \in 0 .. len - 1 : part_at(overlay, InFile(s, i)) = PartOfByte(parts, i)
        /\ \A o \in Nat \ {InFile(s, i) : i \in 0 .. len - 1} : part_at(overlay, o) = NoPart
    BY <2>1, <2>2, <2>3, MarksAreExact
  <2>5. \A o \in 0 .. InFile(s, len) : o \in Nat
    OBVIOUS
  <2> QED BY <2>4, <2>5 DEF parts, overlay
<1> QED BY <1>1, InitPlaced, NextPlaced, DecodeInvariant, PTL DEF Spec

-----------------------------------------------------------------------------
(* Records that a server has assembled.                                    *)

\* What AssembledLength defines by recursion, for the first n descriptors.
IsSum(w, n, g) ==
  g = [k \in 0 .. n |-> IF k = 0 THEN SIZE_OF_XLOG_RECORD
                        ELSE g[k - 1] + DescriptorSize(w[k]) + Announced(w[k])]

LEMMA SumExists ==
  ASSUME NEW w, NEW n \in Nat
  PROVE  \E g : IsSum(w, n, g)
<1> DEFINE T == {m \in Nat : \E g : IsSum(w, m, g)}
<1>1. 0 \in T
  <2>1. IsSum(w, 0, [k \in 0 .. 0 |-> SIZE_OF_XLOG_RECORD])
    BY DEF IsSum
  <2> QED BY <2>1
<1>2. ASSUME NEW m \in 0 .. n - 1, m \in T PROVE m + 1 \in T
  <2>1. PICK g : IsSum(w, m, g)
    BY <1>2
  <2> DEFINE Add(k) == DescriptorSize(w[k]) + Announced(w[k])
             h == [k \in 0 .. m + 1 |->
                     IF k = m + 1 THEN g[m] + DescriptorSize(w[k]) + Announced(w[k]) ELSE g[k]]
  <2>2. IsSum(w, m + 1, h)
    <3> SUFFICES ASSUME NEW k \in 0 .. m + 1
                 PROVE  h[k] = IF k = 0 THEN SIZE_OF_XLOG_RECORD
                               ELSE h[k - 1] + DescriptorSize(w[k]) + Announced(w[k])
      BY DEF IsSum
    <3>1. CASE k = m + 1
      <4>1. k # 0 /\ k - 1 = m /\ m \in 0 .. m + 1 /\ m # m + 1
        BY <3>1
      <4>2. h[k - 1] = g[m]
        BY <4>1
      <4> QED BY <3>1, <4>1, <4>2
    <3>2. CASE k \in 1 .. m
      <4>1. k \in 0 .. m /\ k # 0 /\ k # m + 1 /\ k - 1 \in 0 .. m + 1 /\ k - 1 # m + 1
        BY <3>2
      <4>2. h[k] = g[k] /\ h[k - 1] = g[k - 1]
        BY <4>1
      <4>3. g[k] = g[k - 1] + DescriptorSize(w[k]) + Announced(w[k])
        BY <2>1, <4>1 DEF IsSum
      <4> QED BY <4>1, <4>2, <4>3
    <3>3. CASE k = 0
      <4>1. 0 \in 0 .. m /\ 0 # m + 1
        OBVIOUS
      <4>2. g[0] = SIZE_OF_XLOG_RECORD
        BY <2>1, <4>1 DEF IsSum
      <4> QED BY <3>3, <4>1, <4>2
    <3> QED BY <3>1, <3>2, <3>3
  <2>3. m + 1 \in Nat
    OBVIOUS
  <2> QED BY <2>2, <2>3
<1> HIDE DEF T
<1>3. \A m \in 0 .. n : m \in T
  BY <1>1, <1>2, UpTo
<1> QED BY <1>3 DEF T

(***************************************************************************)
(* f[k] is how long a record of the first k descriptors would be.          *)
(***************************************************************************)
Sums(w, f) ==
  /\ f \in [0 .. Len(w) -> Nat]
  /\ f[0] = SIZE_OF_XLOG_RECORD /\ f[Len(w)] = AssembledLength(w)
  /\ \A k \in 1 .. Len(w) : f[k] = f[k - 1] + DescriptorSize(w[k]) + Announced(w[k])
  /\ \A j, k \in 0 .. Len(w) : j <= k => f[j] <= f[k]

LEMMA SumsOf ==
  ASSUME NEW w \in Seq(Item)
  PROVE  \E f : Sums(w, f)
<1> DEFINE n == Len(w)
           g == CHOOSE g : IsSum(w, n, g)
<1>1. n \in Nat
  BY LenProperties
<1>2. IsSum(w, n, g)
  BY <1>1, SumExists
<1>3. AssembledLength(w) = g[n]
  BY DEF AssembledLength, IsSum
<1> HIDE DEF g
<1>4. /\ \A k \in 0 .. n : g[k] = IF k = 0 THEN SIZE_OF_XLOG_RECORD
                                  ELSE g[k - 1] + DescriptorSize(w[k]) + Announced(w[k])
      /\ g = [k \in 0 .. n |-> g[k]]
  BY <1>2 DEF IsSum
<1>5. g[0] = SIZE_OF_XLOG_RECORD /\ g[0] \in Nat
  BY <1>1, <1>4, DecodeAssumption
<1>6. \A k \in 1 .. n : /\ g[k] = g[k - 1] + DescriptorSize(w[k]) + Announced(w[k])
                        /\ DescriptorSize(w[k]) \in Nat /\ Announced(w[k]) \in Nat
  <2> TAKE k \in 1 .. n
  <2>1. w[k] \in Item
    OBVIOUS
  <2>2. k \in 0 .. n /\ k # 0
    BY <1>1
  <2> QED BY <1>4, <2>1, <2>2, ItemTypes
<1> DEFINE T == {m \in 0 .. n : \A j \in 0 .. m : g[j] \in Nat /\ g[j] <= g[m]}
<1>7. \A m \in 0 .. n : m \in T
  <2>1. 0 \in T
    <3>1. 0 \in 0 .. n /\ \A j \in 0 .. 0 : j = 0
      BY <1>1
    <3> QED BY <1>5, <3>1
  <2>2. ASSUME NEW m \in 0 .. n - 1, m \in T PROVE m + 1 \in T
    <3>1. m + 1 \in 1 .. n /\ m + 1 \in 0 .. n /\ (m + 1) - 1 = m /\ m \in 0 .. m
      BY <1>1
    <3>2. g[m + 1] = g[m] + DescriptorSize(w[m + 1]) + Announced(w[m + 1])
      BY <1>6, <3>1
    <3>3. \A j \in 0 .. m : g[j] \in Nat /\ g[j] <= g[m]
      BY <2>2
    <3>4. g[m] \in Nat /\ g[m + 1] \in Nat /\ g[m] <= g[m + 1]
      BY <1>6, <3>1, <3>2, <3>3
    <3>5. ASSUME NEW j \in 0 .. m + 1 PROVE g[j] \in Nat /\ g[j] <= g[m + 1]
      <4>1. CASE j = m + 1
        BY <3>4, <4>1
      <4>2. CASE j \in 0 .. m
        BY <3>3, <3>4, <4>2
      <4> QED BY <4>1, <4>2
    <3> QED BY <3>1, <3>5
  <2> HIDE DEF T
  <2> QED BY <1>1, <2>1, <2>2, UpTo
<1>8. \A j, k \in 0 .. n : j <= k => g[j] \in Nat /\ g[j] <= g[k]
  <2> TAKE j, k \in 0 .. n
  <2>1. k \in T /\ (j <= k => j \in 0 .. k)
    BY <1>1, <1>7
  <2> QED BY <2>1
<1>9. g \in [0 .. n -> Nat]
  BY <1>1, <1>4, <1>8
<1> HIDE DEF T
<1> QED BY <1>3, <1>5, <1>6, <1>8, <1>9 DEF Sums

\* Where the first pass is in a record that was assembled.
Progress ==
  /\ pc # "failed" /\ read \in 0 .. Len(written)
  /\ pc # "descriptors" => read = Len(written)
  /\ pc \in {"descriptors", "check"} =>
       /\ \E f : Sums(written, f) /\ pos + datatotal = f[read]
       /\ \A k \in 1 .. read : written[k].kind = "block" => rlocator_set
       /\ max_block_id = -1 \/ \E k \in 1 .. read : /\ written[k].kind = "block"
                                                    /\ written[k].block_id = max_block_id

LEMMA WrittenType ==
  ASSUME TypeOK, written # <<>>
  PROVE  /\ written \in Seq(Item) /\ Len(written) \in Nat \ {0} /\ IsAssembled(written)
         /\ \A k \in 1 .. Len(written) : written[k] \in Item
<1>1. written \in Written
  BY DEF TypeOK
<1>2. written \in Seq(Items) /\ IsAssembled(written)
  BY <1>1, DecodeAssumption
<1>3. written \in Seq(Item)
  BY <1>2, DecodeAssumption
<1>4. Len(written) \in Nat \ {0}
  BY <1>3, LenProperties, EmptySeq
<1> QED BY <1>2, <1>3, <1>4

LEMMA SizePositive ==
  ASSUME NEW d \in Item
  PROVE  /\ DescriptorSize(d) \in Nat /\ DescriptorSize(d) > 0
         /\ d.kind = "block" => /\ 4 <= DescriptorSize(d)
                                /\ ImageHdr(d) \in Nat /\ 4 + ImageHdr(d) <= DescriptorSize(d)
<1>1. ImageHdr(d) \in Nat
  BY DEF ImageHdr
<1> QED BY <1>1 DEF Item, Kinds, DescriptorSize

\* The image of an assembled block passes.
LEMMA ImageIsAccepted ==
  ASSUME NEW d \in Item, IsImage(d)
  PROVE  ImageError(d) = "none"
BY DecodeAssumption DEF Item, IsImage, ImageError, hole_len

\* So does the next descriptor.
LEMMA NextIsRead ==
  ASSUME TypeOK, written # <<>>, len = AssembledLength(written), Progress,
         pc = "descriptors", MoreDescriptors, NEW f, Sums(written, f), pos + datatotal = f[read]
  PROVE  LET d == written[read + 1] IN
         /\ read + 1 \in 1 .. Len(written) /\ NextItems = {d} /\ d \in Item
         /\ d.kind # "invalid" /\ ItemError(d) = "none"
         /\ (pos + DescriptorSize(d)) + (datatotal + Announced(d)) = f[read + 1]
<1> DEFINE d == written[read + 1]
           n == Len(written)
<1>1. /\ n \in Nat \ {0} /\ IsAssembled(written)
      /\ \A k \in 1 .. n : written[k] \in Item
  BY WrittenType
<1>2. /\ read \in 0 .. n /\ pos \in 0 .. len /\ len \in Nat /\ datatotal \in Nat /\ pos \in Nat
      /\ f[n] = len
  BY DEF Progress, TypeOK, Sums
<1>3. remaining = len - pos /\ len - pos > datatotal
  BY <1>2 DEF MoreDescriptors, remaining
<1>4. read # n
  BY <1>2, <1>3
<1>5. read + 1 \in 1 .. n /\ (read + 1) - 1 = read /\ read < n /\ read + 1 \in 0 .. n /\ n \in 0 .. n
  BY <1>1, <1>2, <1>4
<1>6. d \in Item /\ NextItems = {d}
  BY <1>1, <1>5 DEF NextItems
<1>7. /\ DescriptorSize(d) \in Nat /\ Announced(d) \in Nat
      /\ f[read + 1] = f[read] + DescriptorSize(d) + Announced(d)
      /\ f[read + 1] <= f[n]
  BY SMTT(30), <1>1, <1>5, <1>6, ItemTypes DEF Sums
<1>8. /\ (pos + DescriptorSize(d)) + (datatotal + Announced(d)) = f[read + 1]
      /\ Fits(DescriptorSize(d))
  <2> HIDE DEF d, n
  <2> QED BY <1>2, <1>7 DEF Fits
<1>9. d.kind # "invalid"
  BY <1>1, <1>5 DEF IsAssembled
<1>10. CASE d.kind = "block"
  <2>1. /\ d.has_data <=> d.data_len > 0
        /\ d.has_image => IsImage(d)
        /\ d.same_rel => \E j \in 1 .. n : written[j].kind = "block" /\ j < read + 1
        /\ \A j \in 1 .. n : written[j].kind = "block" /\ j < read + 1
                               => written[j].block_id < d.block_id
    BY <1>1, <1>5, <1>10 DEF IsAssembled
  <2>2. \A j \in 1 .. n : j < read + 1 <=> j \in 1 .. read
    BY <1>2, <1>5
  <2>3. d.block_id > max_block_id
    <3>1. CASE max_block_id = -1
      BY <1>6, <3>1 DEF Item
    <3>2. CASE max_block_id # -1
      <4>1. PICK k \in 1 .. read : written[k].kind = "block" /\ written[k].block_id = max_block_id
        BY <3>2 DEF Progress
      <4>2. k \in 1 .. n
        BY <1>2, <1>5
      <4> QED BY <2>1, <2>2, <4>1, <4>2
    <3> QED BY <3>1, <3>2
  <2>4. d.same_rel => rlocator_set
    BY <2>1, <2>2 DEF Progress
  <2>5. Fits(4) /\ Fits(4 + ImageHdr(d))
    <3>1. /\ 4 <= DescriptorSize(d) /\ ImageHdr(d) \in Nat
          /\ 4 + ImageHdr(d) <= DescriptorSize(d)
      BY <1>6, <1>10, SizePositive
    <3>2. \A a, b \in Nat : Fits(b) /\ a <= b => Fits(a)
      BY <1>2 DEF Fits
    <3> HIDE DEF d
    <3> QED BY <1>7, <1>8, <3>1, <3>2
  <2>6. d.has_image => ImageError(d) = "none"
    BY <1>6, <2>1, ImageIsAccepted
  <2>7. ~(d.block_id <= max_block_id) /\ d.data_len \in Nat
    <3>1. d.block_id \in Nat /\ d.data_len \in Nat
      BY <1>6 DEF Item
    <3>2. max_block_id \in Int
      BY DEF TypeOK
    <3> HIDE DEF d
    <3> QED BY <2>3, <3>1, <3>2
  <2>8. BlockError(d) = "none"
    BY <1>8, <2>1, <2>4, <2>5, <2>6, <2>7 DEF BlockError
  <2> QED BY <1>5, <1>6, <1>8, <1>9, <1>10, <2>8 DEF ItemError
<1>11. CASE d.kind # "block"
  BY <1>5, <1>6, <1>8, <1>9, <1>11 DEF ItemError
<1> QED BY <1>10, <1>11

LEMMA NextProgress ==
  ASSUME TypeOK, written # <<>>, len = AssembledLength(written), Progress, [Next]_vars
  PROVE  Progress'
<1> DEFINE n == Len(written)
<1>1. /\ n \in Nat \ {0} /\ IsAssembled(written) /\ read \in 0 .. n
      /\ \A k \in 1 .. n : written[k] \in Item
  BY WrittenType DEF Progress
<1>2. written' = written
  BY DEF Next, vars, input, DescriptorBad, ReadBlock, ReadOther, ReadMainHeader,
         DescriptorsEnd, CheckLength, PlaceBlock, PlaceMain
<1>3. ASSUME pc = "descriptors", MoreDescriptors
      PROVE  LET d == written[read + 1] IN
             /\ read + 1 \in 1 .. n /\ NextItems = {d} /\ d \in Item
             /\ d.kind # "invalid" /\ ItemError(d) = "none"
             /\ \E f : /\ Sums(written, f)
                       /\ (pos + DescriptorSize(d)) + (datatotal + Announced(d)) = f[read + 1]
             /\ read < n
  <2>1. PICK f : Sums(written, f) /\ pos + datatotal = f[read]
    BY <1>3 DEF Progress
  <2>2. read + 1 \in 1 .. n => read < n
    BY <1>1
  <2> QED BY <1>3, <2>1, <2>2, NextIsRead
<1>4. CASE DescriptorBad
  BY <1>3, <1>4 DEF DescriptorBad
<1>5. CASE ReadBlock \/ ReadOther
  <2> DEFINE d == written[read + 1]
  <2>1. pc = "descriptors" /\ MoreDescriptors /\ pc' = "descriptors"
    BY <1>5 DEF ReadBlock, ReadOther
  <2>2. /\ read + 1 \in 1 .. n /\ NextItems = {d} /\ d \in Item /\ read < n
        /\ \E f : /\ Sums(written, f)
                  /\ (pos + DescriptorSize(d)) + (datatotal + Announced(d)) = f[read + 1]
    BY <1>3, <2>1
  <2>3. read' = read + 1 /\ pos' = pos + DescriptorSize(d)
    BY <1>5, <2>2 DEF ReadBlock, ReadOther, CountRead, Consume
  <2>4. datatotal' = datatotal + Announced(d)
    <3>1. CASE ReadBlock
      BY <2>2, <3>1 DEF ReadBlock
    <3>2. CASE ReadOther
      <4>1. d.kind \in {"origin", "top_xid"} /\ datatotal' = datatotal
        BY <2>2, <3>2 DEF ReadOther
      <4>2. Announced(d) = 0 /\ datatotal \in Nat
        BY <4>1 DEF Announced, is_main, TypeOK
      <4> QED BY <4>1, <4>2
    <3> QED BY <1>5, <3>1, <3>2
  <2>5. \E f : Sums(written, f) /\ pos' + datatotal' = f[read']
    BY <2>2, <2>3, <2>4
  <2>6. \A k \in 1 .. read' : k \in 1 .. read \/ k = read + 1
    BY <1>1, <2>3
  <2>7. \/ d.kind = "block" /\ rlocator_set' = TRUE /\ max_block_id' = d.block_id
        \/ d.kind # "block" /\ rlocator_set' = rlocator_set /\ max_block_id' = max_block_id
    BY <1>5, <2>2 DEF ReadBlock, ReadOther
  <2>8. read + 1 \in 1 .. read' /\ \A k \in 1 .. read : k \in 1 .. read'
    BY <1>1, <2>3
  <2>9. \A k \in 1 .. read' : written[k].kind = "block" => rlocator_set'
    BY <2>1, <2>6, <2>7 DEF Progress
  <2>10. max_block_id' = -1 \/ \E k \in 1 .. read' : /\ written[k].kind = "block"
                                                     /\ written[k].block_id = max_block_id'
    BY <2>1, <2>7, <2>8 DEF Progress
  <2>11. read' \in 0 .. n
    BY <1>1, <2>2, <2>3
  <2> QED BY <1>2, <2>1, <2>5, <2>9, <2>10, <2>11 DEF Progress
<1>6. CASE ReadMainHeader
  <2> DEFINE d == written[read + 1]
  <2>1. pc = "descriptors" /\ MoreDescriptors /\ pc' = "check"
    BY <1>6 DEF ReadMainHeader
  <2>2. /\ read + 1 \in 1 .. n /\ NextItems = {d} /\ read < n
        /\ \E f : /\ Sums(written, f)
                  /\ (pos + DescriptorSize(d)) + (datatotal + Announced(d)) = f[read + 1]
    BY <1>3, <2>1
  <2>3. /\ read' = read + 1 /\ pos' = pos + DescriptorSize(d) /\ is_main(d)
        /\ datatotal' = datatotal + Announced(d)
        /\ rlocator_set' = rlocator_set /\ max_block_id' = max_block_id
    BY <1>6, <2>2 DEF ReadMainHeader, CountRead, Consume
  <2>4. read' = n
    BY <1>1, <2>2, <2>3 DEF IsAssembled
  <2>5. d.kind # "block"
    BY <2>3 DEF is_main
  <2>6. \A k \in 1 .. read' : k \in 1 .. read \/ k = read + 1
    BY <1>1, <2>3
  <2>7. \A k \in 1 .. read : k \in 1 .. read'
    BY <1>1, <2>3
  <2>8. \A k \in 1 .. read' : written[k].kind = "block" => rlocator_set'
    BY <2>1, <2>3, <2>5, <2>6 DEF Progress
  <2>9. max_block_id' = -1 \/ \E k \in 1 .. read' : /\ written[k].kind = "block"
                                                    /\ written[k].block_id = max_block_id'
    BY <2>1, <2>3, <2>7 DEF Progress
  <2>10. \E f : Sums(written, f) /\ pos' + datatotal' = f[read']
    BY <2>2, <2>3
  <2>11. read' \in 0 .. n
    BY <1>1, <2>4
  <2> QED BY <1>2, <2>1, <2>4, <2>8, <2>9, <2>10, <2>11 DEF Progress
<1>7. CASE DescriptorsEnd
  <2>1. /\ pc = "descriptors" /\ ~MoreDescriptors /\ pc' = "check"
        /\ UNCHANGED <<read, pos, datatotal, max_block_id, rlocator_set>>
    BY <1>7 DEF DescriptorsEnd
  <2>2. PICK f : Sums(written, f) /\ pos + datatotal = f[read]
    BY <2>1 DEF Progress
  <2>3. read = n
    <3> SUFFICES ASSUME read # n PROVE FALSE
      OBVIOUS
    <3> DEFINE d == written[read + 1]
    <3>1. read + 1 \in 1 .. n /\ (read + 1) - 1 = read /\ read + 1 \in 0 .. n /\ n \in 0 .. n
      BY <1>1
    <3>2. DescriptorSize(d) \in Nat /\ DescriptorSize(d) > 0 /\ Announced(d) \in Nat
      BY <1>1, <3>1, SizePositive, ItemTypes
    <3>3. f[read + 1] = f[read] + DescriptorSize(d) + Announced(d) /\ f[read + 1] <= f[n]
      BY <2>2, <3>1 DEF Sums
    <3>4. f[n] = len /\ len \in Nat /\ pos \in Nat /\ datatotal \in Nat /\ pos \in 0 .. len
      BY <2>2 DEF Sums, TypeOK
    <3> HIDE DEF d, n
    <3>5. len - pos > datatotal
      BY <2>2, <3>2, <3>3, <3>4
    <3> QED BY <2>1, <3>4, <3>5 DEF MoreDescriptors, remaining
  <2> QED BY <1>2, <2>1, <2>2, <2>3 DEF Progress
<1>8. CASE CheckLength
  <2>1. pc = "check" /\ UNCHANGED <<read, pos, datatotal>>
    BY <1>8 DEF CheckLength
  <2>2. PICK f : Sums(written, f) /\ pos + datatotal = f[n]
    BY <2>1 DEF Progress
  <2>3. f[n] = len /\ len \in Nat /\ pos \in 0 .. len /\ datatotal \in Nat
    BY <2>2 DEF Sums, TypeOK
  <2>4. LengthAgrees
    BY <2>2, <2>3 DEF LengthAgrees, remaining
  <2> QED BY <1>2, <1>8, <2>1, <2>4 DEF CheckLength, Progress
<1>9. CASE PlaceBlock \/ PlaceMain \/ UNCHANGED vars
  BY <1>2, <1>9 DEF PlaceBlock, PlaceMain, vars, Progress
<1> QED BY <1>4, <1>5, <1>6, <1>7, <1>8, <1>9 DEF Next

LEMMA InitProgress ==
  ASSUME Init, written # <<>>
  PROVE  len = AssembledLength(written) /\ Progress
<1>1. written \in Written /\ len = AssembledLength(written)
  BY DEF Init
<1>2. written \in Seq(Item)
  BY <1>1, DecodeAssumption
<1>3. PICK f : Sums(written, f)
  BY <1>2, SumsOf
<1>4. Len(written) \in Nat
  BY <1>2, LenProperties
<1>5. pos + datatotal = f[read] /\ read \in 0 .. Len(written)
  BY <1>3, <1>4, DecodeAssumption DEF Init, Sums
<1> QED BY <1>1, <1>3, <1>5 DEF Init, Progress

(***************************************************************************)
(* A record that a server has assembled decodes, for any number of blocks  *)
(* with any images and data: the loop over the descriptors reads each of   *)
(* them, since what is left is more than what is announced until the last  *)
(* of them has been read; no check of decode_wal_record refuses one; and   *)
(* what is announced in the end is just what is left.                      *)
(***************************************************************************)
THEOREM AssembledRecordsDecode == Spec => []IntactDecodes
<1> DEFINE I == written # <<>> => len = AssembledLength(written) /\ Progress
<1>1. Init => I
  BY InitProgress
<1>2. TypeOK /\ I /\ [Next]_vars => I'
  <2> SUFFICES ASSUME TypeOK, I, [Next]_vars, written' # <<>>
               PROVE  len' = AssembledLength(written') /\ Progress'
    OBVIOUS
  <2>1. written' = written /\ len' = len
    BY DEF Next, vars, input, DescriptorBad, ReadBlock, ReadOther, ReadMainHeader,
           DescriptorsEnd, CheckLength, PlaceBlock, PlaceMain
  <2> QED BY <2>1, NextProgress
<1>3. I => IntactDecodes
  BY DEF IntactDecodes, Progress
<1> QED BY <1>1, <1>2, <1>3, DecodeTypeCorrect, PTL DEF Spec
=============================================================================
