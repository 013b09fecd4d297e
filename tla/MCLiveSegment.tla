---------------------------- MODULE MCLiveSegment ----------------------------
(***************************************************************************)
(* Segments of four pages of 64 bytes, the smallest page the reader        *)
(* accepts: 6 cells of content on the first page, 10 on the others.        *)
(***************************************************************************)
EXTENDS LiveSegment

\* Built from the lengths of the records, the carried record and its rest.
Starts(w)     == LET start[r \in DOMAIN w.lens] == StartAfter(w, r, start) IN start
WithStarts(w) == [w EXCEPT !.start = Starts(w)]
CutLayoutOf(seq, carried, left, pages, base, cut) ==
  WithStarts(
    [lens |-> [r \in 0 .. Len(seq) |-> IF r = 0 THEN carried ELSE seq[r]],
     left |-> left, pages |-> pages, base |-> base, cut |-> cut, start |-> <<>>,
     flipped |-> {}, fault_page |-> NO_PAGE, fault |-> "magic", torn |-> {}])
LayoutOf(seq, carried, left, pages, base) == CutLayoutOf(seq, carried, left, pages, base, NO_PAGE)

UpTo(n, S) == UNION {[1 .. m -> S] : m \in 0 .. n}

Good(w) == IsLayout(w) /\ NeverAtSegmentEnd(w)

\* A record whose rest is nothing, part of the first page, all of it, more.
Carries == {<<0, 0>>, <<9, 3>>, <<20, 6>>, <<30, 17>>}

\* Lengths: a header alone, an odd one, more than two pages.
Undisturbed ==
  {w \in {LayoutOf(s, c[1], c[2], p, "zero") :
            s \in UpTo(3, {6, 7, 23}), c \in Carries, p \in {2, 4}} : Good(w)}

\* After a crash that left a record of this segment, or the carried one, unfinished.
Crashed ==
  {w \in {[CutLayoutOf(s, c[1], c[2], 4, b, p) EXCEPT !.torn = {1, 6}] :
            s \in UNION {[1 .. m -> {6, 13}] : m \in 1 .. 3},
            c \in {<<0, 0>>, <<40, 14>>}, b \in {"zero", "recycled"}, p \in {1, 2}} :
     Good(w) /\ \E r \in DOMAIN w.lens : Aborted(w, r)}

Torn ==
  {w \in {[LayoutOf(s, c[1], c[2], pb[1], pb[2]) EXCEPT !.torn = {1, 6, 9}] :
            s \in UpTo(2, {6, 7, 17}), c \in {<<0, 0>>, <<20, 6>>},
            pb \in {<<4, "recycled">>, <<3, "zero">>}} : Good(w)}

\* One damaged cell: of the length, the header, the descriptors, the data.
DamagedCells(s) == {{<<r, i>>} : r \in 1 .. Len(s), i \in {0, 3, 6, 7}}
DamagedRecords ==
  {w \in UNION {{[LayoutOf(s, c[1], c[2], 4, "zero") EXCEPT !.flipped = d] :
            c \in {<<0, 0>>, <<20, 6>>}, d \in DamagedCells(s)}
            : s \in UpTo(2, {6, 8, 13})} : Good(w)}

DamagedHeaders ==
  {w \in {[LayoutOf(s, c[1], c[2], p, "zero") EXCEPT !.fault_page = f, !.fault = h] :
            s \in UpTo(2, {6, 13}), c \in {<<0, 0>>, <<30, 7>>}, p \in {0, 4},
            f \in PageNo, h \in PageFaults} : Good(w)}

\* A damaged header before, on and behind the page where the server went on.
CrashedAndDamaged ==
  {w \in {[CutLayoutOf(s, c[1], c[2], 4, "zero", p) EXCEPT !.fault_page = f, !.fault = h] :
            s \in {<<6>>, <<13>>, <<6, 13>>, <<13, 6>>}, c \in {<<0, 0>>, <<40, 14>>}, p \in {1, 2},
            f \in PageNo, h \in {"magic", "tli"}} :
     Good(w) /\ \E r \in DOMAIN w.lens : Aborted(w, r)}

\* Records of which nothing but the descriptors is damaged.
DamagedDescriptors == {w \in DamagedRecords : \A d \in w.flipped : d[2] = RecHdr}

AllLayouts == Undisturbed \cup Torn \cup DamagedRecords \cup DamagedHeaders \cup Crashed
                \cup CrashedAndDamaged

\* A record that ends with the segment, and one that fills it from before.
EndsWithSegment ==
  {LayoutOf(<<36>>, 0, 0, 4, "zero"),
   LayoutOf(<<8, 27>>, 0, 0, 4, "zero"),
   LayoutOf(<<>>, 60, 36, 4, "zero")}
=============================================================================
