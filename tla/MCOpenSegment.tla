---------------------------- MODULE MCOpenSegment ----------------------------
(***************************************************************************)
(* Sizes in the cells of WalSegment: pages of 16 and 32 cells, segments of *)
(* 32 to 128 cells, 256 of them to an xlogid of the file name.             *)
(***************************************************************************)
EXTENDS OpenSegment

Name(digits, tli, log, seg) == [digits |-> digits, tli |-> tli, log |-> log, seg |-> seg]

\* The second segment, the last one of 128 cells, the last conceivable name, and none.
SomeNames == {Name(TRUE, 1, 0, 1), Name(TRUE, 2, 255, 1), Name(TRUE, 2, 255, 255),
              Name(FALSE, 0, 0, 0)}

\* Pairs of sizes at the limits, and pairs with one size out of them or no power of two.
Sizes == {<<16, 32>>, <<16, 128>>, <<32, 32>>, <<32, 128>>, <<8, 128>>, <<24, 128>>, <<64, 128>>,
          <<16, 16>>, <<16, 96>>, <<16, 256>>}

Start(n, s) == Wrapped((n.log * (IdSpace \div s) + n.seg) * s)

Long(b, s, addr, tli) ==
  [zeroed |-> FALSE, magic_ok |-> TRUE, long |-> TRUE, flags_ok |-> TRUE,
   blcksz |-> b, seg_size |-> s, tli |-> tli, pageaddr |-> addr]
Plain == Long(16, 128, 128, 1)   \* of the second segment

SomePages ==
  {Long(z[1], z[2], Start(n, z[2]), n.tli) : z \in Sizes, n \in {n \in SomeNames : n.digits}}
  \cup {[Plain EXCEPT !.zeroed = TRUE, !.magic_ok = FALSE], [Plain EXCEPT !.magic_ok = FALSE],
        [Plain EXCEPT !.long = FALSE], [Plain EXCEPT !.flags_ok = FALSE],
        [Plain EXCEPT !.tli = 2], Plain}
=============================================================================
