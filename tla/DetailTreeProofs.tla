--------------------------- MODULE DetailTreeProofs ---------------------------
(***************************************************************************)
(* Proofs about DetailTree.  nav_items and LineOf are built by recursion,  *)
(* of which the provers know nothing; what is needed of both is proved by  *)
(* induction here, in the form of a least counterexample (UpTo): the list  *)
(* is what is seen, from top to bottom, without repetition (NavIsSeen),    *)
(* and every heading's line is below the one before (LinesGrow).           *)
(***************************************************************************)
EXTENDS DetailTree, TLAPS, SequenceTheorems, FiniteSetTheorems, WellFoundedInduction

\* Induction up to n.
LEMMA UpTo ==
  ASSUME NEW n \in Nat, NEW T, 0 \in T, \A m \in 0 .. n - 1 : m \in T => m + 1 \in T
  PROVE  \A m \in 0 .. n : m \in T
<1> SUFFICES ASSUME 0 .. n \ T # {} PROVE FALSE
  OBVIOUS
<1> DEFINE D == 0 .. n \ T
<1>1. D \subseteq Nat /\ D # {}
  OBVIOUS
<1> HIDE DEF D
<1>2. PICK m \in D : \A k \in D : ~ (<<k, m>> \in OpToRel(<, Nat))
  BY <1>1, NatLessThanWellFounded, WFMin
<1>3. m \in 0 .. n /\ m \notin T /\ m # 0
  BY DEF D
<1>4. m - 1 \in 0 .. n - 1 /\ m - 1 < m /\ (m - 1) + 1 = m
  BY <1>3
<1>5. m - 1 \in T
  <2>1. m - 1 \in 0 .. n
    BY <1>4
  <2>3. <<m - 1, m>> \in OpToRel(<, Nat)
    BY <1>3, <1>4 DEF OpToRel
  <2> QED BY <1>2, <2>1, <2>3 DEF D
<1> QED BY <1>3, <1>4, <1>5

\* What FlattenSeq defines by recursion: the sequences of ss up to m, joined.
Cat(ss, m, g) == g = [i \in 1 .. m |-> IF i = 1 THEN ss[i] ELSE g[i - 1] \o ss[i]]

LEMMA CatExists ==
  ASSUME NEW ss, NEW n \in Nat
  PROVE  \E g : Cat(ss, n, g)
<1> DEFINE T == {m \in Nat : \E g : Cat(ss, m, g)}
<1>1. 0 \in T
  <2>1. Cat(ss, 0, [i \in 1 .. 0 |-> IF i = 1 THEN ss[i] ELSE <<>>])
    BY DEF Cat
  <2> QED BY <2>1
<1>2. ASSUME NEW m \in 0 .. n - 1, m \in T PROVE m + 1 \in T
  <2>1. PICK g : Cat(ss, m, g)
    BY <1>2
  <2> DEFINE h == [i \in 1 .. m + 1 |-> IF i = 1 THEN ss[i]
                                        ELSE IF i = m + 1 THEN g[m] \o ss[i] ELSE g[i]]
  <2>2. Cat(ss, m + 1, h)
    <3> SUFFICES ASSUME NEW i \in 1 .. m + 1
                 PROVE  h[i] = IF i = 1 THEN ss[i] ELSE h[i - 1] \o ss[i]
      BY DEF Cat
    <3>1. CASE i = 1
      BY <3>1
    <3>2. CASE i # 1 /\ i = m + 1
      <4>1. i - 1 = m /\ m \in 1 .. m + 1 /\ m # m + 1 /\ m \in 1 .. m
        BY <3>2
      <4>2. h[m] = g[m]
        BY <2>1, <4>1 DEF Cat
      <4> QED BY <3>2, <4>1, <4>2
    <3>3. CASE i # 1 /\ i # m + 1
      <4>1. i \in 1 .. m /\ i - 1 \in 1 .. m /\ i - 1 \in 1 .. m + 1 /\ i - 1 # m + 1
        BY <3>3
      <4>2. g[i] = g[i - 1] \o ss[i]
        BY <2>1, <3>3, <4>1 DEF Cat
      <4>3. h[i - 1] = g[i - 1]
        BY <2>1, <4>1 DEF Cat
      <4> QED BY <3>3, <4>2, <4>3
    <3> QED BY <3>1, <3>2, <3>3
  <2> QED BY <2>2
<1> HIDE DEF T
<1>3. \A m \in 0 .. n : m \in T
  BY <1>1, <1>2, UpTo
<1> QED BY <1>3 DEF T

LEMMA FlattenIsCat ==
  ASSUME NEW ss, Len(ss) \in Nat, Len(ss) # 0
  PROVE  \E g : Cat(ss, Len(ss), g) /\ FlattenSeq(ss) = g[Len(ss)]
<1> DEFINE c == CHOOSE g : Cat(ss, Len(ss), g)
<1>1. Cat(ss, Len(ss), c)
  BY CatExists
<1>2. FlattenSeq(ss) = c[Len(ss)]
  BY DEF FlattenSeq, Cat
<1> QED BY <1>1, <1>2
\* Where the elements of the sequences are in the flattened one: f[k] of
\* them come from the first k.
Offsets(f, ss) ==
  /\ f \in [0 .. Len(ss) -> Nat] /\ f[0] = 0
  /\ \A k \in 1 .. Len(ss) : f[k] = f[k - 1] + Len(ss[k])

LEMMA Flatten ==
  ASSUME NEW S, NEW ss \in Seq(Seq(S))
  PROVE  /\ FlattenSeq(ss) \in Seq(S)
         /\ \E f : /\ Offsets(f, ss)
                   /\ Len(FlattenSeq(ss)) = f[Len(ss)]
                   /\ \A k \in 1 .. Len(ss) : \A j \in 1 .. Len(ss[k]) :
                        FlattenSeq(ss)[f[k - 1] + j] = ss[k][j]
<1> DEFINE n == Len(ss)
<1>1. n \in Nat /\ \A k \in 1 .. n : ss[k] \in Seq(S) /\ Len(ss[k]) \in Nat
  BY LenProperties
<1>2. CASE n = 0
  <2> DEFINE f == [k \in 0 .. 0 |-> 0]
  <2>1. ss = <<>> /\ FlattenSeq(ss) = ss
    BY <1>2 DEF FlattenSeq
  <2>2. Offsets(f, ss) /\ Len(FlattenSeq(ss)) = f[Len(ss)]
    BY <1>2, <2>1 DEF Offsets
  <2> QED BY <1>2, <2>1, <2>2
<1>3. CASE n # 0
  <2>1. PICK g : Cat(ss, n, g) /\ FlattenSeq(ss) = g[n]
    BY <1>1, <1>3, FlattenIsCat
  <2>2. /\ g[1] = ss[1]
        /\ \A k \in 1 .. n - 1 : g[k + 1] = g[k] \o ss[k + 1]
    <3>1. \A i \in 1 .. n : g[i] = IF i = 1 THEN ss[i] ELSE g[i - 1] \o ss[i]
      BY <2>1 DEF Cat
    <3>2. 1 \in 1 .. n
      BY <1>1, <1>3
    <3>3. ASSUME NEW k \in 1 .. n - 1 PROVE g[k + 1] = g[k] \o ss[k + 1]
      <4>1. k + 1 \in 1 .. n /\ k + 1 # 1 /\ (k + 1) - 1 = k
        BY <1>1
      <4> QED BY <3>1, <4>1
    <3> QED BY <3>1, <3>2, <3>3
  <2> DEFINE f == [k \in 0 .. n |-> IF k = 0 THEN 0 ELSE Len(g[k])]
             T == {k \in 0 .. n : k = 0 \/ g[k] \in Seq(S)}
  <2>3. \A k \in 1 .. n : g[k] \in Seq(S)
    <3>1. 0 \in T
      BY <1>1
    <3>2. ASSUME NEW k \in 0 .. n - 1, k \in T PROVE k + 1 \in T
      <4>1. CASE k = 0
        BY <1>1, <2>2, <4>1
      <4>2. CASE k # 0
        <5>1. k \in 1 .. n - 1 /\ k + 1 \in 1 .. n /\ k + 1 \in 0 .. n
          BY <1>1, <4>2
        <5>2. g[k] \in Seq(S) /\ ss[k + 1] \in Seq(S) /\ g[k + 1] = g[k] \o ss[k + 1]
          BY <1>1, <2>2, <3>2, <4>2, <5>1
        <5> QED BY ZenonT(30), <5>1, <5>2, ConcatProperties
      <4> QED BY <4>1, <4>2
    <3> HIDE DEF T
    <3>3. \A k \in 0 .. n : k \in T
      BY <1>1, <3>1, <3>2, UpTo
    <3> QED BY <3>3 DEF T
  <2>4. /\ f \in [0 .. n -> Nat] /\ f[0] = 0 /\ \A k \in 1 .. n : f[k] = Len(g[k])
    BY <1>1, <2>3, LenProperties
  <2>5. \A k \in 1 .. n : f[k] = f[k - 1] + Len(ss[k])
    <3> TAKE k \in 1 .. n
    <3>1. CASE k = 1
      BY <1>1, <2>2, <2>4, <3>1
    <3>2. CASE k # 1
      <4> DEFINE m == k - 1
      <4>1. m \in 1 .. n - 1 /\ m \in 1 .. n /\ m + 1 = k
        BY <1>1, <3>2
      <4> HIDE DEF m
      <4>2. g[k] = g[m] \o ss[k] /\ g[m] \in Seq(S) /\ ss[k] \in Seq(S)
        BY <1>1, <2>2, <2>3, <4>1
      <4>3. Len(g[k]) = Len(g[m]) + Len(ss[k])
        BY <4>2, ConcatProperties
      <4> QED BY <2>4, <4>1, <4>3 DEF m
    <3> QED BY <3>1, <3>2
  <2>6. Offsets(f, ss)
    BY <2>4, <2>5 DEF Offsets
  <2>7. n \in 1 .. n /\ n \in 0 .. n
    BY <1>1, <1>3
  <2> HIDE DEF f
  <2> DEFINE At(m) == \A k \in 1 .. m : \A j \in 1 .. Len(ss[k]) :
                        f[k - 1] + j \in 1 .. f[m] /\ g[m][f[k - 1] + j] = ss[k][j]
             U == {m \in 0 .. n : At(m)}
  <2>8. At(n)
    <3>1. 0 \in U
      BY <1>1
    <3>2. ASSUME NEW m \in 0 .. n - 1, m \in U PROVE m + 1 \in U
      <4>1. /\ m + 1 \in 1 .. n /\ m \in 0 .. n /\ (m + 1) - 1 = m /\ m + 1 \in 0 .. n
        BY <1>1
      <4>2. /\ f[m] \in Nat /\ f[m + 1] = f[m] + Len(ss[m + 1]) /\ Len(ss[m + 1]) \in Nat
        BY <1>1, <2>4, <2>5, <4>1
      <4> SUFFICES ASSUME NEW k \in 1 .. m + 1, NEW j \in 1 .. Len(ss[k])
                   PROVE  f[k - 1] + j \in 1 .. f[m + 1] /\ g[m + 1][f[k - 1] + j] = ss[k][j]
        BY <4>1
      <4>3. CASE k \in 1 .. m
        <5>1. f[k - 1] + j \in 1 .. f[m] /\ g[m][f[k - 1] + j] = ss[k][j]
          BY <3>2, <4>3
        <5>2. m \in 1 .. n - 1 /\ m \in 1 .. n
          BY <1>1, <4>3
        <5>3. g[m + 1] = g[m] \o ss[m + 1] /\ g[m] \in Seq(S) /\ ss[m + 1] \in Seq(S)
              /\ Len(g[m]) = f[m]
          BY <1>1, <2>2, <2>3, <2>4, <4>1, <5>2
        <5>4. g[m + 1][f[k - 1] + j] = g[m][f[k - 1] + j]
          <6> DEFINE i == f[k - 1] + j
          <6>1. i \in 1 .. Len(g[m]) + Len(ss[m + 1]) /\ i <= Len(g[m])
            <7> DEFINE l == Len(ss[m + 1])
                       x == f[m]
            <7>1. i \in 1 .. x /\ l \in Nat /\ x \in Nat /\ Len(g[m]) = x
              BY <4>2, <5>1, <5>3
            <7> HIDE DEF i, l, x
            <7>2. i \in 1 .. x + l /\ i <= x
              BY <7>1
            <7> QED BY <7>1, <7>2 DEF l
          <6> HIDE DEF i
          <6>2. (g[m] \o ss[m + 1])[i] = g[m][i]
            BY <5>3, <6>1, ConcatProperties
          <6> QED BY <5>3, <6>2 DEF i
        <5>5. f[k - 1] + j \in 1 .. f[m + 1]
          BY <4>2, <5>1
        <5> QED BY <5>1, <5>4, <5>5
      <4>4. CASE k = m + 1
        <5>1. j \in Nat /\ j >= 1 /\ j <= Len(ss[m + 1]) /\ k - 1 = m
          BY <4>1, <4>2, <4>4
        <5>2. f[m] + j \in 1 .. f[m + 1]
          BY <4>2, <5>1
        <5>3. CASE m = 0
          BY <2>2, <2>4, <4>4, <5>1, <5>2, <5>3
        <5>4. CASE m # 0
          <6>1. m \in 1 .. n - 1 /\ m \in 1 .. n
            BY <1>1, <5>4
          <6>2. g[m + 1] = g[m] \o ss[m + 1] /\ g[m] \in Seq(S) /\ ss[m + 1] \in Seq(S)
                /\ Len(g[m]) = f[m]
            BY <1>1, <2>2, <2>3, <2>4, <4>1, <6>1
          <6>3. g[m + 1][f[m] + j] = ss[m + 1][j]
            <7> DEFINE i == f[m] + j
            <7>1. i \in 1 .. Len(g[m]) + Len(ss[m + 1]) /\ ~(i <= Len(g[m])) /\ i - Len(g[m]) = j
              BY SMTT(30), <4>2, <5>1, <5>2, <6>2
            <7> HIDE DEF i
            <7>2. (g[m] \o ss[m + 1])[i] = ss[m + 1][i - Len(g[m])]
              BY <6>2, <7>1, ConcatProperties
            <7> QED BY <6>2, <7>1, <7>2 DEF i
          <6> QED BY <4>4, <5>1, <5>2, <6>3
        <5> QED BY <5>3, <5>4
      <4> QED BY <4>1, <4>3, <4>4
    <3> HIDE DEF U
    <3>3. \A m \in 0 .. n : m \in U
      BY <1>1, <3>1, <3>2, UpTo
    <3> QED BY <2>7, <3>3 DEF U
  <2>9. g[n] \in Seq(S) /\ Len(g[n]) = f[n]
    BY <2>3, <2>4, <2>7
  <2>10. \A k \in 1 .. n : \A j \in 1 .. Len(ss[k]) : g[n][f[k - 1] + j] = ss[k][j]
    BY <2>8
  <2> QED BY <2>1, <2>6, <2>9, <2>10
<1> QED BY <1>2, <1>3

LEMMA OffsetsGrow ==
  ASSUME NEW S, NEW ss \in Seq(Seq(S)), NEW f, Offsets(f, ss)
  PROVE  \A j, k \in 0 .. Len(ss) : j <= k => f[j] <= f[k]
<1> DEFINE n == Len(ss)
           T == {k \in 0 .. n : \A j \in 0 .. k : f[j] <= f[k]}
<1>1. /\ n \in Nat /\ \A k \in 1 .. n : Len(ss[k]) \in Nat
      /\ f \in [0 .. n -> Nat] /\ \A k \in 1 .. n : f[k] = f[k - 1] + Len(ss[k])
  BY LenProperties DEF Offsets
<1>2. 0 \in T
  BY <1>1
<1>3. ASSUME NEW k \in 0 .. n - 1, k \in T PROVE k + 1 \in T
  <2>1. k + 1 \in 1 .. n /\ (k + 1) - 1 = k /\ k + 1 \in 0 .. n /\ k \in 0 .. n
    BY <1>1
  <2>2. f[k + 1] = f[k] + Len(ss[k + 1]) /\ Len(ss[k + 1]) \in Nat /\ f[k] \in Nat /\ f[k + 1] \in Nat
    BY <1>1, <2>1
  <2>3. ASSUME NEW j \in 0 .. k + 1 PROVE f[j] <= f[k + 1]
    <3>1. CASE j = k + 1
      BY <2>2, <3>1
    <3>2. CASE j \in 0 .. k
      <4>1. f[j] <= f[k] /\ j \in 0 .. n
        BY <1>3, <2>1, <3>2
      <4>2. f[j] \in Nat
        BY <1>1, <4>1
      <4> QED BY <2>2, <4>1, <4>2
    <3> QED BY <3>1, <3>2
  <2> QED BY <2>1, <2>3
<1> HIDE DEF T
<1>4. \A k \in 0 .. n : k \in T
  BY <1>1, <1>2, <1>3, UpTo
<1> QED BY <1>4 DEF T

LEMMA OffsetsCover ==
  ASSUME NEW S, NEW ss \in Seq(Seq(S)), NEW f, Offsets(f, ss), NEW i \in 1 .. f[Len(ss)]
  PROVE  \E k \in 1 .. Len(ss) : \E j \in 1 .. Len(ss[k]) : i = f[k - 1] + j
<1> DEFINE n == Len(ss)
           T == {m \in 0 .. n : i <= f[m] => \E k \in 1 .. m : f[k - 1] < i /\ i <= f[k]}
<1>1. /\ n \in Nat /\ \A k \in 1 .. n : Len(ss[k]) \in Nat
      /\ f \in [0 .. n -> Nat] /\ \A k \in 1 .. n : f[k] = f[k - 1] + Len(ss[k])
      /\ f[0] = 0
  BY LenProperties DEF Offsets
<1>2. 0 \in T
  BY <1>1
<1>3. ASSUME NEW m \in 0 .. n - 1, m \in T PROVE m + 1 \in T
  <2>1. m + 1 \in 1 .. n /\ (m + 1) - 1 = m /\ m + 1 \in 0 .. n /\ m \in 0 .. n
    BY <1>1
  <2>2. f[m] \in Nat /\ f[m + 1] \in Nat
    BY <1>1, <2>1
  <2>3. i <= f[m + 1] => \E k \in 1 .. m + 1 : f[k - 1] < i /\ i <= f[k]
    <3>1. CASE i <= f[m]
      <4>1. PICK k \in 1 .. m : f[k - 1] < i /\ i <= f[k]
        BY <1>3, <3>1
      <4>2. k \in 1 .. m + 1
        BY <2>1
      <4> QED BY <4>1, <4>2
    <3>2. CASE ~(i <= f[m])
      <4>1. m + 1 \in 1 .. m + 1 /\ f[(m + 1) - 1] < i
        BY <2>1, <2>2, <3>2
      <4> QED BY <4>1
    <3> QED BY <3>1, <3>2
  <2> QED BY <2>1, <2>3
<1>4. n \in 0 .. n
  BY <1>1
<1> HIDE DEF T
<1>5. n \in T
  BY <1>1, <1>2, <1>3, <1>4, UpTo
<1>6. PICK k \in 1 .. n : f[k - 1] < i /\ i <= f[k]
  BY <1>1, <1>4, <1>5 DEF T
<1> DEFINE j == i - f[k - 1]
<1> HIDE DEF j
<1>7. f[k - 1] \in Nat /\ f[k] = f[k - 1] + Len(ss[k]) /\ Len(ss[k]) \in Nat
  <2>1. k - 1 \in 0 .. n
    BY <1>1, <1>6
  <2> QED BY <1>1, <1>6, <2>1
<1>8. j \in 1 .. Len(ss[k]) /\ i = f[k - 1] + j
  BY <1>1, <1>6, <1>7 DEF j
<1> QED BY <1>8

-----------------------------------------------------------------------------
(* The headings.                                                           *)

State == [block : BOOLEAN, fpi : BOOLEAN]

Tree == [header_expanded : BOOLEAN, block_states : Seq(State), main_expanded : BOOLEAN,
         cursor : Nat]

Shape == [blocks : Seq(BlockShape), has_main : BOOLEAN, main_fields : Nat \cup {-1}]

\* A tree of record rec.
IsTree(t, rec) == rec \in Shape /\ t \in Tree /\ Len(t.block_states) = Len(rec.blocks)

\* The headings that are there, and where they are from top to bottom.
HasFpi(t, rec, i) == t.block_states[i].block /\ rec.blocks[i].has_image

SeenOf(t, rec) ==
  {Header}
  \cup {Block(i) : i \in Blocks(rec)}
  \cup {Fpi(i) : i \in {j \in Blocks(rec) : HasFpi(t, rec, j)}}
  \cup IF rec.has_main THEN {MainData} ELSE {}

PlaceOf(h, rec) ==
  CASE h[1] = "Header"   -> 0
    [] h[1] = "Block"    -> 2 * h[2]
    [] h[1] = "BlockFpi" -> 2 * h[2] + 1
    [] h[1] = "MainData" -> 2 * Len(rec.blocks) + 2

LEMMA Places ==
  ASSUME NEW rec, NEW i
  PROVE  /\ PlaceOf(Header, rec) = 0 /\ PlaceOf(Block(i), rec) = 2 * i
         /\ PlaceOf(Fpi(i), rec) = 2 * i + 1 /\ PlaceOf(MainData, rec) = 2 * Len(rec.blocks) + 2
  BY DEF PlaceOf, Header, Block, Fpi, MainData

HeadingsOf(t, rec, i) == <<Block(i)>> \o (IF HasFpi(t, rec, i) THEN <<Fpi(i)>> ELSE <<>>)

\* The headings of the blocks.
LEMMA BlockHeadings ==
  ASSUME NEW t, NEW rec, IsTree(t, rec), NEW i \in Blocks(rec),
         NEW s, s = HeadingsOf(t, rec, i)
  PROVE  /\ s \in Seq(SeenOf(t, rec)) /\ Len(s) \in 1 .. 2 /\ s[1] = Block(i)
         /\ HasFpi(t, rec, i) => Len(s) = 2 /\ s[2] = Fpi(i)
         /\ ~HasFpi(t, rec, i) => Len(s) = 1
         /\ \A j \in 1 .. Len(s) : PlaceOf(s[j], rec) = 2 * i + (j - 1)
<1> DEFINE one == <<Block(i)>>
           two == <<Fpi(i)>>
           S == SeenOf(t, rec)
<1>1. i \in Nat
  BY DEF Blocks
<1>2. one \in Seq(S) /\ Len(one) = 1 /\ one[1] = Block(i)
  BY DEF SeenOf
<1>3. CASE HasFpi(t, rec, i)
  <2>1. two \in Seq(S) /\ Len(two) = 1 /\ two[1] = Fpi(i)
    BY <1>3 DEF SeenOf
  <2>2. s = one \o two
    BY <1>3 DEF HeadingsOf
  <2> HIDE DEF one, two, S
  <2>3. s \in Seq(S) /\ Len(s) = 2
    BY <1>2, <2>1, <2>2, ConcatProperties
  <2>4. s[1] = Block(i) /\ s[2] = Fpi(i)
    <3>1. /\ 1 \in 1 .. Len(one) + Len(two) /\ 1 <= Len(one)
          /\ 2 \in 1 .. Len(one) + Len(two) /\ ~(2 <= Len(one)) /\ 2 - Len(one) = 1
      BY <1>2, <2>1
    <3>2. \A n \in 1 .. Len(one) + Len(two) :
            s[n] = IF n <= Len(one) THEN one[n] ELSE two[n - Len(one)]
      <4>1. \A n \in 1 .. Len(one) + Len(two) :
              (one \o two)[n] = IF n <= Len(one) THEN one[n] ELSE two[n - Len(one)]
        BY <1>2, <2>1, ConcatProperties
      <4> QED BY <2>2, <4>1
    <3>3. s[1] = one[1] /\ s[2] = two[1]
      BY <3>1, <3>2
    <3> QED BY <1>2, <2>1, <3>3
  <2>5. PlaceOf(s[1], rec) = 2 * i + (1 - 1) /\ PlaceOf(s[2], rec) = 2 * i + (2 - 1)
    BY <1>1, <2>4, Places
  <2>6. \A j \in 1 .. Len(s) : j = 1 \/ j = 2
    BY <2>3
  <2>7. \A j \in 1 .. Len(s) : PlaceOf(s[j], rec) = 2 * i + (j - 1)
    BY <2>5, <2>6
  <2>8. s \in Seq(SeenOf(t, rec)) /\ Len(s) \in 1 .. 2
    BY <2>3 DEF S
  <2> QED BY <1>3, <2>3, <2>4, <2>7, <2>8
<1>4. CASE ~HasFpi(t, rec, i)
  <2>1. s = one
    BY <1>2, <1>4, ConcatEmptySeq DEF HeadingsOf
  <2>2. PlaceOf(s[1], rec) = 2 * i + (1 - 1) /\ s[1] = Block(i)
    BY <1>1, <1>2, <2>1, Places
  <2>3. s \in Seq(SeenOf(t, rec)) /\ Len(s) = 1
    BY <1>2, <2>1
  <2>4. \A j \in 1 .. Len(s) : j = 1
    BY <2>3
  <2>5. \A j \in 1 .. Len(s) : PlaceOf(s[j], rec) = 2 * i + (j - 1)
    BY <2>2, <2>4
  <2> QED BY <1>4, <2>2, <2>3, <2>5
<1> QED BY <1>3, <1>4

\* The headings of all the blocks, from top to bottom.
BlocksOf(t, rec) == [i \in 1 .. Len(t.block_states) |-> HeadingsOf(t, rec, i)]

LEMMA BlocksInOrder ==
  ASSUME NEW t, NEW rec, IsTree(t, rec)
  PROVE  LET F == FlattenSeq(BlocksOf(t, rec)) IN
         /\ F \in Seq(SeenOf(t, rec))
         /\ \A i \in 1 .. Len(F) : PlaceOf(F[i], rec) \in 2 .. 2 * Len(rec.blocks) + 1
         /\ \A i, j \in 1 .. Len(F) : i < j => PlaceOf(F[i], rec) < PlaceOf(F[j], rec)
         /\ \A b \in Blocks(rec) :
              /\ \E i \in 1 .. Len(F) : F[i] = Block(b)
              /\ HasFpi(t, rec, b) => \E i \in 1 .. Len(F) : F[i] = Fpi(b)
<1> DEFINE S == SeenOf(t, rec)
           ss == BlocksOf(t, rec)
           n == Len(rec.blocks)
           F == FlattenSeq(ss)
<1>1. n \in Nat /\ Len(t.block_states) = n /\ Blocks(rec) = 1 .. n
  BY LenProperties DEF IsTree, Shape, Tree, Blocks
<1>2. ASSUME NEW k \in 1 .. n
      PROVE  /\ ss[k] \in Seq(S) /\ Len(ss[k]) \in 1 .. 2 /\ ss[k][1] = Block(k)
             /\ HasFpi(t, rec, k) => Len(ss[k]) = 2 /\ ss[k][2] = Fpi(k)
             /\ \A j \in 1 .. Len(ss[k]) : PlaceOf(ss[k][j], rec) = 2 * k + (j - 1)
  <2>1. ss[k] = HeadingsOf(t, rec, k) /\ k \in Blocks(rec)
    BY <1>1 DEF BlocksOf
  <2> HIDE DEF ss
  <2> QED BY <2>1, BlockHeadings
<1>3. ss \in Seq(Seq(S)) /\ Len(ss) = n
  <2>1. ss = [k \in 1 .. n |-> HeadingsOf(t, rec, k)]
    BY <1>1 DEF BlocksOf
  <2>2. \A k \in 1 .. n : HeadingsOf(t, rec, k) \in Seq(S)
    BY <1>1, BlockHeadings
  <2> HIDE DEF ss, n, S
  <2> QED BY <1>1, <2>1, <2>2
<1> HIDE DEF ss, S, n
<1>4. PICK f : /\ Offsets(f, ss) /\ Len(F) = f[n]
               /\ \A k \in 1 .. n : \A j \in 1 .. Len(ss[k]) : F[f[k - 1] + j] = ss[k][j]
  BY <1>3, Flatten
<1>5. F \in Seq(S) /\ Len(F) \in Nat
  BY <1>3, Flatten, LenProperties
<1>6. /\ f \in [0 .. n -> Nat] /\ f[0] = 0
      /\ \A k \in 1 .. n : f[k] = f[k - 1] + Len(ss[k])
      /\ \A k, m \in 0 .. n : k <= m => f[k] <= f[m]
  BY <1>3, <1>4, OffsetsGrow DEF Offsets
<1> HIDE DEF F
\* Heading i is heading j of block k.
<1> DEFINE Is(i, k, j) == /\ k \in 1 .. n /\ j \in 1 .. 2 /\ i = f[k - 1] + j /\ i <= f[k]
                          /\ f[k - 1] \in Nat /\ f[k] \in Nat
                          /\ F[i] = ss[k][j] /\ PlaceOf(F[i], rec) = 2 * k + (j - 1)
<1>7. ASSUME NEW k \in 1 .. n, NEW j \in 1 .. Len(ss[k])
      PROVE  Is(f[k - 1] + j, k, j) /\ f[k - 1] + j \in 1 .. Len(F)
  <2>1. k - 1 \in 0 .. n /\ k \in 0 .. n /\ n \in 0 .. n /\ k <= n
    BY <1>1
  <2>2. f[k - 1] \in Nat /\ f[k] \in Nat /\ f[n] \in Nat /\ f[k] <= f[n] /\ f[k] = f[k - 1] + Len(ss[k])
    BY <1>6, <2>1
  <2>3. Len(ss[k]) \in 1 .. 2 /\ Len(F) = f[n]
    BY <1>2, <1>4
  <2> DEFINE a == f[k - 1]
             l == Len(ss[k])
             c == f[n]
  <2>4. a \in Nat /\ c \in Nat /\ l \in 1 .. 2 /\ j \in 1 .. l /\ f[k] = a + l /\ f[k] <= c
    BY <2>2, <2>3
  <2> HIDE DEF a, l, c
  <2>5. j \in 1 .. 2 /\ a + j <= f[k] /\ a + j \in 1 .. c
    BY <2>4
  <2>6. j \in 1 .. 2 /\ f[k - 1] + j <= f[k] /\ f[k - 1] + j \in 1 .. Len(F)
    BY <2>3, <2>5 DEF a, c
  <2>7. F[f[k - 1] + j] = ss[k][j] /\ PlaceOf(ss[k][j], rec) = 2 * k + (j - 1)
    BY <1>2, <1>4
  <2> QED BY <2>2, <2>6, <2>7
<1>8. ASSUME NEW i \in 1 .. Len(F)
      PROVE  \E k \in 1 .. n : \E j \in 1 .. 2 : Is(i, k, j)
  <2>1. i \in 1 .. f[Len(ss)]
    BY <1>3, <1>4
  <2>2. \E k \in 1 .. Len(ss) : \E j \in 1 .. Len(ss[k]) : i = f[k - 1] + j
    <3>1. ss \in Seq(Seq(S)) /\ Offsets(f, ss)
      BY <1>3, <1>4
    <3> QED BY <2>1, <3>1, OffsetsCover
  <2>3. PICK k \in 1 .. n : \E j \in 1 .. Len(ss[k]) : i = f[k - 1] + j
    BY <1>3, <2>2
  <2>4. PICK j \in 1 .. Len(ss[k]) : i = f[k - 1] + j
    BY <2>3
  <2>5. Is(i, k, j)
    BY <1>7, <2>4
  <2>6. j \in 1 .. 2
    BY <2>5
  <2> HIDE DEF Is
  <2> QED BY <2>5, <2>6
<1>9. ASSUME NEW i \in 1 .. Len(F) PROVE PlaceOf(F[i], rec) \in 2 .. 2 * n + 1
  <2>1. PICK k \in 1 .. n : \E j \in 1 .. 2 : Is(i, k, j)
    BY <1>8
  <2>2. PICK j \in 1 .. 2 : Is(i, k, j)
    BY <2>1
  <2>3. PlaceOf(F[i], rec) = 2 * k + (j - 1)
    BY <2>2
  <2> QED BY <1>1, <2>3
<1>10. ASSUME NEW i \in 1 .. Len(F), NEW h \in 1 .. Len(F), i < h
       PROVE  PlaceOf(F[i], rec) < PlaceOf(F[h], rec)
  <2>1. PICK k \in 1 .. n : \E j \in 1 .. 2 : Is(i, k, j)
    BY <1>8
  <2>2. PICK j \in 1 .. 2 : Is(i, k, j)
    BY <2>1
  <2>3. PICK m \in 1 .. n : \E l \in 1 .. 2 : Is(h, m, l)
    BY <1>8
  <2>4. PICK l \in 1 .. 2 : Is(h, m, l)
    BY <2>3
  <2>5. /\ i <= f[k] /\ i = f[k - 1] + j /\ PlaceOf(F[i], rec) = 2 * k + (j - 1)
        /\ h <= f[m] /\ h = f[m - 1] + l /\ PlaceOf(F[h], rec) = 2 * m + (l - 1)
        /\ f[k] \in Nat /\ f[k - 1] \in Nat /\ f[m] \in Nat /\ f[m - 1] \in Nat
    BY <2>2, <2>4
  <2> HIDE DEF Is
  <2>6. k <= m
    <3> SUFFICES ASSUME m < k PROVE FALSE
      BY <1>1
    <3>1. m \in 0 .. n /\ k - 1 \in 0 .. n /\ m <= k - 1
      BY <1>1
    <3>2. f[m] <= f[k - 1]
      BY <1>6, <3>1
    <3>3. i < h /\ j \in 1 .. 2 /\ i = f[k - 1] + j
      BY <1>10, <2>5
    <3>4. h <= f[k - 1]
      <4> DEFINE x == f[k - 1]
                 y == f[m]
      <4>1. h \in Int /\ h <= y /\ y <= x /\ y \in Nat /\ x \in Nat
        <5>1. h \in Int
          BY <1>5
        <5>2. h <= f[m] /\ f[m] \in Nat /\ f[k - 1] \in Nat
          BY <2>5
        <5> QED BY <3>2, <5>1, <5>2
      <4> HIDE DEF x, y
      <4>2. h <= x
        BY <4>1
      <4> QED BY <4>2 DEF x
    <3> DEFINE x == f[k - 1]
    <3>5. x \in Nat /\ j \in 1 .. 2 /\ h \in Int /\ h <= x /\ x + j < h
      <4>1. f[k - 1] \in Nat /\ h \in Int
        BY <1>5, <2>5
      <4>2. f[k - 1] + j < h
        BY <3>3
      <4> QED BY <3>3, <3>4, <4>1, <4>2
    <3> HIDE DEF x
    <3> QED BY <3>5
  <2>7. k = m => j < l
    BY SMTT(30), <1>10, <2>5
  <2>8. k \in Nat /\ m \in Nat /\ j \in 1 .. 2 /\ l \in 1 .. 2
    BY <1>1
  <2>9. 2 * k + (j - 1) < 2 * m + (l - 1)
    BY <2>6, <2>7, <2>8
  <2> QED BY <2>5, <2>9
<1>11. ASSUME NEW b \in Blocks(rec)
       PROVE  /\ \E i \in 1 .. Len(F) : F[i] = Block(b)
              /\ HasFpi(t, rec, b) => \E i \in 1 .. Len(F) : F[i] = Fpi(b)
  <2>1. b \in 1 .. n /\ 1 \in 1 .. Len(ss[b])
    BY <1>1, <1>2
  <2>2. F[f[b - 1] + 1] = Block(b) /\ f[b - 1] + 1 \in 1 .. Len(F)
    BY <1>2, <1>4, <1>7, <2>1
  <2>3. ASSUME HasFpi(t, rec, b) PROVE \E i \in 1 .. Len(F) : F[i] = Fpi(b)
    <3>1. 2 \in 1 .. Len(ss[b]) /\ ss[b][2] = Fpi(b)
      BY <1>2, <2>1, <2>3
    <3>2. F[f[b - 1] + 2] = Fpi(b) /\ f[b - 1] + 2 \in 1 .. Len(F)
      BY <1>4, <1>7, <2>1, <3>1
    <3> QED BY <3>2
  <2> QED BY <2>2, <2>3
<1> QED BY <1>5, <1>9, <1>10, <1>11 DEF F, ss, S, n

\* nav_items lists what is seen, from top to bottom.
LEMMA NavIsSeen ==
  ASSUME NEW t, NEW rec, IsTree(t, rec), NEW nav, nav = nav_items(t, rec)
  PROVE  /\ nav \in Seq(SeenOf(t, rec)) /\ Len(nav) \in Nat \ {0} /\ nav[1] = Header
         /\ \A i \in 1 .. Len(nav) : PlaceOf(nav[i], rec) \in Nat
         /\ \A i, j \in 1 .. Len(nav) : i < j => PlaceOf(nav[i], rec) < PlaceOf(nav[j], rec)
         /\ \A h \in SeenOf(t, rec) : \E i \in 1 .. Len(nav) : nav[i] = h
<1> DEFINE S == SeenOf(t, rec)
           n == Len(rec.blocks)
           F == FlattenSeq(BlocksOf(t, rec))
           one == <<Header>>
           head == one \o F
           tail == IF rec.has_main THEN <<MainData>> ELSE <<>>
           Place(h) == PlaceOf(h, rec)
<1>1. n \in Nat /\ Place(Header) = 0 /\ Place(MainData) = 2 * n + 2
  <2>1. n \in Nat
    BY LenProperties DEF IsTree, Shape
  <2> QED BY <2>1, Places
<1>2. /\ F \in Seq(S)
      /\ \A i \in 1 .. Len(F) : Place(F[i]) \in 2 .. 2 * n + 1
      /\ \A i, j \in 1 .. Len(F) : i < j => Place(F[i]) < Place(F[j])
      /\ \A b \in Blocks(rec) :
           /\ \E i \in 1 .. Len(F) : F[i] = Block(b)
           /\ HasFpi(t, rec, b) => \E i \in 1 .. Len(F) : F[i] = Fpi(b)
  BY BlocksInOrder
<1>3. nav = head \o tail
  BY DEF nav_items, BlocksOf, HeadingsOf, HasFpi
<1>4. one \in Seq(S) /\ Len(one) = 1 /\ one[1] = Header
  BY DEF SeenOf
<1>5. /\ tail \in Seq(S)
      /\ rec.has_main => Len(tail) = 1 /\ tail[1] = MainData
      /\ ~rec.has_main => Len(tail) = 0
  <2>1. CASE rec.has_main
    <3>1. tail = <<MainData>> /\ MainData \in S
      BY <2>1 DEF SeenOf
    <3> HIDE DEF tail, S
    <3> QED BY <2>1, <3>1
  <2>2. CASE ~rec.has_main
    <3>1. tail = <<>>
      BY <2>2
    <3> HIDE DEF tail, S
    <3> QED BY <2>2, <3>1
  <2> QED BY <2>1, <2>2
<1>6. \A h \in S : \/ h = Header
                   \/ \E b \in Blocks(rec) : h = Block(b) \/ (HasFpi(t, rec, b) /\ h = Fpi(b))
                   \/ rec.has_main /\ h = MainData
  BY DEF SeenOf
<1> DEFINE l == Len(F)
           m == Len(tail)
<1> HIDE DEF S, n, F, one, tail
<1>7. l \in Nat /\ m \in 0 .. 1 /\ (m = 1 <=> rec.has_main)
  <2>1. l \in Nat
    BY <1>2, LenProperties
  <2>2. (rec.has_main /\ m = 1) \/ (~rec.has_main /\ m = 0)
    BY <1>5
  <2> QED BY <2>1, <2>2
<1>8. /\ head \in Seq(S) /\ Len(head) = 1 + l
      /\ \A i \in 1 .. 1 + l : head[i] = IF i <= 1 THEN one[i] ELSE F[i - 1]
  <2>1. /\ one \o F \in Seq(S) /\ Len(one \o F) = Len(one) + Len(F)
        /\ \A i \in 1 .. Len(one) + Len(F) :
             (one \o F)[i] = IF i <= Len(one) THEN one[i] ELSE F[i - Len(one)]
    <3>1. one \in Seq(S) /\ F \in Seq(S)
      BY <1>2, <1>4
    <3> QED BY <3>1, ConcatProperties
  <2>2. Len(one) = 1
    BY <1>4
  <2> QED BY <2>1, <2>2
<1> HIDE DEF head
<1>9. /\ nav \in Seq(S) /\ Len(nav) = 1 + l + m
      /\ \A i \in 1 .. 1 + l + m : nav[i] = IF i <= 1 + l THEN head[i] ELSE tail[i - (1 + l)]
  <2>1. /\ head \o tail \in Seq(S) /\ Len(head \o tail) = Len(head) + Len(tail)
        /\ \A i \in 1 .. Len(head) + Len(tail) :
             (head \o tail)[i] = IF i <= Len(head) THEN head[i] ELSE tail[i - Len(head)]
    BY <1>5, <1>8, ConcatProperties
  <2> QED BY <1>3, <1>8, <2>1
<1> HIDE DEF l, m
<1>10. nav[1] = Header
  <2>1. 1 \in 1 .. 1 + l + m /\ 1 <= 1 + l /\ 1 \in 1 .. 1 + l
    BY <1>7
  <2>2. nav[1] = head[1]
    BY <1>9, <2>1
  <2>3. head[1] = one[1]
    BY <1>8, <2>1
  <2> QED BY <1>4, <2>2, <2>3
<1>11. ASSUME NEW i \in 1 .. l PROVE 1 + i \in 1 .. 1 + l + m /\ nav[1 + i] = F[i]
  <2> DEFINE k == 1 + i
  <2>1. k \in 1 .. 1 + l + m /\ k <= 1 + l /\ k \in 1 .. 1 + l /\ ~(k <= 1) /\ k - 1 = i
    BY <1>7
  <2> HIDE DEF k
  <2>2. nav[k] = head[k]
    BY <1>9, <2>1
  <2>3. head[k] = F[k - 1]
    BY <1>8, <2>1
  <2>4. k \in 1 .. 1 + l + m /\ nav[k] = F[i]
    BY <2>1, <2>2, <2>3
  <2> QED BY <2>4 DEF k
<1>12. ASSUME m = 1 PROVE 2 + l \in 1 .. 1 + l + m /\ nav[2 + l] = MainData
  <2> DEFINE k == 2 + l
  <2>1. k \in 1 .. 1 + l + m /\ ~(k <= 1 + l) /\ k - (1 + l) = 1
    BY <1>7, <1>12
  <2> HIDE DEF k
  <2>2. nav[k] = tail[k - (1 + l)]
    BY <1>9, <2>1
  <2>3. nav[k] = MainData
    BY <1>5, <1>7, <1>12, <2>1, <2>2
  <2> QED BY <2>1, <2>3 DEF k
\* Every heading is the first, one of a block, or the last.
<1>13. ASSUME NEW i \in 1 .. 1 + l + m
       PROVE  \/ i = 1 /\ Place(nav[i]) = 0
              \/ /\ i - 1 \in 1 .. l /\ nav[i] = F[i - 1] /\ Place(nav[i]) \in 2 .. 2 * n + 1
              \/ i = 2 + l /\ m = 1 /\ Place(nav[i]) = 2 * n + 2
  <2>1. i = 1 \/ (i - 1 \in 1 .. l /\ 1 + (i - 1) = i) \/ (i = 2 + l /\ m = 1)
    BY <1>7
  <2>2. CASE i = 1
    BY <1>1, <1>10, <2>2
  <2>3. CASE i - 1 \in 1 .. l /\ 1 + (i - 1) = i
    <3> DEFINE k == i - 1
    <3>1. k \in 1 .. l /\ 1 + k = i
      BY <2>3
    <3> HIDE DEF k
    <3>2. nav[1 + k] = F[k]
      BY <1>11, <3>1
    <3>3. k \in 1 .. Len(F)
      BY <3>1 DEF l
    <3>4. Place(F[k]) \in 2 .. 2 * n + 1
      BY <1>2, <3>3
    <3> QED BY <3>1, <3>2, <3>4 DEF k
  <2>4. CASE i = 2 + l /\ m = 1
    BY <1>1, <1>12, <2>4
  <2> QED BY <2>1, <2>2, <2>3, <2>4
<1>14. ASSUME NEW i \in 1 .. 1 + l + m PROVE Place(nav[i]) \in Nat
  BY <1>1, <1>13
<1>15. ASSUME NEW i \in 1 .. 1 + l + m, NEW j \in 1 .. 1 + l + m, i < j
       PROVE  Place(nav[i]) < Place(nav[j])
  <2> DEFINE p == Place(nav[i])
             q == Place(nav[j])
  <2>1. CASE i - 1 \in 1 .. l /\ nav[i] = F[i - 1] /\ j - 1 \in 1 .. l /\ nav[j] = F[j - 1]
    <3>1. i - 1 < j - 1
      BY <1>15
    <3>2. i - 1 \in 1 .. Len(F) /\ j - 1 \in 1 .. Len(F)
      BY <2>1 DEF l
    <3>3. Place(F[i - 1]) < Place(F[j - 1])
      BY <1>2, <3>1, <3>2
    <3> QED BY <2>1, <3>3
  <2>2. \/ i = 1 /\ p = 0
        \/ i - 1 \in 1 .. l /\ nav[i] = F[i - 1] /\ p \in 2 .. 2 * n + 1
        \/ i = 2 + l /\ p = 2 * n + 2
    BY <1>13
  <2>3. \/ j = 1 /\ q = 0
        \/ j - 1 \in 1 .. l /\ nav[j] = F[j - 1] /\ q \in 2 .. 2 * n + 1
        \/ j = 2 + l /\ q = 2 * n + 2
    BY <1>13
  <2> HIDE DEF p, q, Place
  <2>4. p < q \/ (i - 1 \in 1 .. l /\ nav[i] = F[i - 1] /\ j - 1 \in 1 .. l /\ nav[j] = F[j - 1])
    BY <1>1, <1>7, <1>15, <2>2, <2>3
  <2> QED BY <2>1, <2>4 DEF p, q
<1>16. ASSUME NEW h \in S PROVE \E i \in 1 .. 1 + l + m : nav[i] = h
  <2>1. CASE h = Header
    <3>1. 1 \in 1 .. 1 + l + m
      BY <1>7
    <3> QED BY <1>10, <2>1, <3>1
  <2>2. CASE \E b \in Blocks(rec) : h = Block(b) \/ (HasFpi(t, rec, b) /\ h = Fpi(b))
    <3>1. \E i \in 1 .. l : F[i] = h
      BY <1>2, <2>2 DEF l
    <3>2. PICK i \in 1 .. l : F[i] = h
      BY <3>1
    <3> QED BY <1>11, <3>2
  <2>3. CASE rec.has_main /\ h = MainData
    BY <1>7, <1>12, <2>3
  <2> QED BY <1>6, <2>1, <2>2, <2>3
<1>17. Len(nav) \in Nat \ {0}
  BY <1>7, <1>9
<1> QED BY <1>9, <1>10, <1>14, <1>15, <1>16, <1>17 DEF S

\* The same in terms of Count.
LEMMA NavItems ==
  ASSUME NEW t, NEW rec, IsTree(t, rec)
  PROVE  /\ Count(t, rec) \in Nat \ {0} /\ nav_items(t, rec)[1] = Header
         /\ \A i \in 1 .. Count(t, rec) :
              nav_items(t, rec)[i] \in SeenOf(t, rec) /\ PlaceOf(nav_items(t, rec)[i], rec) \in Nat
         /\ \A i, j \in 1 .. Count(t, rec) :
              i < j => PlaceOf(nav_items(t, rec)[i], rec) < PlaceOf(nav_items(t, rec)[j], rec)
         /\ \A h \in SeenOf(t, rec) : \E i \in 1 .. Count(t, rec) : nav_items(t, rec)[i] = h
<1> DEFINE nav == nav_items(t, rec)
           S == SeenOf(t, rec)
<1>1. Count(t, rec) = Len(nav)
  BY DEF Count
<1> HIDE DEF nav
<1>2. /\ nav \in Seq(S) /\ Len(nav) \in Nat \ {0} /\ nav[1] = Header
      /\ \A i \in 1 .. Len(nav) : PlaceOf(nav[i], rec) \in Nat
      /\ \A i, j \in 1 .. Len(nav) : i < j => PlaceOf(nav[i], rec) < PlaceOf(nav[j], rec)
      /\ \A h \in S : \E i \in 1 .. Len(nav) : nav[i] = h
  <2>1. nav = nav_items(t, rec)
    BY DEF nav
  <2> QED BY <2>1, NavIsSeen
<1> HIDE DEF S
<1>3. \A i \in 1 .. Len(nav) : nav[i] \in S
  BY <1>2, LenProperties
<1> QED BY <1>1, <1>2, <1>3 DEF nav, S

\* A heading is where as many headings are above it as its index says.
LEMMA IndexIsRank ==
  ASSUME NEW t, NEW rec, IsTree(t, rec), NEW i \in 1 .. Count(t, rec)
  PROVE  Cardinality({h \in SeenOf(t, rec) : PlaceOf(h, rec) < PlaceOf(nav_items(t, rec)[i], rec)})
           = i - 1
<1> DEFINE nav == nav_items(t, rec)
           Place(h) == PlaceOf(h, rec)
           S == SeenOf(t, rec)
           A == {h \in S : Place(h) < Place(nav[i])}
           D == 1 .. i - 1
           g == [j \in D |-> nav[j]]
<1> DEFINE n == Len(nav)
<1>1. /\ \A j \in 1 .. n : nav[j] \in S /\ Place(nav[j]) \in Nat
      /\ n \in Nat /\ n = Count(t, rec)
      /\ \A j, k \in 1 .. n : j < k => Place(nav[j]) < Place(nav[k])
      /\ \A h \in S : \E j \in 1 .. n : nav[j] = h
  <2>1. Count(t, rec) = n
    BY DEF Count
  <2>2. /\ Count(t, rec) \in Nat \ {0}
        /\ \A j \in 1 .. Count(t, rec) : nav[j] \in S /\ Place(nav[j]) \in Nat
        /\ \A j, k \in 1 .. Count(t, rec) : j < k => Place(nav[j]) < Place(nav[k])
        /\ \A h \in S : \E j \in 1 .. Count(t, rec) : nav[j] = h
    BY NavItems
  <2> HIDE DEF n, S, Place, nav
  <2> QED BY <2>1, <2>2
<1> HIDE DEF Place, S, n, nav
<1>2. i \in Nat /\ i - 1 \in Nat /\ D \subseteq 1 .. n /\ \A j \in D : j < i
  BY <1>1 DEF Count
<1>3. IsFiniteSet(D) /\ Cardinality(D) = i - 1
  BY <1>2, FS_Interval
<1>4. g \in [D -> A] /\ \A j \in D : g[j] = nav[j]
  <2>1. ASSUME NEW j \in D PROVE nav[j] \in A
    <3>1. j \in 1 .. n /\ j < i /\ i \in 1 .. n
      BY <1>1, <1>2
    <3> QED BY <1>1, <3>1
  <2> QED BY <2>1
<1>5. \A j, k \in D : g[j] = g[k] => j = k
  <2> SUFFICES ASSUME NEW j \in D, NEW k \in D, j # k PROVE nav[j] # nav[k]
    BY <1>4
  <2>1. j \in 1 .. n /\ k \in 1 .. n /\ (j < k \/ k < j)
    BY <1>2
  <2>2. Place(nav[j]) # Place(nav[k])
    BY <1>1, <2>1
  <2> QED BY <2>2
<1>6. ASSUME NEW h \in A PROVE \E j \in D : g[j] = h
  <2>1. PICK j \in 1 .. n : nav[j] = h
    BY <1>1
  <2>2. Place(nav[j]) < Place(nav[i])
    BY <2>1
  <2>3. j < i
    <3> SUFFICES ASSUME i = j \/ i < j PROVE FALSE
      BY <1>2
    <3>1. Place(nav[i]) <= Place(nav[j]) /\ Place(nav[i]) \in Nat /\ Place(nav[j]) \in Nat
      BY <1>1
    <3> QED BY <2>2, <3>1
  <2>4. j \in D
    BY <1>2, <2>3
  <2> QED BY <1>4, <2>1, <2>4
<1> HIDE DEF A, D, g
<1>7. g \in Bijection(D, A)
  BY <1>4, <1>5, <1>6 DEF Bijection, Injection, Surjection, IsInjective
<1>8. Cardinality(A) = Cardinality(D)
  BY <1>3, <1>7, FS_Bijection DEF ExistsBijection
<1> QED BY <1>3, <1>8 DEF A, S, Place, nav

\* What happens below a heading does not move it.
LEMMA IndexIsKept ==
  ASSUME NEW t, NEW u, NEW rec, IsTree(t, rec), IsTree(u, rec),
         NEW i \in 1 .. Count(t, rec), NEW item, item = nav_items(t, rec)[i],
         item \in SeenOf(u, rec),
         \A h : PlaceOf(h, rec) < PlaceOf(item, rec) => (h \in SeenOf(t, rec) <=> h \in SeenOf(u, rec))
  PROVE  i \in 1 .. Count(u, rec) /\ nav_items(u, rec)[i] = item
<1>1. PICK j \in 1 .. Count(u, rec) : nav_items(u, rec)[j] = item
  BY NavItems
<1>2. /\ Cardinality({h \in SeenOf(t, rec) : PlaceOf(h, rec) < PlaceOf(item, rec)}) = i - 1
      /\ Cardinality({h \in SeenOf(u, rec) : PlaceOf(h, rec) < PlaceOf(item, rec)}) = j - 1
  BY <1>1, IndexIsRank
<1>3. {h \in SeenOf(t, rec) : PlaceOf(h, rec) < PlaceOf(item, rec)}
        = {h \in SeenOf(u, rec) : PlaceOf(h, rec) < PlaceOf(item, rec)}
  OBVIOUS
<1>4. i - 1 = j - 1
  BY <1>2, <1>3
<1>5. i = j
  BY <1>4
<1> QED BY <1>1, <1>5

-----------------------------------------------------------------------------
(* The trees there are.                                                    *)

LEMMA RecordTypes ==
  /\ Shapes \cup {NoRecord} \subseteq Shape
  /\ \A rec \in Shapes : rec # NoRecord
<1>1. Shapes \subseteq Shape /\ \A rec \in Shapes : rec # NoRecord
  BY ShapesAssumption DEF RecordShape, Shape, NoRecord
<1>2. NoRecord \in Shape
  BY DEF NoRecord, Shape
<1> QED BY <1>1, <1>2

LEMMA NewTree ==
  ASSUME NEW rec \in Shape
  PROVE  IsTree(new_for(rec), rec) /\ new_for(rec).cursor \in 0 .. Count(new_for(rec), rec) - 1
<1> DEFINE s == [i \in Blocks(rec) |-> [block |-> FALSE, fpi |-> FALSE]]
<1>1. Len(rec.blocks) \in Nat
  BY LenProperties DEF Shape
<1>2. s \in Seq(State) /\ Len(s) = Len(rec.blocks)
  BY <1>1 DEF Blocks, State
<1>3. new_for(rec) = [header_expanded |-> FALSE, block_states |-> s,
                      main_expanded |-> FALSE, cursor |-> 0]
  BY DEF new_for
<1> HIDE DEF s
<1>4. IsTree(new_for(rec), rec) /\ new_for(rec).cursor = 0
  BY <1>2, <1>3 DEF IsTree, Tree
<1>5. Count(new_for(rec), rec) \in Nat \ {0}
  BY SMTT(30), <1>4, NavItems
<1> QED BY <1>4, <1>5

\* The headings do not depend on the cursor.
LEMMA CursorMoves ==
  ASSUME NEW t, NEW rec, IsTree(t, rec), NEW c \in Nat, NEW u, u = [t EXCEPT !.cursor = c]
  PROVE  /\ IsTree(u, rec) /\ u.cursor = c
         /\ nav_items(u, rec) = nav_items(t, rec) /\ Count(u, rec) = Count(t, rec)
         /\ SeenOf(u, rec) = SeenOf(t, rec)
<1>1. u.block_states = t.block_states /\ u.cursor = c /\ u \in Tree
  BY DEF IsTree, Tree
<1> QED BY <1>1 DEF IsTree, nav_items, Count, SeenOf, HasFpi

\* A heading is opened or closed under the cursor, which stays on it.
LEMMA ToggledTree ==
  ASSUME NEW t, NEW rec, IsTree(t, rec), t.cursor \in 0 .. Count(t, rec) - 1,
         NEW item, item = Under(t, rec), NEW u, u = Toggled(t, item)
  PROVE  /\ IsTree(u, rec) /\ u.cursor = t.cursor
         /\ u.cursor \in 0 .. Count(u, rec) - 1 /\ Under(u, rec) = item
<1>1. Count(t, rec) \in Nat /\ t.cursor + 1 \in 1 .. Count(t, rec)
  <2>1. Count(t, rec) \in Nat
    BY NavItems
  <2> QED BY <2>1
<1>2. item \in SeenOf(t, rec)
  BY <1>1, NavItems DEF Under
<1>3. /\ IsTree(u, rec) /\ u.cursor = t.cursor /\ item \in SeenOf(u, rec)
      /\ \A h : PlaceOf(h, rec) < PlaceOf(item, rec) => (h \in SeenOf(t, rec) <=> h \in SeenOf(u, rec))
  <2>1. t \in Tree /\ rec \in Shape /\ Len(t.block_states) = Len(rec.blocks)
        /\ Len(rec.blocks) \in Nat /\ Blocks(rec) = 1 .. Len(rec.blocks)
    BY LenProperties DEF IsTree, Shape, Blocks
  <2>2. CASE item = Header \/ item = MainData
    <3>1. u \in Tree /\ u.block_states = t.block_states /\ u.cursor = t.cursor
      <4>1. \/ u = [t EXCEPT !.header_expanded = ~@]
            \/ u = [t EXCEPT !.main_expanded = ~@]
        BY <2>2 DEF Toggled, Header, MainData
      <4>2. (~t.header_expanded) \in BOOLEAN /\ (~t.main_expanded) \in BOOLEAN
        OBVIOUS
      <4> QED BY <2>1, <4>1, <4>2 DEF Tree
    <3>2. SeenOf(u, rec) = SeenOf(t, rec)
      BY <3>1 DEF SeenOf, HasFpi
    <3> QED BY <1>2, <2>1, <3>1, <3>2 DEF IsTree
  <2>3. ASSUME NEW i \in Blocks(rec), item = Fpi(i)
        PROVE  /\ IsTree(u, rec) /\ u.cursor = t.cursor /\ item \in SeenOf(u, rec)
               /\ SeenOf(u, rec) = SeenOf(t, rec)
    <3> DEFINE s == [t.block_states EXCEPT ![i].fpi = ~@]
    <3>1. u = [t EXCEPT !.block_states = s]
      BY <2>3 DEF Toggled, Fpi
    <3>2. /\ s \in Seq(State) /\ Len(s) = Len(t.block_states)
          /\ \A j \in Blocks(rec) : s[j].block = t.block_states[j].block
      <4>1. t.block_states \in Seq(State) /\ i \in 1 .. Len(t.block_states)
        BY <2>1 DEF Tree
      <4>2. [t.block_states[i] EXCEPT !.fpi = ~@] \in State
        <5>1. t.block_states[i] \in State /\ (~t.block_states[i].fpi) \in BOOLEAN
          BY <4>1
        <5> QED BY <5>1 DEF State
      <4> QED BY <2>1, <4>1, <4>2
    <3> HIDE DEF s
    <3>3. u \in Tree /\ u.block_states = s /\ u.cursor = t.cursor
      BY <2>1, <3>1, <3>2 DEF Tree
    <3>4. SeenOf(u, rec) = SeenOf(t, rec)
      BY <3>2, <3>3 DEF SeenOf, HasFpi
    <3> QED BY <1>2, <2>1, <3>2, <3>3, <3>4 DEF IsTree
  <2>4. ASSUME NEW i \in Blocks(rec), item = Block(i)
        PROVE  /\ IsTree(u, rec) /\ u.cursor = t.cursor /\ item \in SeenOf(u, rec)
               /\ \A h : PlaceOf(h, rec) < 2 * i => (h \in SeenOf(t, rec) <=> h \in SeenOf(u, rec))
    <3> DEFINE s == [t.block_states EXCEPT ![i] = ToggledBlock(@)]
    <3>1. u = [t EXCEPT !.block_states = s]
      BY <2>4 DEF Toggled, Block
    <3>2. /\ s \in Seq(State) /\ Len(s) = Len(t.block_states)
          /\ \A j \in Blocks(rec) : j # i => s[j] = t.block_states[j]
      <4>1. t.block_states \in Seq(State) /\ i \in 1 .. Len(t.block_states)
        BY <2>1 DEF Tree
      <4>2. ToggledBlock(t.block_states[i]) \in State
        <5>1. t.block_states[i] \in State /\ (~t.block_states[i].block) \in BOOLEAN
          BY <4>1
        <5>2. t.block_states[i].fpi \in BOOLEAN
          BY <5>1 DEF State
        <5>3. (IF t.block_states[i].block THEN FALSE ELSE t.block_states[i].fpi) \in BOOLEAN
          BY <5>2
        <5> QED BY <5>1, <5>3 DEF State, ToggledBlock
      <4> QED BY <2>1, <4>1, <4>2
    <3> HIDE DEF s
    <3>3. u \in Tree /\ u.block_states = s /\ u.cursor = t.cursor
      BY <2>1, <3>1, <3>2 DEF Tree
    <3>4. ASSUME NEW h, PlaceOf(h, rec) < 2 * i
          PROVE  h \in SeenOf(t, rec) <=> h \in SeenOf(u, rec)
      <4>1. \A j \in Blocks(rec) : j # i => (HasFpi(t, rec, j) <=> HasFpi(u, rec, j))
        BY <3>2, <3>3 DEF HasFpi
      <4>2. h # Fpi(i)
        <5>1. PlaceOf(Fpi(i), rec) = 2 * i + 1 /\ i \in Nat
          BY <2>1, Places
        <5> QED BY <3>4, <5>1
      <4> QED BY <4>1, <4>2 DEF SeenOf
    <3>5. item \in SeenOf(u, rec)
      BY <2>4 DEF SeenOf
    <3> QED BY <2>1, <3>2, <3>3, <3>4, <3>5 DEF IsTree
  <2>5. \/ item = Header \/ item = MainData
        \/ \E i \in Blocks(rec) : item = Block(i) \/ item = Fpi(i)
    BY <1>2 DEF SeenOf
  <2> QED BY <2>2, <2>3, <2>4, <2>5, Places
<1>4. t.cursor + 1 \in 1 .. Count(u, rec) /\ nav_items(u, rec)[t.cursor + 1] = item
  BY <1>1, <1>3, IndexIsKept DEF Under
<1>5. Count(u, rec) \in Nat /\ t.cursor \in Nat
  BY <1>3, NavItems DEF IsTree, Tree
<1> QED BY <1>3, <1>4, <1>5 DEF Under

-----------------------------------------------------------------------------
(* The lines.                                                              *)

\* What LineOf defines by recursion: the line that each heading up to k is on.
LineFn(k, t, rec, g) ==
  g = [j \in 0 .. k |-> IF j = 0 THEN 0 ELSE g[j - 1] + 1 + Fields(nav_items(t, rec)[j], t, rec)]

LEMMA LineIsLine ==
  ASSUME NEW t, NEW rec, NEW k \in Nat
  PROVE  \E g : LineFn(k, t, rec, g) /\ LineOf(k, t, rec) = g[k]
<1> DEFINE F(j) == Fields(nav_items(t, rec)[j], t, rec)
           T == {m \in Nat : \E g : LineFn(m, t, rec, g)}
           c == CHOOSE g : LineFn(k, t, rec, g)
<1>1. 0 \in T
  <2>1. LineFn(0, t, rec, [j \in 0 .. 0 |-> IF j = 0 THEN 0 ELSE 0])
    BY DEF LineFn
  <2> QED BY <2>1
<1>2. ASSUME NEW m \in 0 .. k - 1, m \in T PROVE m + 1 \in T
  <2>1. PICK g : LineFn(m, t, rec, g)
    BY <1>2
  <2> DEFINE h == [j \in 0 .. m + 1 |-> IF j = 0 THEN 0
                                        ELSE IF j = m + 1 THEN g[m] + 1 + F(m + 1) ELSE g[j]]
  <2> HIDE DEF F
  <2>2. \A j \in 0 .. m : g[j] = IF j = 0 THEN 0 ELSE g[j - 1] + 1 + F(j)
    BY <2>1 DEF LineFn, F
  <2>3. ASSUME NEW j \in 0 .. m + 1 PROVE h[j] = IF j = 0 THEN 0 ELSE h[j - 1] + 1 + F(j)
    <3>1. CASE j = 0
      BY <3>1
    <3>2. CASE j = m + 1
      <4>1. m \in 0 .. m + 1 /\ m # m + 1 /\ m \in 0 .. m /\ j # 0 /\ j - 1 = m
        BY <3>2
      <4>2. h[m] = g[m]
        BY <2>2, <4>1
      <4> QED BY <3>2, <4>1, <4>2
    <3>3. CASE j # 0 /\ j # m + 1
      <4>1. j \in 0 .. m /\ j - 1 \in 0 .. m /\ j - 1 \in 0 .. m + 1 /\ j - 1 # m + 1
        BY <3>3
      <4>2. h[j - 1] = g[j - 1]
        BY <2>2, <4>1
      <4> QED BY <2>2, <3>3, <4>1, <4>2
    <3> QED BY <3>1, <3>2, <3>3
  <2>4. h = [j \in 0 .. m + 1 |-> IF j = 0 THEN 0 ELSE h[j - 1] + 1 + F(j)]
    BY <2>3
  <2>5. LineFn(m + 1, t, rec, h)
    BY <2>4 DEF LineFn, F
  <2> QED BY <2>5
<1> HIDE DEF T
<1>3. \A m \in 0 .. k : m \in T
  BY <1>1, <1>2, UpTo
<1>4. k \in T
  BY <1>3
<1>5. LineFn(k, t, rec, c)
  BY <1>4 DEF T
<1>6. LineOf(k, t, rec) = c[k]
  BY DEF LineOf, LineFn
<1> QED BY <1>5, <1>6

LEMMA FieldsType ==
  ASSUME NEW t, NEW rec \in Shapes, IsTree(t, rec), NEW i \in 1 .. Count(t, rec)
  PROVE  Fields(nav_items(t, rec)[i], t, rec) \in Nat
<1> DEFINE item == nav_items(t, rec)[i]
<1>1. item \in SeenOf(t, rec)
  BY NavItems
<1> HIDE DEF item
<1>2. rec \in [blocks : Seq(BlockShape), has_main : BOOLEAN, main_fields : Nat]
  BY ShapesAssumption DEF RecordShape
<1>3. /\ Header[1] = "Header" /\ MainData[1] = "MainData" /\ Header # MainData
      /\ \A j : /\ Block(j)[1] = "Block" /\ Block(j)[2] = j /\ Block(j) # Header /\ Block(j) # MainData
              /\ Fpi(j)[1] = "BlockFpi" /\ Fpi(j)[2] = j /\ Fpi(j) # Header /\ Fpi(j) # MainData
  BY DEF Header, MainData, Block, Fpi
<1>4. ASSUME item = Header PROVE Fields(item, t, rec) \in Nat
  <2>1. Fields(item, t, rec) = IF t.header_expanded THEN 9 ELSE 0
    BY <1>4, <1>3, Zenon DEF Fields
  <2> QED BY <2>1
<1>5. ASSUME item = MainData PROVE Fields(item, t, rec) \in Nat
  <2>1. Fields(item, t, rec) = IF t.main_expanded THEN 1 + rec.main_fields ELSE 0
    BY <1>5 DEF Fields, Header, MainData
  <2> QED BY <1>2, <2>1
<1>6. ASSUME NEW j \in Blocks(rec), item = Block(j) PROVE Fields(item, t, rec) \in Nat
  <2>1. rec.blocks[j] \in BlockShape
    BY <1>2 DEF Blocks
  <2>2. Fields(item, t, rec)
          = IF t.block_states[j].block
              THEN 4 + (IF rec.blocks[j].has_data THEN 1 + rec.blocks[j].data_fields ELSE 0)
              ELSE 0
    BY <1>6, <1>3, Zenon DEF Fields
  <2>3. rec.blocks[j].data_fields \in Nat
    BY <2>1 DEF BlockShape
  <2> QED BY <2>2, <2>3
<1>7. ASSUME NEW j \in Blocks(rec), item = Fpi(j) PROVE Fields(item, t, rec) \in Nat
  <2>1. Fields(item, t, rec) = IF t.block_states[j].fpi THEN 5 ELSE 0
    BY <1>7, <1>3, Zenon DEF Fields
  <2> QED BY <2>1
<1>8. \/ item = Header \/ item = MainData
      \/ \E j \in Blocks(rec) : item = Block(j) \/ item = Fpi(j)
  BY <1>1 DEF SeenOf
<1>9. Fields(item, t, rec) \in Nat
  BY <1>4, <1>5, <1>6, <1>7, <1>8
<1> QED BY <1>9 DEF item

\* A heading is further down than the one before it.
LEMMA LinesGrow ==
  ASSUME NEW t, NEW rec \in Shapes, IsTree(t, rec),
         NEW k \in 0 .. Count(t, rec), NEW m \in 0 .. Count(t, rec), k < m
  PROVE  LineOf(k, t, rec) \in Nat /\ LineOf(k, t, rec) < LineOf(m, t, rec)
<1> DEFINE F(j) == Fields(nav_items(t, rec)[j], t, rec)
<1>1. Count(t, rec) \in Nat
  BY NavItems
<1>2. k \in Nat /\ m \in Nat
  BY <1>1
<1>3. PICK g : LineFn(k, t, rec, g) /\ LineOf(k, t, rec) = g[k]
  BY <1>2, LineIsLine
<1>4. PICK h : LineFn(m, t, rec, h) /\ LineOf(m, t, rec) = h[m]
  BY <1>2, LineIsLine
<1>5. \A j \in 1 .. m : F(j) \in Nat
  BY <1>1, <1>2, FieldsType
<1> HIDE DEF F
<1>6. \A j \in 0 .. k : g[j] = IF j = 0 THEN 0 ELSE g[j - 1] + 1 + F(j)
  BY <1>3 DEF LineFn, F
<1>7. \A j \in 0 .. m : h[j] = IF j = 0 THEN 0 ELSE h[j - 1] + 1 + F(j)
  BY <1>4 DEF LineFn, F
<1> DEFINE T == {j \in 0 .. m : /\ h[j] \in Nat
                                /\ j <= k => g[j] = h[j]
                                /\ k < j => h[k] \in Nat /\ h[k] < h[j]}
<1>8. 0 \in T
  <2>1. 0 \in 0 .. k /\ 0 \in 0 .. m /\ ~(k < 0)
    BY <1>2
  <2>2. g[0] = 0 /\ h[0] = 0
    BY <1>6, <1>7, <2>1
  <2> QED BY <2>1, <2>2
<1>9. ASSUME NEW j \in 0 .. m - 1, j \in T PROVE j + 1 \in T
  <2> DEFINE i == j + 1
  <2>1. i \in 1 .. m /\ i \in 0 .. m /\ i # 0 /\ i - 1 = j /\ j \in Nat
    BY <1>2
  <2> HIDE DEF i
  <2>2. h[i] = h[j] + 1 + F(i) /\ F(i) \in Nat /\ h[j] \in Nat
    BY <1>5, <1>7, <1>9, <2>1
  <2>3. h[i] \in Nat /\ h[j] < h[i]
    BY <2>2
  <2>4. ASSUME i <= k PROVE g[i] = h[i]
    <3>1. i \in 0 .. k /\ j <= k
      BY <1>2, <2>1, <2>4
    <3>2. g[j] = h[j]
      BY <1>9, <3>1
    <3> QED BY <1>6, <2>1, <2>2, <3>1, <3>2
  <2>5. ASSUME k < i PROVE h[k] \in Nat /\ h[k] < h[i]
    <3>1. k = j \/ k < j
      BY <1>2, <2>1, <2>5
    <3>2. CASE k = j
      BY <2>2, <2>3, <3>2
    <3>3. CASE k < j
      <4>1. h[k] \in Nat /\ h[k] < h[j]
        BY <1>9, <3>3
      <4> QED BY <2>2, <2>3, <4>1
    <3> QED BY <3>1, <3>2, <3>3
  <2>6. i \in T
    BY <2>1, <2>3, <2>4, <2>5
  <2> QED BY <2>6 DEF i
<1> HIDE DEF T
<1>10. \A j \in 0 .. m : j \in T
  BY <1>2, <1>8, <1>9, UpTo
<1>11. k \in T /\ m \in T
  BY <1>2, <1>10
<1>12. g[k] = h[k] /\ h[k] \in Nat /\ h[k] < h[m]
  <2>1. k <= k
    BY <1>2
  <2> QED BY <1>11, <2>1 DEF T
<1> QED BY <1>3, <1>4, <1>12

-----------------------------------------------------------------------------
(* The invariant.                                                          *)

\* The selected record, its own tree, and a cursor that is on a heading.
TreeInv == record \in Shapes \cup {NoRecord} /\ IsTree(tree, record) /\ CursorOnHeading

\* The last frame is of the tree as it is.
FrameInv ==
  frame.height > 0 /\ ~frame.auto /\ record # NoRecord =>
    /\ frame.lines = Lines(tree, record)
    /\ detail_scroll <= cursor_line(tree, record)
    /\ cursor_line(tree, record) < detail_scroll + frame.height

DetailInv == TreeInv /\ detail_scroll \in Nat /\ FrameInv

LEMMA CountType ==
  ASSUME TreeInv
  PROVE  /\ Count(tree, record) \in Nat \ {0} /\ tree.cursor \in Nat
         /\ tree.cursor + 1 \in 1 .. Count(tree, record)
<1>1. Count(tree, record) \in Nat \ {0}
  BY NavItems DEF TreeInv
<1> QED BY <1>1 DEF TreeInv, CursorOnHeading

\* What the two cursor keys do.
LEMMA KeyMoves ==
  ASSUME TreeInv, move_up \/ move_down
  PROVE  \E c \in 0 .. Count(tree, record) - 1 :
           /\ tree' = [tree EXCEPT !.cursor = c] /\ record' = record
           /\ move_up => c = IF tree.cursor > 0 THEN tree.cursor - 1 ELSE tree.cursor
           /\ move_down => c = IF tree.cursor + 1 < Count(tree, record) THEN tree.cursor + 1
                               ELSE tree.cursor
<1>1. Count(tree, record) \in Nat \ {0} /\ tree.cursor \in 0 .. Count(tree, record) - 1
  BY CountType DEF TreeInv, CursorOnHeading
<1>2. tree \in Tree
  BY DEF TreeInv, IsTree
<1> DEFINE up == IF tree.cursor > 0 THEN tree.cursor - 1 ELSE tree.cursor
           down == IF tree.cursor + 1 < Count(tree, record) THEN tree.cursor + 1 ELSE tree.cursor
<1>3. up \in 0 .. Count(tree, record) - 1 /\ down \in 0 .. Count(tree, record) - 1
  BY <1>1
<1>4. move_up => tree' = [tree EXCEPT !.cursor = up] /\ record' = record
  BY DEF move_up, CanMoveUp
<1>5. move_down => tree' = [tree EXCEPT !.cursor = down] /\ record' = record
  BY DEF move_down, CanMoveDown
<1> HIDE DEF up, down
<1>6. move_up /\ move_down => up = down
  BY <1>2, <1>4, <1>5 DEF Tree
<1>7. CASE move_up
  BY <1>3, <1>4, <1>6, <1>7 DEF up, down
<1>8. CASE ~move_up /\ move_down
  BY <1>3, <1>5, <1>8 DEF down
<1> QED BY <1>7, <1>8

LEMMA NextTreeInv ==
  ASSUME TreeInv, [Next]_vars
  PROVE  TreeInv'
<1>1. CASE move_up \/ move_down
  <2>1. PICK c \in 0 .. Count(tree, record) - 1 :
          tree' = [tree EXCEPT !.cursor = c] /\ record' = record
    BY <1>1, KeyMoves
  <2>2. c \in Nat /\ IsTree(tree, record)
    BY CountType DEF TreeInv
  <2>3. /\ IsTree(tree', record) /\ tree'.cursor = c
        /\ Count(tree', record) = Count(tree, record)
    BY <2>1, <2>2, CursorMoves
  <2> QED BY <2>1, <2>3 DEF TreeInv, CursorOnHeading
<1>2. CASE toggle
  <2>1. Count(tree, record) \in Nat /\ tree.cursor \in 0 .. Count(tree, record) - 1
    BY CountType DEF TreeInv, CursorOnHeading
  <2>2. tree' = Toggled(tree, Under(tree, record)) /\ record' = record
    BY <1>2, <2>1 DEF toggle
  <2>3. IsTree(tree', record) /\ tree'.cursor \in 0 .. Count(tree', record) - 1
    BY <2>1, <2>2, ToggledTree DEF TreeInv
  <2> QED BY <2>2, <2>3 DEF TreeInv, CursorOnHeading
<1>3. CASE NewRecord
  <2>1. PICK rec \in Shapes : record' = rec /\ tree' = new_for(rec)
    BY <1>3 DEF NewRecord, on_record_change
  <2>2. IsTree(tree', rec) /\ tree'.cursor \in 0 .. Count(tree', rec) - 1
    BY <2>1, RecordTypes, NewTree
  <2> QED BY <2>1, <2>2 DEF TreeInv, CursorOnHeading
<1>4. CASE Render \/ UNCHANGED vars
  <2>1. record' = record /\ tree' = tree
    BY <1>4 DEF Render, render_details, vars
  <2> QED BY <2>1 DEF TreeInv, CursorOnHeading
<1> QED BY <1>1, <1>2, <1>3, <1>4 DEF Next, Key

LEMMA CursorLineType ==
  ASSUME TreeInv, record # NoRecord
  PROVE  /\ cursor_line(tree, record) \in Nat
         /\ cursor_line(tree, record) < Lines(tree, record)
<1>1. record \in Shapes /\ IsTree(tree, record)
  BY DEF TreeInv
<1>2. /\ tree.cursor \in 0 .. Count(tree, record) /\ tree.cursor < Count(tree, record)
      /\ Count(tree, record) \in 0 .. Count(tree, record)
  BY CountType
<1> QED BY <1>1, <1>2, LinesGrow DEF cursor_line, Lines

LEMMA FollowedLine ==
  ASSUME detail_scroll \in Nat, NEW line \in Nat, NEW height \in Nat \ {0}
  PROVE  LET s == Followed(line, height) IN s \in Nat /\ s <= line /\ line < s + height
  BY DEF Followed

LEMMA NextDetailInv ==
  ASSUME DetailInv, [Next]_vars
  PROVE  DetailInv'
<1>1. TreeInv' /\ TreeInv /\ detail_scroll \in Nat
  BY NextTreeInv DEF DetailInv
<1>2. CASE Key \/ NewRecord
  <2>1. detail_scroll' \in Nat /\ frame' = NoFrame
    BY <1>1, <1>2 DEF Key, move_up, move_down, toggle, NewRecord, on_record_change
  <2>2. ~(frame'.height > 0)
    BY <2>1 DEF NoFrame
  <2> QED BY <1>1, <2>1, <2>2 DEF DetailInv, FrameInv
<1>3. CASE Render
  <2>1. PICK height \in Heights : render_details(height)
    BY <1>3 DEF Render
  <2>2. record' = record /\ tree' = tree /\ height \in Nat
    BY <2>1, HeightsAssumption DEF render_details
  <2>3. CASE auto_expand(height)
    <3>1. detail_scroll' = 0 /\ frame'.auto
      BY <2>1, <2>3 DEF render_details
    <3> QED BY <1>1, <3>1 DEF DetailInv, FrameInv
  <2>4. CASE ~auto_expand(height)
    <3> DEFINE line == IF record = NoRecord THEN 0 ELSE cursor_line(tree, record)
    <3>1. line \in Nat
      BY <1>1, CursorLineType
    <3>2. /\ detail_scroll' = IF height = 0 THEN detail_scroll ELSE Followed(line, height)
          /\ frame'.height = height
      BY <2>1, <2>4 DEF render_details
    <3>3. record # NoRecord =>
            /\ frame'.lines = Lines(tree, record)
            /\ line = cursor_line(tree, record)
      BY <2>1, <2>4 DEF render_details
    <3> HIDE DEF line
    <3>4. CASE height = 0
      <4>1. detail_scroll' \in Nat /\ ~(frame'.height > 0)
        BY <1>1, <3>2, <3>4
      <4> QED BY <1>1, <4>1 DEF DetailInv, FrameInv
    <3>5. CASE height # 0
      <4>1. /\ detail_scroll' \in Nat /\ detail_scroll' <= line
            /\ line < detail_scroll' + frame'.height
        BY <1>1, <2>2, <3>1, <3>2, <3>5, FollowedLine
      <4> QED BY <1>1, <2>2, <3>3, <4>1 DEF DetailInv, FrameInv
    <3> QED BY <3>4, <3>5
  <2> QED BY <2>3, <2>4
<1>4. CASE UNCHANGED vars
  BY <1>1, <1>4 DEF DetailInv, FrameInv, vars
<1> QED BY <1>2, <1>3, <1>4 DEF Next

LEMMA InitDetailInv ==
  ASSUME Init
  PROVE  DetailInv
<1>1. /\ record \in Shapes \cup {NoRecord} /\ record \in Shape /\ tree = new_for(record)
      /\ detail_scroll = 0 /\ frame.height = 0
  BY RecordTypes DEF Init, NoFrame
<1>2. IsTree(tree, record) /\ CursorOnHeading
  BY <1>1, NewTree DEF CursorOnHeading
<1>3. ~(frame.height > 0) /\ detail_scroll \in Nat
  BY <1>1
<1> QED BY <1>1, <1>2, <1>3 DEF DetailInv, TreeInv, FrameInv

(***************************************************************************)
(* The record, its tree and the cursor fit together in every state, and    *)
(* what was drawn last is drawn of them: for all records, whatever the     *)
(* number of their blocks, and all sizes of the pane.                      *)
(***************************************************************************)
THEOREM DetailInvariant == Spec => []DetailInv
<1>1. Init => DetailInv
  BY InitDetailInv
<1>2. DetailInv /\ [Next]_vars => DetailInv'
  BY NextDetailInv
<1> QED BY <1>1, <1>2, PTL DEF Spec

(***************************************************************************)
(* CursorOnHeading: the cursor is an index into a list from which toggling *)
(* and another record take headings away, and never points past its end.   *)
(***************************************************************************)
THEOREM CursorIsOnHeading == Spec => []CursorOnHeading
<1>1. DetailInv => CursorOnHeading
  BY DEF DetailInv, TreeInv
<1> QED BY <1>1, DetailInvariant, PTL

(***************************************************************************)
(* CursorInView: in a frame that does not show everything expanded, the    *)
(* line of the heading under the cursor is one of those that are drawn.    *)
(***************************************************************************)
THEOREM CursorIsInView == Spec => []CursorInView
<1>1. DetailInv => CursorInView
  <2> SUFFICES ASSUME DetailInv, frame.height > 0, ~frame.auto, record # NoRecord
               PROVE  LET line == cursor_line(tree, record) IN
                      /\ detail_scroll <= line /\ line < detail_scroll + frame.height
                      /\ line < frame.lines
    BY DEF CursorInView
  <2> QED BY CursorLineType DEF DetailInv, FrameInv
<1> QED BY <1>1, DetailInvariant, PTL

-----------------------------------------------------------------------------
(* The index into the list is as good as a heading.                        *)

\* The headings that are open in t, one by one.
IsOpen(h, t, rec) ==
  \/ h = Header /\ t.header_expanded
  \/ h = MainData /\ t.main_expanded
  \/ \E i \in Blocks(rec) : h = Block(i) /\ t.block_states[i].block
  \/ \E i \in Blocks(rec) : h = Fpi(i) /\ t.block_states[i].fpi

LEMMA Kinds ==
  /\ Header[1] = "Header" /\ MainData[1] = "MainData" /\ Header # MainData
  /\ \A i : /\ Block(i)[1] = "Block" /\ Block(i)[2] = i /\ Block(i) # Header /\ Block(i) # MainData
            /\ Fpi(i)[1] = "BlockFpi" /\ Fpi(i)[2] = i /\ Fpi(i) # Header /\ Fpi(i) # MainData
            /\ \A j : Block(i) # Fpi(j) /\ (i # j => Block(i) # Block(j) /\ Fpi(i) # Fpi(j))
  BY DEF Header, MainData, Block, Fpi

LEMMA InOpen ==
  /\ \A h : h \in Open <=> IsOpen(h, tree, record)
  /\ \A h : h \in Open' <=> IsOpen(h, tree', record')
<1>1. \A h : h \in Open <=> IsOpen(h, tree, record)
  BY Kinds, Zenon DEF Open, IsOpen
<1>2. \A h : h \in Open' <=> IsOpen(h, tree', record')
  BY Kinds, Zenon DEF Open, IsOpen
<1> QED BY <1>1, <1>2

LEMMA SeenIsSeen ==
  ASSUME TreeInv
  PROVE  /\ Abstract!Seen = SeenOf(tree, record)
         /\ \A h : Abstract!Place(h) = PlaceOf(h, record)
<1>1. \A h : Abstract!Place(h) = PlaceOf(h, record)
  BY DEF Abstract!Place, PlaceOf
<1>2. \A h : h \in Abstract!Headings(record) <=>
               \/ h = Header
               \/ \E i \in Blocks(record) : h = Block(i)
               \/ \E i \in Blocks(record) : record.blocks[i].has_image /\ h = Fpi(i)
               \/ record.has_main /\ h = MainData
  BY DEF Abstract!Headings, Header, Block, Fpi, MainData, Blocks
<1>3. \A h : h \in SeenOf(tree, record) <=>
               \/ h = Header
               \/ \E i \in Blocks(record) : h = Block(i)
               \/ \E i \in Blocks(record) : HasFpi(tree, record, i) /\ h = Fpi(i)
               \/ record.has_main /\ h = MainData
  BY DEF SeenOf
<1>4. \A i \in Blocks(record) : Block(i) \in Open <=> tree.block_states[i].block
  BY InOpen, Kinds DEF IsOpen
<1>5. \A i : <<"Block", i>> = Block(i)
  BY DEF Block
<1>6. \A h : h \in Abstract!Seen <=>
               h \in Abstract!Headings(record) /\ (h[1] = "BlockFpi" => Block(h[2]) \in Open)
  BY <1>5 DEF Abstract!Seen
<1>7. ASSUME NEW h PROVE h \in Abstract!Seen <=> h \in SeenOf(tree, record)
  <2>1. CASE \E i \in Blocks(record) : h = Fpi(i)
    <3>1. PICK i \in Blocks(record) : h = Fpi(i)
      BY <2>1
    <3>2. /\ h[1] = "BlockFpi" /\ h[2] = i /\ h # Header /\ h # MainData
          /\ \A j : h # Block(j) /\ (h = Fpi(j) => j = i)
      BY <3>1, Kinds
    <3>3. h \in Abstract!Headings(record) <=> record.blocks[i].has_image
      BY <1>2, <3>1, <3>2
    <3>4. h \in SeenOf(tree, record) <=> HasFpi(tree, record, i)
      BY <1>3, <3>1, <3>2
    <3>5. Block(h[2]) \in Open <=> tree.block_states[i].block
      BY <1>4, <3>2
    <3> QED BY <1>6, <3>2, <3>3, <3>4, <3>5 DEF HasFpi
  <2>2. CASE ~\E i \in Blocks(record) : h = Fpi(i)
    <3>1. h \in Abstract!Headings(record) => h[1] # "BlockFpi"
      BY <1>2, <2>2, Kinds
    <3> QED BY <1>2, <1>3, <1>6, <2>2, <3>1
  <2> QED BY <2>1, <2>2
<1> QED BY <1>1, <1>7

LEMMA InitMapped == Init => Abstract!Init
<1> SUFFICES ASSUME Init PROVE Abstract!Init
  OBVIOUS
<1>1. record \in Shapes \cup {NoRecord} /\ tree = new_for(record) /\ TreeInv
  BY InitDetailInv DEF Init, DetailInv
<1>2. Under(tree, record) = <<"Header", 0>>
  <2>1. tree.cursor = 0
    BY <1>1 DEF new_for
  <2>2. nav_items(tree, record)[1] = Header
    BY <1>1, NavItems DEF TreeInv
  <2>3. tree.cursor + 1 = 1
    BY <2>1
  <2> QED BY <2>2, <2>3 DEF Under, Header
<1>3. \A h : h \notin Open
  <2>1. /\ tree.header_expanded = FALSE /\ tree.main_expanded = FALSE
        /\ \A i \in Blocks(record) : ~tree.block_states[i].block /\ ~tree.block_states[i].fpi
    BY <1>1 DEF new_for
  <2> QED BY <2>1, InOpen DEF IsOpen
<1>4. Open = {}
  BY <1>3
<1> QED BY <1>1, <1>2, <1>4 DEF Abstract!Init

\* The heading that the cursor goes to is the next one that is seen.
LEMMA NextHeading ==
  ASSUME TreeInv, NEW c \in 0 .. Count(tree, record) - 1,
         NEW h, h = nav_items(tree, record)[c + 1]
  PROVE  /\ c = tree.cursor + 1 =>
              /\ h \in Abstract!Below
              /\ h = CHOOSE g \in Abstract!Below :
                       \A k \in Abstract!Below : Abstract!Place(g) <= Abstract!Place(k)
         /\ c = tree.cursor - 1 =>
              /\ h \in Abstract!Above
              /\ h = CHOOSE g \in Abstract!Above :
                       \A k \in Abstract!Above : Abstract!Place(g) >= Abstract!Place(k)
<1> DEFINE n == Count(tree, record)
           nav == nav_items(tree, record)
           at == Under(tree, record)
           S == SeenOf(tree, record)
           P(g) == PlaceOf(g, record)
           b == tree.cursor + 1
           d == c + 1
<1>1. n \in Nat /\ b \in 1 .. n /\ d \in 1 .. n
  BY CountType
<1>2. /\ \A i \in 1 .. n : nav[i] \in S /\ P(nav[i]) \in Nat
      /\ \A i, j \in 1 .. n : i < j => P(nav[i]) < P(nav[j])
      /\ \A g \in S : \E i \in 1 .. n : nav[i] = g
  BY NavItems DEF TreeInv
<1>3. /\ Abstract!Below = {g \in S : P(g) > P(at)}
      /\ Abstract!Above = {g \in S : P(g) < P(at)}
      /\ \A g : Abstract!Place(g) = P(g)
  BY SeenIsSeen DEF Abstract!Below, Abstract!Above
<1>4. at = nav[b] /\ h = nav[d]
  BY DEF Under
<1> HIDE DEF n, nav, at, S, P
<1>5. \A i, j \in 1 .. n : P(nav[i]) < P(nav[j]) => i < j
  <2> SUFFICES ASSUME NEW i \in 1 .. n, NEW j \in 1 .. n, P(nav[i]) < P(nav[j]), ~(i < j)
               PROVE  FALSE
    OBVIOUS
  <2>1. j < i \/ i = j
    BY <1>1
  <2>2. P(nav[j]) <= P(nav[i]) /\ P(nav[i]) \in Nat /\ P(nav[j]) \in Nat
    BY <1>2, <2>1
  <2> QED BY <2>2
<1>6. ASSUME c = tree.cursor + 1
      PROVE  /\ h \in Abstract!Below
             /\ \A k \in Abstract!Below : Abstract!Place(h) <= Abstract!Place(k)
             /\ \A g \in Abstract!Below :
                  (\A k \in Abstract!Below : Abstract!Place(g) <= Abstract!Place(k)) => g = h
  <2>1. d = b + 1
    BY <1>6
  <2> HIDE DEF b, d
  <2>2. h \in S /\ P(at) < P(h) /\ P(at) \in Nat /\ P(h) \in Nat
    BY <1>1, <1>2, <1>4, <2>1
  <2>3. ASSUME NEW k \in S, P(k) > P(at) PROVE P(k) \in Nat /\ (k = h \/ P(h) < P(k))
    <3>1. PICK i \in 1 .. n : nav[i] = k
      BY <1>2
    <3>2. P(nav[b]) < P(nav[i])
      <4>1. P(k) \in Nat
        BY <1>2, <3>1
      <4> QED BY <1>4, <2>2, <2>3, <3>1, <4>1
    <3>3. b < i
      BY <1>1, <1>5, <3>2
    <3>4. i = d \/ d < i
      BY <1>1, <2>1, <3>3
    <3> QED BY <1>1, <1>2, <1>4, <3>1, <3>4
  <2>4. \A k \in S : P(k) > P(at) => P(k) \in Nat /\ (k = h \/ P(h) < P(k))
    BY <2>3
  <2>5. h \in Abstract!Below
    BY <1>3, <2>2
  <2>6. ASSUME NEW k \in Abstract!Below PROVE Abstract!Place(h) <= Abstract!Place(k)
    BY <1>3, <2>2, <2>4
  <2>7. ASSUME NEW g \in Abstract!Below, Abstract!Place(g) <= Abstract!Place(h)
        PROVE  g = h
    BY <1>3, <2>2, <2>4, <2>7
  <2> QED BY <2>5, <2>6, <2>7
<1>7. ASSUME c = tree.cursor - 1
      PROVE  /\ h \in Abstract!Above
             /\ \A k \in Abstract!Above : Abstract!Place(h) >= Abstract!Place(k)
             /\ \A g \in Abstract!Above :
                  (\A k \in Abstract!Above : Abstract!Place(g) >= Abstract!Place(k)) => g = h
  <2>1. b = d + 1
    BY <1>7, CountType
  <2> HIDE DEF b, d
  <2>2. h \in S /\ P(h) < P(at) /\ P(at) \in Nat /\ P(h) \in Nat
    BY <1>1, <1>2, <1>4, <2>1
  <2>3. ASSUME NEW k \in S, P(k) < P(at) PROVE P(k) \in Nat /\ (k = h \/ P(k) < P(h))
    <3>1. PICK i \in 1 .. n : nav[i] = k
      BY <1>2
    <3>2. P(nav[i]) < P(nav[b])
      BY <1>4, <2>3, <3>1
    <3>3. i < b
      BY <1>1, <1>5, <3>2
    <3>4. i = d \/ i < d
      BY <1>1, <2>1, <3>3
    <3> QED BY <1>1, <1>2, <1>4, <3>1, <3>4
  <2>4. \A k \in S : P(k) < P(at) => P(k) \in Nat /\ (k = h \/ P(k) < P(h))
    BY <2>3
  <2>5. h \in Abstract!Above
    BY <1>3, <2>2
  <2>6. ASSUME NEW k \in Abstract!Above PROVE Abstract!Place(h) >= Abstract!Place(k)
    BY <1>3, <2>2, <2>4
  <2>7. ASSUME NEW g \in Abstract!Above, Abstract!Place(g) >= Abstract!Place(h)
        PROVE  g = h
    BY <1>3, <2>2, <2>4, <2>7
  <2> QED BY <2>5, <2>6, <2>7
<1> QED BY <1>6, <1>7

\* A heading of the record rec, seen or not.
IsHeading(h, rec) ==
  h = Header \/ h = MainData \/ \E i \in Blocks(rec) : h = Block(i) \/ h = Fpi(i)

LEMMA OpenInBlock ==
  ASSUME NEW t, NEW rec, NEW i \in Blocks(rec)
  PROVE  /\ IsOpen(Block(i), t, rec) <=> t.block_states[i].block
         /\ IsOpen(Fpi(i), t, rec) <=> t.block_states[i].fpi
<1>1. IsOpen(Block(i), t, rec) <=> t.block_states[i].block
  BY Kinds DEF IsOpen
<1>2. IsOpen(Fpi(i), t, rec) <=> t.block_states[i].fpi
  BY Kinds DEF IsOpen
<1> QED BY <1>1, <1>2

LEMMA OpenByKind ==
  ASSUME NEW t, NEW rec
  PROVE  /\ IsOpen(Header, t, rec) <=> t.header_expanded
         /\ IsOpen(MainData, t, rec) <=> t.main_expanded
         /\ \A h : IsOpen(h, t, rec) => IsHeading(h, rec)
<1>1. /\ IsOpen(Header, t, rec) <=> t.header_expanded
      /\ IsOpen(MainData, t, rec) <=> t.main_expanded
  BY Kinds DEF IsOpen
<1>2. \A h : IsOpen(h, t, rec) => IsHeading(h, rec)
  BY DEF IsOpen, IsHeading
<1> QED BY <1>1, <1>2

\* What a heading becomes when item is toggled.
IsToggled(h, item) ==
  IF h = item THEN h \in Open' <=> h \notin Open
  ELSE h \in Open' <=> h \in Open /\ ~(item \in Open /\ item[1] = "Block" /\ h = Fpi(item[2]))

LEMMA ToggleMapped ==
  ASSUME TreeInv, TreeInv', toggle
  PROVE  Abstract!Toggle
<1> DEFINE item == Under(tree, record)
<1>1. Count(tree, record) \in Nat /\ tree.cursor \in 0 .. Count(tree, record) - 1
  BY CountType DEF TreeInv, CursorOnHeading
<1>2. tree' = Toggled(tree, item) /\ record' = record /\ record # NoRecord
  BY <1>1 DEF toggle
<1>3. Under(tree', record') = item /\ item \in SeenOf(tree, record)
  BY <1>1, <1>2, CountType, NavItems, ToggledTree DEF TreeInv, Under
<1>4. /\ tree \in Tree /\ Len(tree.block_states) = Len(record.blocks)
      /\ Blocks(record) = 1 .. Len(record.blocks)
  BY DEF TreeInv, IsTree, Blocks
<1> HIDE DEF item
<1>5. /\ (Header \in Open <=> tree.header_expanded) /\ (MainData \in Open <=> tree.main_expanded)
      /\ (Header \in Open' <=> tree'.header_expanded) /\ (MainData \in Open' <=> tree'.main_expanded)
      /\ \A j \in Blocks(record) :
           /\ (Block(j) \in Open <=> tree.block_states[j].block)
           /\ (Fpi(j) \in Open <=> tree.block_states[j].fpi)
           /\ (Block(j) \in Open' <=> tree'.block_states[j].block)
           /\ (Fpi(j) \in Open' <=> tree'.block_states[j].fpi)
  <2>1. /\ \A h : h \in Open <=> IsOpen(h, tree, record)
        /\ \A h : h \in Open' <=> IsOpen(h, tree', record)
    BY <1>2, InOpen
  <2>2. /\ IsOpen(Header, tree, record) <=> tree.header_expanded
        /\ IsOpen(MainData, tree, record) <=> tree.main_expanded
        /\ IsOpen(Header, tree', record) <=> tree'.header_expanded
        /\ IsOpen(MainData, tree', record) <=> tree'.main_expanded
    BY OpenByKind, Zenon
  <2>3. \A j \in Blocks(record) :
          /\ IsOpen(Block(j), tree, record) <=> tree.block_states[j].block
          /\ IsOpen(Fpi(j), tree, record) <=> tree.block_states[j].fpi
          /\ IsOpen(Block(j), tree', record) <=> tree'.block_states[j].block
          /\ IsOpen(Fpi(j), tree', record) <=> tree'.block_states[j].fpi
    BY OpenInBlock
  <2> QED BY <2>1, <2>2, <2>3, Zenon
<1>6. ASSUME NEW h, IsHeading(h, record) PROVE IsToggled(h, item)
  <2>1. CASE item = Header \/ item = MainData
    <3>1. tree'.block_states = tree.block_states
      BY <1>2, <1>4, <2>1, Kinds DEF Toggled, Tree
    <3>2. \/ /\ item = Header
             /\ tree'.header_expanded = ~tree.header_expanded
             /\ tree'.main_expanded = tree.main_expanded
          \/ /\ item = MainData
             /\ tree'.main_expanded = ~tree.main_expanded
             /\ tree'.header_expanded = tree.header_expanded
      BY <1>2, <1>4, <2>1, Kinds DEF Toggled, Tree
    <3>3. CASE h = Header \/ h = MainData
      BY <1>5, <3>2, <3>3, Kinds DEF IsToggled
    <3>4. ASSUME NEW j \in Blocks(record), h = Block(j) \/ h = Fpi(j) PROVE IsToggled(h, item)
      <4>1. h # item /\ item[1] # "Block"
        BY <2>1, <3>4, Kinds
      <4>2. h \in Open' <=> h \in Open
        BY <1>5, <3>1, <3>4, Zenon
      <4> QED BY <4>1, <4>2 DEF IsToggled
    <3> QED BY <1>6, <3>3, <3>4 DEF IsHeading
  <2>2. ASSUME NEW i \in Blocks(record), item = Fpi(i) PROVE IsToggled(h, item)
    <3>1. tree' = [tree EXCEPT !.block_states[i].fpi = ~@]
      BY <1>2, <2>2, Kinds DEF Toggled
    <3>2. /\ tree'.header_expanded = tree.header_expanded
          /\ tree'.main_expanded = tree.main_expanded
          /\ tree'.block_states[i].fpi = ~tree.block_states[i].fpi
          /\ \A j \in Blocks(record) : tree'.block_states[j].block = tree.block_states[j].block
          /\ \A j \in Blocks(record) : j # i => tree'.block_states[j].fpi = tree.block_states[j].fpi
      <4>1. tree.block_states \in Seq(State) /\ i \in 1 .. Len(tree.block_states)
        BY <1>4 DEF Tree
      <4>2. tree.block_states \in [1 .. Len(tree.block_states) -> State]
        BY <4>1, LenProperties
      <4> QED BY <1>4, <3>1, <4>1, <4>2 DEF Tree, State
    <3>3. item[1] # "Block"
      BY <2>2, Kinds
    <3>4. CASE h = Header \/ h = MainData
      <4>1. h # item
        BY <2>2, <3>4, Kinds
      <4>2. h \in Open' <=> h \in Open
        BY <1>5, <3>2, <3>4, Zenon
      <4> QED BY <3>3, <4>1, <4>2 DEF IsToggled
    <3>5. ASSUME NEW j \in Blocks(record), h = Block(j) PROVE IsToggled(h, item)
      <4>1. h # item
        BY <2>2, <3>5, Kinds
      <4>2. h \in Open' <=> h \in Open
        BY <1>5, <3>2, <3>5, Zenon
      <4> QED BY <3>3, <4>1, <4>2 DEF IsToggled
    <3>6. ASSUME NEW j \in Blocks(record), h = Fpi(j) PROVE IsToggled(h, item)
      <4>1. h = item <=> i = j
        BY <2>2, <3>6, Kinds
      <4>2. IF i = j THEN h \in Open' <=> h \notin Open ELSE h \in Open' <=> h \in Open
        BY <1>5, <3>2, <3>6, Zenon
      <4> QED BY <3>3, <4>1, <4>2 DEF IsToggled
    <3> QED BY <1>6, <3>4, <3>5, <3>6 DEF IsHeading
  <2>3. ASSUME NEW i \in Blocks(record), item = Block(i) PROVE IsToggled(h, item)
    <3>1. tree' = [tree EXCEPT !.block_states[i] = ToggledBlock(@)]
      BY <1>2, <2>3, Kinds DEF Toggled
    <3>2. /\ tree'.header_expanded = tree.header_expanded
          /\ tree'.main_expanded = tree.main_expanded
          /\ tree'.block_states[i].block = ~tree.block_states[i].block
          /\ tree'.block_states[i].fpi = (IF tree.block_states[i].block THEN FALSE
                                          ELSE tree.block_states[i].fpi)
          /\ \A j \in Blocks(record) : j # i => tree'.block_states[j] = tree.block_states[j]
      <4>1. tree.block_states \in Seq(State) /\ i \in 1 .. Len(tree.block_states)
        BY <1>4 DEF Tree
      <4>2. tree.block_states \in [1 .. Len(tree.block_states) -> State]
        BY <4>1, LenProperties
      <4> QED BY <1>4, <3>1, <4>1, <4>2 DEF Tree, State, ToggledBlock
    <3>3. item[1] = "Block" /\ item[2] = i
      BY <2>3, Kinds
    <3>4. CASE h = Header \/ h = MainData
      <4>1. h # item /\ h # Fpi(i)
        BY <2>3, <3>4, Kinds
      <4>2. h \in Open' <=> h \in Open
        BY <1>5, <3>2, <3>4, Zenon
      <4> QED BY <3>3, <4>1, <4>2 DEF IsToggled
    <3>5. ASSUME NEW j \in Blocks(record), h = Block(j) PROVE IsToggled(h, item)
      <4>1. (h = item <=> i = j) /\ h # Fpi(i)
        BY <2>3, <3>5, Kinds
      <4>2. IF i = j THEN h \in Open' <=> h \notin Open ELSE h \in Open' <=> h \in Open
        BY <1>5, <3>2, <3>5, Zenon
      <4> QED BY <3>3, <4>1, <4>2 DEF IsToggled
    <3>6. ASSUME NEW j \in Blocks(record), h = Fpi(j) PROVE IsToggled(h, item)
      <4>1. h # item /\ (h = Fpi(i) <=> i = j)
        BY <2>3, <3>6, Kinds
      <4>2. item \in Open <=> tree.block_states[i].block
        BY <1>5, <2>3
      <4>3. IF i = j THEN h \in Open' <=> h \in Open /\ ~tree.block_states[i].block
            ELSE h \in Open' <=> h \in Open
        BY <1>5, <3>2, <3>6, Zenon
      <4> QED BY <3>3, <4>1, <4>2, <4>3 DEF IsToggled
    <3> QED BY <1>6, <3>4, <3>5, <3>6 DEF IsHeading
  <2> QED BY <1>3, <2>1, <2>2, <2>3 DEF SeenOf
<1>7. /\ item \in Open' <=> item \notin Open
      /\ \A h : h # item => (h \in Open' <=>
           h \in Open /\ ~(item \in Open /\ item[1] = "Block" /\ h = <<"BlockFpi", item[2]>>))
  <2>1. IsHeading(item, record)
    BY <1>3 DEF SeenOf, IsHeading
  <2>2. item \in Open' <=> item \notin Open
    BY <1>6, <2>1 DEF IsToggled
  <2>3. Fpi(item[2]) = <<"BlockFpi", item[2]>>
    BY DEF Fpi
  <2>4. \A h : h \in Open \/ h \in Open' => IsHeading(h, record)
    BY <1>2, InOpen, OpenByKind
  <2>5. ASSUME NEW h, h # item
        PROVE  h \in Open' <=>
                 h \in Open /\ ~(item \in Open /\ item[1] = "Block" /\ h = <<"BlockFpi", item[2]>>)
    BY <1>6, <2>3, <2>4, <2>5 DEF IsToggled
  <2> QED BY <2>2, <2>5
<1>8. Abstract!Open \/ Abstract!Close
  <2>1. ASSUME item \in Open PROVE Abstract!Close
    <3>1. Open' = {h \in Open \ {item} : ~(item[1] = "Block" /\ h = <<"BlockFpi", item[2]>>)}
      BY <1>7, <2>1
    <3> QED BY <2>1, <3>1 DEF Abstract!Close, item
  <2>2. ASSUME item \notin Open PROVE Abstract!Open
    <3>1. Open' = Open \cup {item}
      BY <1>7, <2>2
    <3> QED BY <2>2, <3>1 DEF Abstract!Open, item
  <2> QED BY <2>1, <2>2
<1> QED BY <1>2, <1>3, <1>8 DEF Abstract!Toggle, item

LEMMA NextMapped ==
  ASSUME TreeInv, TreeInv', [Next]_vars
  PROVE  [Abstract!Next]_(Abstract!vars)
<1>1. CASE move_up \/ move_down
  <2>1. PICK c \in 0 .. Count(tree, record) - 1 :
           /\ tree' = [tree EXCEPT !.cursor = c] /\ record' = record
           /\ move_up => c = IF tree.cursor > 0 THEN tree.cursor - 1 ELSE tree.cursor
           /\ move_down => c = IF tree.cursor + 1 < Count(tree, record) THEN tree.cursor + 1
                               ELSE tree.cursor
    BY <1>1, KeyMoves
  <2>2. c \in Nat /\ IsTree(tree, record)
    BY CountType DEF TreeInv
  <2>3. tree'.cursor = c /\ nav_items(tree', record) = nav_items(tree, record)
    BY <2>1, <2>2, CursorMoves
  <2>4. Under(tree', record') = nav_items(tree, record)[c + 1]
    BY <2>1, <2>3 DEF Under
  <2>5. /\ tree'.header_expanded = tree.header_expanded
        /\ tree'.main_expanded = tree.main_expanded
        /\ tree'.block_states = tree.block_states
    BY <2>1, <2>2 DEF IsTree, Tree
  <2>6. Open' = Open
    <3>1. \A h : h \in Open' <=> h \in Open
      BY <2>1, <2>5, InOpen DEF IsOpen
    <3> QED BY <3>1
  <2>7. CASE c = tree.cursor
    <3>1. Under(tree', record') = Under(tree, record)
      BY <2>4, <2>7 DEF Under
    <3> QED BY <2>1, <2>6, <3>1 DEF Abstract!vars
  <2>8. CASE c = tree.cursor + 1
    <3>1. Abstract!Down
      BY <2>1, <2>4, <2>6, <2>8, NextHeading DEF Abstract!Down
    <3> QED BY <3>1 DEF Abstract!Next
  <2>9. CASE c = tree.cursor - 1
    <3>1. Abstract!Up
      BY <2>1, <2>4, <2>6, <2>9, NextHeading DEF Abstract!Up
    <3> QED BY <3>1 DEF Abstract!Next
  <2> QED BY <1>1, <2>1, <2>7, <2>8, <2>9
<1>2. CASE toggle
  BY <1>2, ToggleMapped DEF Abstract!Next
<1>3. CASE NewRecord
  <2>1. PICK rec \in Shapes : record' = rec /\ tree' = new_for(rec)
    BY <1>3 DEF NewRecord, on_record_change
  <2>2. Under(tree', record') = <<"Header", 0>>
    <3>1. tree'.cursor = 0
      BY <2>1 DEF new_for
    <3>2. nav_items(tree', record')[1] = Header
      BY NavItems DEF TreeInv
    <3>3. tree'.cursor + 1 = 1
      BY <3>1
    <3> QED BY <3>2, <3>3 DEF Under, Header
  <2>3. \A h : h \notin Open'
    <3>1. /\ tree'.header_expanded = FALSE /\ tree'.main_expanded = FALSE
          /\ \A i \in Blocks(record') : ~tree'.block_states[i].block /\ ~tree'.block_states[i].fpi
      BY <2>1 DEF new_for
    <3> QED BY <3>1, InOpen DEF IsOpen
  <2>4. Open' = {}
    BY <2>3
  <2>5. Abstract!Select
    BY <2>1, <2>2, <2>4 DEF Abstract!Select
  <2> QED BY <2>5 DEF Abstract!Next
<1>4. CASE Render \/ UNCHANGED vars
  <2>1. record' = record /\ tree' = tree
    BY <1>4 DEF Render, render_details, vars
  <2>2. Under(tree', record') = Under(tree, record)
    BY <2>1
  <2>3. Open' = Open
    <3>1. \A h : h \in Open' <=> h \in Open
      BY <2>1, InOpen
    <3> QED BY <3>1
  <2> QED BY <2>1, <2>2, <2>3 DEF Abstract!vars
<1> QED BY <1>1, <1>2, <1>3, <1>4 DEF Next, Key

(***************************************************************************)
(* ImplementsAccordion: for records of any number of blocks, the index     *)
(* into a list that is built anew for every key goes where a cursor on a   *)
(* heading would go.  That a toggled heading keeps its index is the rank   *)
(* argument of IndexIsKept: only headings below it come and go.            *)
(***************************************************************************)
THEOREM AccordionIsImplemented == Spec => ImplementsAccordion
<1>1. Init => Abstract!Init
  BY InitMapped
<1>2. TreeInv /\ TreeInv' /\ [Next]_vars => [Abstract!Next]_(Abstract!vars)
  BY NextMapped
<1>3. DetailInv => TreeInv
  BY DEF DetailInv
<1> QED BY <1>1, <1>2, <1>3, DetailInvariant, PTL DEF Spec, ImplementsAccordion, Abstract!Spec
===============================================================================
