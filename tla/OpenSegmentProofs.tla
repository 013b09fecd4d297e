-------------------------- MODULE OpenSegmentProofs --------------------------
(***************************************************************************)
(* Proofs of what OpenSegment states, for every file, every name, and      *)
(* every change of the file between the accesses.                          *)
(***************************************************************************)
EXTENDS OpenSegment, TLAPS, NaturalsInduction, WellFoundedInduction

-----------------------------------------------------------------------------
(* Powers of two.                                                          *)

\* The numbers that is_power_of_two finds.
PowersOfTwo ==
  {1, 2, 4, 8, 16, 32, 64, 128, 256, 512, 1024, 2048, 4096, 8192, 16384, 32768,
   65536, 131072, 262144, 524288, 1048576, 2097152, 4194304, 8388608, 16777216,
   33554432, 67108864, 134217728, 268435456, 536870912, 1073741824}

Power(k) == 2 ^ k

LEMMA PowersListed ==
  ASSUME NEW n, is_power_of_two(n)
  PROVE  n \in PowersOfTwo
<1>1. \E k \in 0 .. 30 : n = Power(k)
  BY Zenon DEF is_power_of_two, Power
<1>2. /\ Power(0) = 1 /\ Power(1) = 2 /\ Power(2) = 4 /\ Power(3) = 8
      /\ Power(4) = 16 /\ Power(5) = 32 /\ Power(6) = 64 /\ Power(7) = 128
      /\ Power(8) = 256 /\ Power(9) = 512 /\ Power(10) = 1024 /\ Power(11) = 2048
      /\ Power(12) = 4096 /\ Power(13) = 8192 /\ Power(14) = 16384 /\ Power(15) = 32768
      /\ Power(16) = 65536 /\ Power(17) = 131072 /\ Power(18) = 262144 /\ Power(19) = 524288
      /\ Power(20) = 1048576 /\ Power(21) = 2097152 /\ Power(22) = 4194304 /\ Power(23) = 8388608
      /\ Power(24) = 16777216 /\ Power(25) = 33554432 /\ Power(26) = 67108864 /\ Power(27) = 134217728
      /\ Power(28) = 268435456 /\ Power(29) = 536870912 /\ Power(30) = 1073741824
  BY SMTT(30) DEF Power
<1>3. \A k \in 0 .. 30 : Power(k) \in PowersOfTwo
  BY SMTT(30), <1>2 DEF PowersOfTwo
<1> QED
  BY <1>1, <1>3

LEMMA Halves ==
  ASSUME NEW b \in PowersOfTwo, b # 1
  PROVE  \E c \in PowersOfTwo : b = 2 * c
  BY SMTT(30) DEF PowersOfTwo

LEMMA NoneBetween ==
  ASSUME NEW a \in PowersOfTwo, NEW c \in PowersOfTwo, a < 2 * c
  PROVE  a <= c
  BY SMTT(60) DEF PowersOfTwo

LEMMA PowersArePositive == PowersOfTwo \subseteq Nat \ {0}
  BY SMTT(30) DEF PowersOfTwo

LEMMA DivUnique ==
  ASSUME NEW b \in Nat \ {0}, NEW q \in Nat, NEW r \in 0 .. b - 1
  PROVE  (q * b + r) \div b = q /\ (q * b + r) % b = r
  OBVIOUS

LEMMA DivMod ==
  ASSUME NEW a \in Nat, NEW b \in Nat \ {0}
  PROVE  /\ a \div b \in Nat /\ a % b \in 0 .. b - 1
         /\ a = (a \div b) * b + (a % b)
  OBVIOUS

LEMMA ExactQuotient ==
  ASSUME NEW a \in Nat, NEW b \in Nat \ {0}, a % b = 0
  PROVE  \E q \in Nat : a = q * b
<1>1. a \div b \in Nat /\ a = (a \div b) * b + (a % b)
  BY DivMod
<1>2. a = (a \div b) * b
  BY <1>1
<1> QED
  BY <1>1, <1>2

\* Of two powers of two the smaller divides the larger.
LEMMA Divides ==
  ASSUME NEW a \in PowersOfTwo, NEW b \in PowersOfTwo, a <= b
  PROVE  b % a = 0
<1> DEFINE T == {x \in PowersOfTwo : a <= x /\ x % a # 0}
<1>1. T \subseteq Nat
  BY PowersArePositive
<1>2. SUFFICES ASSUME T # {} PROVE FALSE
  OBVIOUS
<1>3. PICK m \in T : \A k \in T : ~ (<<k, m>> \in OpToRel(<, Nat))
  BY <1>1, <1>2, NatLessThanWellFounded, WFMin
<1>4. \A k \in T : m <= k
  <2>1. SUFFICES ASSUME NEW k \in T, ~ (m <= k) PROVE FALSE
    OBVIOUS
  <2>2. k \in Nat /\ m \in Nat
    BY <1>1
  <2>3. k < m
    BY <2>1, <2>2
  <2>4. <<k, m>> \in OpToRel(<, Nat)
    BY <2>2, <2>3 DEF OpToRel
  <2> QED
    BY <1>3, <2>4
<1>5. a \in Nat \ {0} /\ m \in Nat \ {0} /\ m \in PowersOfTwo /\ a <= m /\ m % a # 0
  BY PowersArePositive
<1>6. a % a = 0
  <2>1. (1 * a + 0) % a = 0
    BY <1>5, DivUnique
  <2> QED
    BY <1>5, <2>1
<1>7. a < m /\ m # 1
  BY <1>5, <1>6
<1>8. PICK c \in PowersOfTwo : m = 2 * c
  BY <1>5, <1>7, Halves
<1>9. c \in Nat \ {0} /\ a <= c
  BY <1>7, <1>8, NoneBetween, PowersArePositive
<1>10. c % a = 0
  BY <1>4, <1>5, <1>8, <1>9
<1>11. PICK q \in Nat : c = q * a
  BY <1>5, <1>9, <1>10, ExactQuotient
<1>12. m = (2 * q) * a + 0 /\ 2 * q \in Nat
  BY <1>5, <1>8, <1>11
<1> QED
  BY <1>5, <1>12, DivUnique

LEMMA PowerDivides ==
  ASSUME NEW a \in PowersOfTwo, NEW b \in PowersOfTwo, a <= b
  PROVE  \E q \in Nat : b = q * a
<1>1. a \in Nat \ {0} /\ b \in Nat /\ b % a = 0
  BY Divides, PowersArePositive
<1> QED
  BY <1>1, ExactQuotient

-----------------------------------------------------------------------------
(* Divisions.                                                              *)

LEMMA ModOfMultiple ==
  ASSUME NEW x \in Nat, NEW m \in Nat \ {0}, NEW s \in Nat \ {0}
  PROVE  (x % (m * s)) % s = x % s
<1>0. \A i \in Nat \ {0} : \A j \in 0 .. i - 1 : j \in Nat
  OBVIOUS
<1>1. PICK w \in Nat \ {0} : w = m * s
  OBVIOUS
<1>2. PICK r \in Nat, k \in Nat : r = x % w /\ x = k * w + r
  <2>1. x % w \in Nat /\ x \div w \in Nat /\ x = (x \div w) * w + (x % w)
    BY Zenon, <1>1, <1>0, DivMod
  <2> QED
    BY <2>1
<1>3. PICK u \in 0 .. s - 1, v \in Nat : u = r % s /\ r = v * s + u
  <2>1. r % s \in 0 .. s - 1 /\ r \div s \in Nat /\ r = (r \div s) * s + (r % s)
    BY <1>2, DivMod
  <2> QED
    BY <2>1
<1>4. PICK q \in Nat : q = k * m + v
  OBVIOUS
<1>5. x = q * s + u
  <2>1. k * w = (k * m) * s
    BY <1>1
  <2> QED
    BY <1>2, <1>3, <1>4, <2>1
<1>6. x % s = u
  BY <1>3, <1>4, <1>5, DivUnique
<1> QED
  BY <1>1, <1>2, <1>3, <1>6

LEMMA DivMonotone ==
  ASSUME NEW x \in Nat, NEW y \in Nat, x <= y, NEW b \in Nat \ {0}
  PROVE  x \div b <= y \div b
<1> DEFINE p == x \div b
           q == y \div b
<1>1. p \in Nat /\ p * b <= x
  BY DivMod
<1>2. q \in Nat /\ y < (q + 1) * b
  BY DivMod
<1> HIDE DEF p, q
<1>3. SUFFICES ASSUME p >= q + 1 PROVE FALSE
  BY <1>1, <1>2 DEF p, q
<1>4. p * b >= (q + 1) * b
  BY <1>1, <1>2, <1>3
<1> QED
  BY <1>1, <1>2, <1>4

-----------------------------------------------------------------------------
(* The inductive invariant.                                                *)

TypeOK ==
  /\ name \in Names /\ page \in FirstPages /\ size \in FileSizes
  /\ {file_size, seg_no, seg_size, xlog_blcksz, readable_pages, read_lsn} \subseteq Nat
  /\ pc \in {"name", "seek", "read", "load", "end"}

\* What AcceptHeader has established of the fields.  The page itself may
\* have changed since: nothing is said of it before load_page has read it again.
Accepted ==
  /\ BlckszIsGood(xlog_blcksz) /\ SegSizeIsGood(seg_size, xlog_blcksz)
  /\ file_size <= seg_size /\ readable_pages = file_size \div xlog_blcksz
  /\ read_lsn = Wrapped(seg_no * seg_size)

OpenInv ==
  /\ TypeOK
  /\ pc # "end" => outcome = "none"
  /\ pc = "load" \/ outcome = "opened" => Accepted

LEMMA PowersAreNatural ==
  ASSUME NEW n, is_power_of_two(n)
  PROVE  n \in Nat \ {0}
  BY PowersListed, PowersArePositive

LEMMA WrappedIsNatural ==
  ASSUME NEW n \in Nat
  PROVE  Wrapped(n) \in Nat
<1>1. IdSpace * IdSpace \in Nat \ {0}
  BY SizeAssumption
<1> QED
  BY <1>1, DivMod DEF Wrapped

LEMMA NamesHaveNumbers ==
  ASSUME NEW n \in Names
  PROVE  n.tli \in Nat /\ n.log \in Nat /\ n.seg \in Nat
  BY InputAssumption, SizeAssumption DEF IsName

LEMMA InitOpenInv == Init => OpenInv
  BY DEF Init, OpenInv, TypeOK, Accepted

\* Of a header that is accepted, the sizes are good.
LEMMA AcceptedHeader ==
  ASSUME HeaderError = "none", page \in FirstPages
  PROVE  /\ BlckszIsGood(page.blcksz) /\ SegSizeIsGood(page.seg_size, page.blcksz)
         /\ ~ (file_size > page.seg_size)
         /\ page.blcksz \in Nat \ {0} /\ page.seg_size \in Nat \ {0}
<1>1. /\ BlckszIsGood(page.blcksz) /\ SegSizeIsGood(page.seg_size, page.blcksz)
      /\ ~ (file_size > page.seg_size)
  BY DEF HeaderError
<1> QED
  BY <1>1, PowersAreNatural DEF BlckszIsGood, SegSizeIsGood

LEMMA NextOpenInv ==
  ASSUME OpenInv, [Next]_vars
  PROVE  OpenInv'
<1> USE DEF OpenInv
<1>1. CASE ParseName
  BY <1>1 DEF ParseName, Fail, TypeOK, Accepted, file, fields
<1>2. CASE SeekEnd
  BY <1>2, InputAssumption DEF SeekEnd, TypeOK, file, fields
<1>3. CASE RejectHeader
  <2>1. HeaderError # "opened"
    BY DEF HeaderError
  <2> QED
    BY <1>3, <2>1 DEF RejectHeader, Fail, TypeOK, file, fields
<1>4. CASE AcceptHeader
  <2> DEFINE s == page.seg_size
             b == page.blcksz
             d == IdSpace \div s
  <2>1. /\ BlckszIsGood(b) /\ SegSizeIsGood(s, b) /\ file_size <= s
        /\ b \in Nat \ {0} /\ s \in Nat \ {0} /\ file_size \in Nat
    BY <1>4, AcceptedHeader DEF AcceptHeader, TypeOK
  <2>2. /\ seg_no' = Wrapped(name.log * d + name.seg) /\ seg_size' = s /\ xlog_blcksz' = b
        /\ readable_pages' = file_size \div b /\ read_lsn' = Wrapped(seg_no' * s)
        /\ pc' = "load" /\ outcome' = "none"
        /\ UNCHANGED <<name, page, size, file_size>>
    BY <1>4 DEF AcceptHeader, file
  <2> HIDE DEF s, b
  <2>3. d \in Nat
    BY <2>1, SizeAssumption, DivMod
  <2>4. name.log * d + name.seg \in Nat
    BY <2>3, NamesHaveNumbers DEF TypeOK
  <2>5. seg_no' \in Nat
    BY <2>2, <2>4, WrappedIsNatural
  <2>6. \A x \in Nat : x * s \in Nat
    BY <2>1
  <2>7. read_lsn' \in Nat
    BY <2>2, <2>5, <2>6, WrappedIsNatural
  <2>8. readable_pages' \in Nat
    BY <2>1, <2>2, DivMod
  <2>9. TypeOK'
    BY <2>1, <2>2, <2>5, <2>7, <2>8 DEF TypeOK
  <2>10. Accepted'
    BY <2>1, <2>2 DEF Accepted, BlckszIsGood, SegSizeIsGood, Wrapped, is_power_of_two
  <2> QED
    BY <2>2, <2>9, <2>10
<1>5. CASE LoadFirstPage
  <2>1. /\ pc = "load" /\ pc' = "end" /\ outcome' = (IF LoadError = "none" THEN "opened" ELSE LoadError)
        /\ UNCHANGED <<file, file_size, fields>>
    BY <1>5 DEF LoadFirstPage, Fail
  <2>2. TypeOK' /\ Accepted'
    BY <2>1 DEF TypeOK, Accepted, BlckszIsGood, SegSizeIsGood, Wrapped, file, fields
  <2>3. LoadError # "opened"
    BY DEF LoadError
  <2> QED
    BY <2>1, <2>2, <2>3
<1>6. CASE Environment
  BY <1>6 DEF Environment, TypeOK, Accepted, BlckszIsGood, SegSizeIsGood, Wrapped, fields
<1>7. CASE UNCHANGED vars
  BY <1>7 DEF vars, file, fields, TypeOK, Accepted, BlckszIsGood, SegSizeIsGood, Wrapped
<1> QED
  BY <1>1, <1>2, <1>3, <1>4, <1>5, <1>6, <1>7 DEF Next, End

LEMMA SpecOpenInv == Spec => []OpenInv
  BY InitOpenInv, NextOpenInv, PTL DEF Spec

-----------------------------------------------------------------------------
(* What an opened segment is.                                              *)

\* That lsn is the first of page n, for segments of s bytes in pages of b bytes.
LeadsBack(lsn, s, b, n) == (lsn % s) \div b = n /\ (lsn % s) % b = 0

\* The LSN of page n of the segment leads back to page n, for the divisor d of
\* the size of the LSN space.
LEMMA RoundTrip ==
  ASSUME NEW d \in Nat \ {0}, NEW s \in Nat \ {0}, NEW b \in Nat \ {0}, NEW g \in Nat,
         NEW p \in Nat, p * b = s, NEW n \in 0 .. p - 1
  PROVE  LeadsBack((g * s + n * b) % (d * s), s, b, n)
<1>1. g * s + n * b \in Nat /\ n * b \in Nat
  OBVIOUS
<1>2. n * b < s
  <2>1. n * b <= (p - 1) * b
    OBVIOUS
  <2> QED
    BY <2>1
<1>3. (g * s + n * b) % s = n * b
  BY <1>1, <1>2, DivUnique
<1>4. ((g * s + n * b) % (d * s)) % s = n * b
  BY ZenonT(20), <1>1, <1>3, ModOfMultiple
<1>5. (n * b + 0) \div b = n /\ (n * b + 0) % b = 0
  BY DivUnique
<1> QED
  BY <1>1, <1>4, <1>5 DEF LeadsBack

LEMMA SpaceIsWholeSegments ==
  ASSUME NEW s, is_power_of_two(s), s <= MaxSeg
  PROVE  \E d \in Nat \ {0} : IdSpace * IdSpace = d * s
<1>1. s \in Nat \ {0}
  BY PowersAreNatural
<1>2. IdSpace % s = 0
  BY SizeAssumption DEF is_power_of_two
<1>3. PICK q \in Nat : IdSpace = q * s
  BY <1>1, <1>2, ExactQuotient, SizeAssumption
<1>4. IdSpace * IdSpace = (IdSpace * q) * s /\ IdSpace * q \in Nat
  BY <1>1, <1>3, SizeAssumption
<1>5. IdSpace * q # 0
  BY <1>1, <1>3, SizeAssumption
<1> QED
  BY <1>4, <1>5

LEMMA AcceptedIsSound ==
  ASSUME TypeOK, Accepted
  PROVE  GeometryIsSound
<1> DEFINE s == seg_size
           b == xlog_blcksz
<1>1. /\ is_power_of_two(s) /\ is_power_of_two(b) /\ b <= s /\ s <= MaxSeg /\ LongHdr <= b
  BY DEF Accepted, BlckszIsGood, SegSizeIsGood
<1>2. s \in PowersOfTwo /\ b \in PowersOfTwo /\ MaxAlign \in PowersOfTwo
  BY <1>1, PowersListed, SizeAssumption
<1>3. s \in Nat \ {0} /\ b \in Nat \ {0} /\ MaxAlign \in Nat \ {0} /\ LongHdr \in Nat
  BY <1>2, PowersArePositive, SizeAssumption
<1>4. seg_no \in Nat /\ file_size \in Nat /\ readable_pages \in Nat /\ read_lsn \in Nat
  BY DEF TypeOK
<1> HIDE DEF s, b
<1>5. LongHdr < b
  BY <1>1, <1>3, SizeAssumption
<1>6. b % MaxAlign = 0
  BY <1>2, <1>3, <1>5, Divides, SizeAssumption
<1>7. PICK p \in Nat : s = p * b
  BY <1>1, <1>2, PowerDivides
<1>8. p > 0 /\ s \div b = p
  <2>1. p > 0
    BY <1>3, <1>7
  <2>2. (p * b + 0) \div b = p
    BY <1>3, <1>7, DivUnique
  <2> QED
    BY <1>3, <1>7, <2>1, <2>2
<1>9. readable_pages <= p
  <2>1. file_size <= s /\ readable_pages = file_size \div b
    BY DEF Accepted, s, b
  <2> QED
    BY <1>3, <1>4, <1>8, <2>1, DivMonotone
<1>10. PICK d \in Nat \ {0} : IdSpace * IdSpace = d * s
  BY <1>1, SpaceIsWholeSegments
<1>11. \A n \in 0 .. p - 1 : LeadsBack((seg_no * s + n * b) % (d * s), s, b, n)
  <2>1. p * b = s
    BY <1>7
  <2> QED
    BY Zenon, <1>3, <1>4, <2>1, RoundTrip
<1>12. read_lsn % s = 0
  <2>1. read_lsn = (seg_no * s) % (d * s)
    BY <1>10 DEF Accepted, Wrapped, s
  <2>2. seg_no * s \in Nat /\ (seg_no * s + 0) % s = 0
    BY <1>3, <1>4, DivUnique
  <2>3. read_lsn % s = (seg_no * s) % s
    BY <1>3, <1>10, <2>1, <2>2, ModOfMultiple
  <2> QED
    BY <1>3, <1>4, <2>2, <2>3
<1>13. read_lsn % MaxAlign = 0
  <2>0. MaxAlign <= s
    BY <1>1, <1>3, SizeAssumption
  <2>1. PICK k \in Nat : read_lsn = k * s
    BY <1>3, <1>4, <1>12, ExactQuotient
  <2>2. PICK q \in Nat : s = q * MaxAlign
    BY <1>1, <1>2, <1>3, <1>5, <2>0, PowerDivides
  <2>3. read_lsn = (k * q) * MaxAlign + 0 /\ k * q \in Nat
    BY <1>3, <2>1, <2>2
  <2> QED
    BY <1>3, <2>3, DivUnique
<1>14. pages_per_segment = p
  BY <1>8 DEF pages_per_segment, s, b
<1>15. \A n \in 0 .. p - 1 : lsn_to_page_no(page_start_lsn(n)) = n
                               /\ lsn_to_page_offset(page_start_lsn(n)) = 0
  BY <1>10, <1>11 DEF lsn_to_page_no, lsn_to_page_offset, page_start_lsn, Wrapped, LeadsBack, s, b
<1> QED
  BY <1>4, <1>5, <1>6, <1>7, <1>8, <1>9, <1>13, <1>14, <1>15 DEF GeometryIsSound, s, b

(***************************************************************************)
(* The geometry of every segment that WALReader::open returns is one that  *)
(* WalReader can work with, for all sizes up to the limits of the code.    *)
(***************************************************************************)
THEOREM OpenedGeometryIsSound == Spec => []GeometryIsSound
<1>1. OpenInv => GeometryIsSound
  BY AcceptedIsSound DEF OpenInv, GeometryIsSound
<1> QED
  BY <1>1, SpecOpenInv, PTL

-----------------------------------------------------------------------------
(* A segment that stays what its name says.                                *)

\* What the reader knows of it so far.
Opening(b, s) ==
  /\ pc \in {"name", "seek", "read", "load"} => outcome = "none"
  /\ pc \in {"read", "load"} => file_size <= s
  /\ pc = "load" => xlog_blcksz = b /\ seg_size = s /\ page_start_lsn(0) = page.pageaddr
  /\ pc = "end" => outcome = "opened"

\* The number of the segment, and its first LSN: nothing wraps around.
LEMMA NameGivesStart ==
  ASSUME NEW d \in Nat, NEW s \in Nat \ {0}, d * s = IdSpace,
         NEW log \in 0 .. IdSpace - 1, NEW seg \in 0 .. d - 1
  PROVE  /\ log * d + seg \in 0 .. IdSpace * IdSpace - 1
         /\ (log * d + seg) * s = log * IdSpace + seg * s
         /\ log * IdSpace + seg * s \in 0 .. IdSpace * IdSpace - 1
<1>1. IdSpace \in Nat \ {0} /\ d > 0
  BY SizeAssumption
<1>2. (log * d + seg) * s = log * (d * s) + seg * s
  OBVIOUS
<1>3. seg * s <= (d - 1) * s /\ (d - 1) * s = d * s - s
  OBVIOUS
<1>4. seg * s \in 0 .. IdSpace - 1
  BY <1>1, <1>3
<1>5. log * IdSpace <= (IdSpace - 1) * IdSpace /\ log * IdSpace \in Nat
  BY <1>1
<1>6. log * IdSpace + seg * s \in 0 .. IdSpace * IdSpace - 1
  BY <1>1, <1>4, <1>5
<1>7. log * d + seg \in Nat /\ log * d + seg <= (log * d + seg) * s
  OBVIOUS
<1> QED
  BY <1>1, <1>2, <1>6, <1>7

LEMMA OpeningStep ==
  ASSUME NEW b, NEW s, HoldsSegment(b, s), HoldsSegment(b, s)', OpenInv, Opening(b, s),
         [Next]_vars
  PROVE  Opening(b, s)'
<1> USE DEF Opening
<1>1. CASE ParseName
  BY <1>1 DEF ParseName, Fail, HoldsSegment, file, fields
<1>2. CASE SeekEnd
  BY <1>2 DEF SeekEnd, HoldsSegment, file, fields
<1>3. CASE RejectHeader
  <2>1. pc = "read" /\ HeaderError # "none" /\ file_size <= s
    BY <1>3 DEF RejectHeader
  <2>2. size \in Nat /\ file_size \in Nat /\ DefaultBlcksz \in Nat /\ s \in Nat
    BY InputAssumption, SizeAssumption, PowersAreNatural DEF OpenInv, TypeOK, HoldsSegment
  <2>3. ~ (size < DefaultBlcksz) /\ ~ (file_size > s)
    BY <2>1, <2>2 DEF HoldsSegment
  <2>4. HeaderError = "none"
    BY <2>3 DEF HeaderError, HoldsSegment, BlckszIsGood, SegSizeIsGood
  <2> QED
    BY <2>1, <2>4
<1>4. CASE AcceptHeader
  <2> DEFINE d == IdSpace \div s
  <2>1. /\ pc' = "load" /\ outcome' = outcome /\ xlog_blcksz' = b /\ seg_size' = s
        /\ seg_no' = Wrapped(name.log * d + name.seg) /\ file_size' = file_size /\ page' = page
        /\ pc = "read" /\ name.seg < d /\ page.pageaddr = name.log * IdSpace + name.seg * s
    BY <1>4 DEF AcceptHeader, HoldsSegment, file
  <2>2. s \in Nat \ {0} /\ IdSpace % s = 0 /\ IdSpace \in Nat \ {0} /\ b \in Nat
    BY PowersAreNatural, SizeAssumption DEF HoldsSegment, is_power_of_two
  <2>3. d \in Nat /\ d * s = IdSpace
    <3>1. d \in Nat /\ IdSpace = d * s + (IdSpace % s)
      BY <2>2, DivMod
    <3> QED
      BY <2>2, <3>1
  <2>4. name.log \in 0 .. IdSpace - 1 /\ name.seg \in Nat
    BY InputAssumption DEF OpenInv, TypeOK, IsName
  <2> HIDE DEF d
  <2>5. name.seg \in 0 .. d - 1
    BY <2>1, <2>3, <2>4
  <2>6. /\ name.log * d + name.seg \in 0 .. IdSpace * IdSpace - 1
        /\ (name.log * d + name.seg) * s = page.pageaddr
        /\ page.pageaddr \in 0 .. IdSpace * IdSpace - 1
    <3>1. /\ name.log * d + name.seg \in 0 .. IdSpace * IdSpace - 1
          /\ (name.log * d + name.seg) * s = name.log * IdSpace + name.seg * s
          /\ name.log * IdSpace + name.seg * s \in 0 .. IdSpace * IdSpace - 1
      <4>1. ASSUME NEW log \in 0 .. IdSpace - 1, NEW seg \in 0 .. d - 1
            PROVE  /\ log * d + seg \in 0 .. IdSpace * IdSpace - 1
                   /\ (log * d + seg) * s = log * IdSpace + seg * s
                   /\ log * IdSpace + seg * s \in 0 .. IdSpace * IdSpace - 1
        BY <2>2, <2>3, NameGivesStart
      <4> QED
        BY <2>4, <2>5, <4>1
    <3>2. page.pageaddr = name.log * IdSpace + name.seg * s
      BY <2>1
    <3> QED
      BY <3>1, <3>2
  <2>7. \A n \in 0 .. IdSpace * IdSpace - 1 : Wrapped(n) = n
    <3>1. IdSpace * IdSpace \in Nat \ {0}
      BY <2>2
    <3>2. ASSUME NEW m \in Nat \ {0}, NEW n \in 0 .. m - 1 PROVE n % m = n
      OBVIOUS
    <3> QED
      BY <3>1, <3>2 DEF Wrapped
  <2>8. seg_no' * s + 0 * b = page.pageaddr
    BY <2>1, <2>2, <2>6, <2>7
  <2> QED
    BY <2>1, <2>6, <2>7, <2>8 DEF page_start_lsn, Wrapped
<1>5. CASE LoadFirstPage
  <2>1. size \in Nat /\ ~ (size < xlog_blcksz)
    BY <1>5, InputAssumption, PowersAreNatural DEF LoadFirstPage, OpenInv, TypeOK, HoldsSegment
  <2>2. LoadError = "none"
    BY <1>5, <2>1 DEF LoadFirstPage, LoadError, HoldsSegment
  <2> QED
    BY <1>5, <2>2 DEF LoadFirstPage, file, fields
<1>6. CASE Environment
  BY <1>6 DEF Environment, HoldsSegment, fields, page_start_lsn, Wrapped
<1>7. CASE UNCHANGED vars
  BY <1>7 DEF vars, file, fields, page_start_lsn, Wrapped
<1> QED
  BY <1>1, <1>2, <1>3, <1>4, <1>5, <1>6, <1>7 DEF Next, End

(***************************************************************************)
(* No segment of a server is turned away, for all sizes up to the limits   *)
(* of the code and every name, as long as the file stays that segment:     *)
(* neither by the quick checks of its header nor by load_page(0), which    *)
(* computes the LSN of the page from the name with wrapping arithmetic.    *)
(***************************************************************************)
THEOREM SegmentsAreOpened == Spec => SoundIsOpened
<1>1. ASSUME NEW sizes \in {[b |-> p.blcksz, s |-> p.seg_size] : p \in FirstPages}
      PROVE  Spec => ([]HoldsSegment(sizes.b, sizes.s) => [](pc = "end" => outcome = "opened"))
  <2>1. Init => Opening(sizes.b, sizes.s)
    BY DEF Init, Opening
  <2>2. HoldsSegment(sizes.b, sizes.s) /\ HoldsSegment(sizes.b, sizes.s)' /\ OpenInv
          /\ Opening(sizes.b, sizes.s) /\ [Next]_vars => Opening(sizes.b, sizes.s)'
    BY OpeningStep
  <2>3. Opening(sizes.b, sizes.s) => (pc = "end" => outcome = "opened")
    BY DEF Opening
  <2> QED
    BY <2>1, <2>2, <2>3, SpecOpenInv, PTL DEF Spec
<1> QED
  BY <1>1 DEF SoundIsOpened

(***************************************************************************)
(* Every number that the reader keeps is a natural number, whatever the    *)
(* file name and the header say.                                           *)
(***************************************************************************)
THEOREM OpenTypes == Spec => []TypeOK
<1>1. OpenInv => TypeOK
  BY DEF OpenInv
<1> QED
  BY <1>1, SpecOpenInv, PTL
=============================================================================
