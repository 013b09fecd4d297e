---------------------------- MODULE DescribeProofs ----------------------------
(***************************************************************************)
(* Proofs of the properties of Describe, for payloads of any bytes.        *)
(***************************************************************************)
EXTENDS StructureProofs

-----------------------------------------------------------------------------
(* The cursor and the lines.                                               *)

\* What has been read before each item of the program for j.
Start(j) == IF j.block = MAIN THEN {} ELSE {"flags"}
ProgramOf(j) == ParserOf(j.rmgr, j.info, j.block)
Known(j) == CHOOSE g : Notes(ProgramOf(j), Start(j), {}, g)

LEMMA ProgramFlows ==
  ASSUME NEW j
  PROVE  IsSeq(ProgramOf(j)) /\ Notes(ProgramOf(j), Start(j), {}, Known(j))
<1>1. Flow(ProgramOf(j), Start(j), {}) BY MainFlows, BlockFlows DEF ProgramOf, ParserOf, Start
<1>2. IsSeq(ProgramOf(j)) /\ \E g : Notes(ProgramOf(j), Start(j), {}, g) BY <1>1 DEF Flow
<1> QED BY <1>2 DEF Known

\* A table of the most lines after k items of p.
Table(p, n, f) ==
  f = [k \in 0 .. n |-> IF k = 0 THEN 1 ELSE f[k - 1] + LinesOf(p[k])]

LEMMA TableExists ==
  ASSUME NEW p, NEW n \in Nat, \A k \in 1 .. n : LinesOf(p[k]) \in Nat
  PROVE  \E f : Table(p, n, f) /\ f \in [0 .. n -> Nat]
<1> DEFINE P(m) == \E f : Table(p, m, f) /\ f \in [0 .. m -> Nat]
           Bad == {m \in 0 .. n : ~P(m)}
<1>1. P(0)
  <2> DEFINE f == [k \in 0 .. 0 |-> 1]
  <2>1. f \in [0 .. 0 -> Nat] OBVIOUS
  <2>2. Table(p, 0, f) BY DEF Table
  <2> QED BY <2>1, <2>2
<1>2. ASSUME NEW m \in 1 .. n, P(m - 1) PROVE P(m)
  <2>1. PICK f : Table(p, m - 1, f) /\ f \in [0 .. m - 1 -> Nat] BY <1>2
  <2> DEFINE h == [k \in 0 .. m |-> IF k = m THEN f[m - 1] + LinesOf(p[m]) ELSE f[k]]
  <2>2. m - 1 \in 0 .. m - 1 /\ f[m - 1] \in Nat /\ LinesOf(p[m]) \in Nat BY <2>1
  <2>3. h \in [0 .. m -> Nat]
    <3>1. ASSUME NEW k \in 0 .. m, k # m PROVE f[k] \in Nat BY <2>1, <3>1
    <3> QED BY <2>2, <3>1
  <2>4. /\ \A k \in 0 .. m - 1 : h[k] = f[k]
        /\ h[m] = f[m - 1] + LinesOf(p[m])
    OBVIOUS
  <2>5. \A k \in 0 .. m - 1 : f[k] = IF k = 0 THEN 1 ELSE f[k - 1] + LinesOf(p[k]) BY <2>1 DEF Table
  <2>6. h = [k \in 0 .. m |-> h[k]] OBVIOUS
  <2> HIDE DEF h
  <2>7. ASSUME NEW k \in 0 .. m
        PROVE  h[k] = IF k = 0 THEN 1 ELSE h[k - 1] + LinesOf(p[k])
    <3>1. CASE k = m BY <2>4, <3>1
    <3>2. CASE k # m /\ k # 0
      <4>1. k \in 0 .. m - 1 /\ k - 1 \in 0 .. m - 1 BY <3>2
      <4> QED BY <2>4, <2>5, <3>2, <4>1
    <3>3. CASE k # m /\ k = 0
      <4>1. k \in 0 .. m - 1 BY <3>3
      <4> QED BY <2>4, <2>5, <3>3, <4>1
    <3> QED BY <3>1, <3>2, <3>3
  <2>8. Table(p, m, h) BY <2>6, <2>7 DEF Table
  <2> QED BY <2>3, <2>8
<1> HIDE DEF P
<1>3. Bad = {}
  <2> SUFFICES ASSUME Bad # {} PROVE FALSE OBVIOUS
  <2>1. PICK m \in Bad : \A x \in Bad : m <= x
    <3>1. Bad \subseteq Nat OBVIOUS
    <3> HIDE DEF Bad
    <3> QED BY <3>1, LeastOf
  <2>2. m \in 1 .. n BY <1>1, <2>1
  <2>3. m - 1 \in 0 .. n /\ m - 1 \notin Bad BY <2>1, <2>2
  <2> QED BY <1>2, <2>1, <2>2, <2>3
<1> QED BY SMTT(30), <1>3 DEF P
LEMMA TableGrows ==
  ASSUME NEW p, NEW n \in Nat, NEW f, Table(p, n, f), f \in [0 .. n -> Nat],
         \A k \in 1 .. n : LinesOf(p[k]) \in Nat
  PROVE  /\ f[0] = 1 /\ \A k \in 1 .. n : f[k] = f[k - 1] + LinesOf(p[k])
         /\ \A k, m \in 0 .. n : k <= m => f[k] <= f[m]
<1>1. f[0] = 1 /\ \A k \in 1 .. n : f[k] = f[k - 1] + LinesOf(p[k]) BY DEF Table
<1>2. ASSUME NEW k \in 0 .. n, NEW m \in 0 .. n, k <= m, f[k] > f[m] PROVE FALSE
  <2> DEFINE S == {x \in k .. n : f[k] > f[x]}
  <2>1. S \subseteq Nat /\ m \in S BY <1>2
  <2>2. \A x \in S : x \in k .. n /\ f[k] > f[x] OBVIOUS
  <2>3. \A x \in k .. n : x \notin S => ~(f[k] > f[x]) OBVIOUS
  <2> HIDE DEF S
  <2>4. PICK x \in S : \A y \in S : x <= y BY <2>1, LeastOf
  <2>5. x \in k .. n /\ f[k] > f[x] /\ x # k BY <2>2, <2>4
  <2>6. x - 1 \in k .. n /\ x \in 1 .. n /\ x - 1 \in 0 .. n BY <2>5
  <2>7. ~(f[k] > f[x - 1]) BY <2>1, <2>3, <2>4, <2>6
  <2>8. f[x] = f[x - 1] + LinesOf(p[x]) /\ LinesOf(p[x]) \in Nat BY <1>1, <2>6
  <2>9. f[x - 1] \in Nat /\ f[k] \in Nat BY <2>6
  <2> HIDE DEF LinesOf
  <2> QED BY <2>5, <2>7, <2>8, <2>9
<1> QED BY <1>1, <1>2

\* The table that MostLines makes for j.
Most(j) ==
  LET most[k \in 0 .. Len(ProgramOf(j))] ==
        IF k = 0 THEN 1 ELSE most[k - 1] + LinesOf(ProgramOf(j)[k])
  IN  most

LEMMA MostIs == Parser = ProgramOf(job) /\ MostLines(Parser) = Most(job)[Len(Parser)]
<1>1. Parser = ProgramOf(job) BY DEF Parser, ProgramOf
<1>2. MostLines(ProgramOf(job)) = Most(job)[Len(ProgramOf(job))] BY DEF MostLines, Most
<1> QED BY <1>1, <1>2

LEMMA MostGrows ==
  ASSUME NEW j
  PROVE  LET n == Len(ProgramOf(j))
             f == Most(j)
         IN  /\ n \in Nat /\ f \in [0 .. n -> Nat] /\ f[0] = 1
             /\ \A k \in 1 .. n : f[k] = f[k - 1] + LinesOf(ProgramOf(j)[k])
             /\ \A k, m \in 0 .. n : k <= m => f[k] <= f[m]
<1> DEFINE p == ProgramOf(j)
           n == Len(p)
           f == Most(j)
<1>1. n \in Nat BY ProgramFlows, SeqLen
<1>2. \A k \in 1 .. n : LinesOf(p[k]) \in Nat
  <2>1. \A k \in 1 .. n : Step(p[k], Known(j)[k], Known(j)[k + 1]) BY ProgramFlows DEF Notes
  <2> HIDE DEF p
  <2> QED BY <2>1 DEF Step, LinesOf
<1> HIDE DEF p, n
<1>3. PICK h : Table(p, n, h) /\ h \in [0 .. n -> Nat] BY <1>1, <1>2, TableExists
<1>4. Table(p, n, f) BY <1>3 DEF Most, Table, p, n
<1>5. f \in [0 .. n -> Nat]
  <2> HIDE DEF f
  <2> DEFINE S == {x \in 0 .. n : f[x] \notin Nat}
  <2>1. f[0] = 1 /\ \A k \in 1 .. n : f[k] = f[k - 1] + LinesOf(p[k]) BY <1>1, <1>4 DEF Table
  <2>2. ASSUME S # {} PROVE FALSE
    <3>1. S \subseteq Nat OBVIOUS
    <3>2. \A x \in 0 .. n : x \notin S => f[x] \in Nat OBVIOUS
    <3>3. \A x \in S : x \in 0 .. n /\ f[x] \notin Nat OBVIOUS
    <3> HIDE DEF S
    <3>4. PICK x \in S : \A y \in S : x <= y BY <2>2, <3>1, LeastOf
    <3>5. x \in 1 .. n BY <2>1, <3>3, <3>4
    <3>6. x - 1 \in 0 .. n /\ f[x - 1] \in Nat
      <4>1. x - 1 \in 0 .. n /\ ~(x <= x - 1) BY <1>1, <3>5
      <4>2. x - 1 \notin S BY <3>4, <4>1
      <4> QED BY <3>2, <4>1, <4>2
    <3>7. f[x] \in Nat BY <1>2, <2>1, <3>5, <3>6
    <3> QED BY <3>3, <3>4, <3>7
  <2>3. \A x \in 0 .. n : f[x] \in Nat BY <2>2
  <2> HIDE DEF S
  <2> QED BY <1>4, <2>3 DEF Table
<1>6. /\ f[0] = 1 /\ \A k \in 1 .. n : f[k] = f[k - 1] + LinesOf(p[k])
      /\ \A k, m \in 0 .. n : k <= m => f[k] <= f[m]
  BY <1>1, <1>2, <1>4, <1>5, TableGrows
<1> QED BY <1>1, <1>5, <1>6 DEF p, n
(***************************************************************************)
(* What holds while a payload is described: the cursor is in it, the       *)
(* fields that an item needs have been read whatever way led to it, and    *)
(* the lines are those that the items before it may push.                  *)
(***************************************************************************)
Counted(g, names) == \A n \in names : n \in DOMAIN g /\ (n \in Numbers => g[n] \in Int)

Describing ==
  /\ job \in Jobs
  /\ pos \in 0 .. job.len
  /\ item \in 1 .. Len(Parser) + 1
  /\ IsSeq(lines)
  /\ elem \in Nat
  /\ item <= Len(Parser) => elem <= LinesOf(Parser[item]) - 1
  /\ item > Len(Parser) => elem = 0
  /\ Len(lines) <= Most(job)[item - 1] + elem
  /\ Counted(got, Known(job)[item])

LEMMA JobTypes == job \in Jobs => job.len \in Nat
BY DescribeAssumption

LEMMA DescribingInit == Init => Describing
<1> SUFFICES ASSUME Init PROVE Describing OBVIOUS
<1> DEFINE n == Len(Parser)
<1>1. /\ job \in Jobs /\ item = 1 /\ elem = 0 /\ pos = 0 /\ lines = <<>>
      /\ got = IF job.block = MAIN THEN <<>> ELSE [flags |-> job.main_flags]
  BY DEF Init
<1>2. /\ Parser = ProgramOf(job) /\ n \in Nat /\ Most(job)[0] = 1
      /\ \A k \in 1 .. n : LinesOf(ProgramOf(job)[k]) \in Nat \ {0}
  <2>1. Parser = ProgramOf(job) /\ n \in Nat /\ Most(job)[0] = 1 BY MostIs, MostGrows
  <2>2. \A k \in 1 .. n : Step(ProgramOf(job)[k], Known(job)[k], Known(job)[k + 1])
    BY <2>1, ProgramFlows DEF Notes
  <2>3. \A k \in 1 .. n : LinesOf(ProgramOf(job)[k]) \in Nat \ {0} BY <2>2 DEF Step, LinesOf
  <2> QED BY <2>1, <2>3
<1>3. Counted(got, Known(job)[1])
  <2>1. Known(job)[1] \subseteq Start(job) BY ProgramFlows DEF Notes
  <2>2. CASE job.block = MAIN BY <2>1, <2>2 DEF Start, Counted
  <2>3. CASE job.block # MAIN
    <3>1. "flags" \in DOMAIN got /\ "flags" \notin Numbers BY <1>1, <2>3 DEF Numbers
    <3> QED BY <2>1, <2>3, <3>1 DEF Start, Counted
  <2> QED BY <2>2, <2>3
<1>4. pos \in 0 .. job.len BY <1>1, JobTypes
<1>5. IsSeq(lines) /\ Len(lines) = 0
  <2>1. <<>> \in Seq({}) /\ Len(<<>>) = 0 OBVIOUS
  <2> QED BY <1>1, <2>1 DEF IsSeq
<1>6. item <= n => elem <= LinesOf(Parser[item]) - 1
  <2> HIDE DEF n
  <2> QED BY <1>1, <1>2
<1> QED BY <1>1, <1>2, <1>3, <1>4, <1>5, <1>6 DEF Describing

\* An item that is next.
LEMMA ItemIs ==
  ASSUME Describing, NEW it \in NextItems
  PROVE  /\ item \in 1 .. Len(Parser) /\ it = Parser[item] /\ Len(Parser) \in Nat
         /\ Step(it, Known(job)[item], Known(job)[item + 1])
         /\ it.kind = "if" => /\ item + it.jump <= Len(Parser)
                              /\ Known(job)[item + 1 + it.jump] \subseteq Known(job)[item]
         /\ Most(job)[item] = Most(job)[item - 1] + LinesOf(it)
         /\ Most(job)[item - 1] \in Nat /\ LinesOf(it) \in Nat \ {0}
         /\ elem <= LinesOf(it) - 1
         /\ \A k \in item .. Len(Parser) : Most(job)[k] \in Nat /\ Most(job)[item] <= Most(job)[k]
<1> DEFINE n == Len(Parser)
<1>1. Parser = ProgramOf(job) /\ n \in Nat BY MostIs, MostGrows
<1>2. item \in 1 .. n /\ it = Parser[item] BY <1>1 DEF Describing, NextItems
<1>3. /\ Step(it, Known(job)[item], Known(job)[item + 1])
      /\ it.kind = "if" => /\ item + it.jump <= n
                           /\ Known(job)[item + 1 + it.jump] \subseteq Known(job)[item]
  BY <1>1, <1>2, ProgramFlows DEF Notes
<1>4. LinesOf(it) \in Nat \ {0} BY <1>3 DEF Step, LinesOf
<1>5. elem <= LinesOf(it) - 1 BY <1>2 DEF Describing
<1>6. /\ Most(job) \in [0 .. n -> Nat]
      /\ \A k \in 1 .. n : Most(job)[k] = Most(job)[k - 1] + LinesOf(Parser[k])
      /\ \A k, m \in 0 .. n : k <= m => Most(job)[k] <= Most(job)[m]
  BY <1>1, MostGrows
<1> HIDE DEF n
<1>7. Most(job)[item] = Most(job)[item - 1] + LinesOf(it) /\ Most(job)[item - 1] \in Nat
  BY <1>1, <1>2, <1>6
<1>8. \A k \in item .. n : Most(job)[k] \in Nat /\ Most(job)[item] <= Most(job)[k]
  BY <1>1, <1>2, <1>6
<1> QED BY <1>1, <1>2, <1>3, <1>4, <1>5, <1>7, <1>8 DEF n

\* To an item further on, with no more lines than those in between may push.
LEMMA Advance ==
  ASSUME Describing, NEW it \in NextItems, job' = job, elem' = 0, pos' \in 0 .. job.len,
         NEW k \in item .. Len(Parser), item' = k + 1,
         IsSeq(lines'), Len(lines') <= Most(job)[item],
         Counted(got', Known(job)[k + 1])
  PROVE  Describing'
<1>1. Parser' = Parser BY DEF Parser
<1>2. /\ item \in 1 .. Len(Parser) /\ Len(Parser) \in Nat
      /\ Most(job)[k] \in Nat /\ Most(job)[item] \in Nat /\ Most(job)[item] <= Most(job)[k]
  BY ItemIs
<1>3. item' \in 1 .. Len(Parser) + 1 /\ item' - 1 = k BY <1>2
<1>4. Len(lines') <= Most(job)[item' - 1] + elem'
  <2>1. Len(lines') \in Nat BY SeqLen
  <2> QED BY <1>2, <1>3, <2>1
<1>5. item' <= Len(Parser) => elem' <= LinesOf(Parser[item']) - 1
  <2>1. ASSUME NEW m \in 1 .. Len(Parser) PROVE LinesOf(Parser[m]) \in Nat \ {0}
    <3>1. Parser = ProgramOf(job) BY MostIs
    <3>2. Step(Parser[m], Known(job)[m], Known(job)[m + 1]) BY <3>1, ProgramFlows DEF Notes
    <3> QED BY <3>2 DEF Step, LinesOf
  <2> QED BY <1>2, <1>3, <2>1
<1>6. Most(job)' = Most(job) /\ Known(job)' = Known(job) OBVIOUS
<1> QED BY <1>1, <1>2, <1>3, <1>4, <1>5, <1>6 DEF Describing

\* ... to the next one, by an item that controls nothing, with at most one line more.
LEMMA AdvanceOne ==
  ASSUME Describing, NEW it \in NextItems, job' = job, elem' = elem, pos' \in 0 .. job.len,
         item' = item + 1, it.kind # "array", got' = got \/ it.kind \in Controls,
         it.kind \in Controls => /\ \A n \in DOMAIN got \ {it.name} :
                                       n \in DOMAIN got' /\ got'[n] = got[n]
                                 /\ it.name \in DOMAIN got'
                                 /\ it.name \in Numbers => got'[it.name] \in Int,
         lines' = lines \/ \E l : lines' = Append(lines, l)
  PROVE  Describing'
<1>1. /\ item \in 1 .. Len(Parser) /\ Len(Parser) \in Nat
      /\ Step(it, Known(job)[item], Known(job)[item + 1])
      /\ Most(job)[item] = Most(job)[item - 1] + LinesOf(it)
      /\ Most(job)[item - 1] \in Nat /\ elem <= LinesOf(it) - 1
  BY ItemIs
<1>2. LinesOf(it) = 1 /\ elem = 0
  <2>1. LinesOf(it) = 1 BY DEF LinesOf
  <2> QED BY <1>1, <2>1 DEF Describing
<1>3. IsSeq(lines') /\ Len(lines') <= Most(job)[item]
  <2>1. Len(lines) \in Nat /\ Len(lines) <= Most(job)[item - 1] /\ IsSeq(lines)
    BY <1>1, <1>2, SeqLen DEF Describing
  <2>2. IsSeq(lines') /\ (Len(lines') = Len(lines) \/ Len(lines') = Len(lines) + 1)
    BY <2>1, SeqMayGrow
  <2> QED BY <1>1, <1>2, <2>1, <2>2
<1>4. Counted(got', Known(job)[item + 1])
  <2>1. Known(job)[item + 1] \subseteq Known(job)[item] \cup Gives(it) BY <1>1 DEF Step
  <2>2. Counted(got, Known(job)[item]) BY DEF Describing
  <2>3. CASE it.kind \notin Controls BY <2>1, <2>2, <2>3 DEF Gives, Counted
  <2>4. CASE it.kind \in Controls
    <3>1. ASSUME NEW n \in Known(job)[item + 1]
          PROVE  n \in DOMAIN got' /\ (n \in Numbers => got'[n] \in Int)
      <4>1. n = it.name \/ (n # it.name /\ n \in Known(job)[item]) BY <2>1, <2>4 DEF Gives
      <4>2. CASE n = it.name BY <2>4, <4>2
      <4>3. CASE n # it.name /\ n \in Known(job)[item]
        <5>1. n \in DOMAIN got \ {it.name} /\ (n \in Numbers => got[n] \in Int)
          BY <2>2, <4>3 DEF Counted
        <5> QED BY <2>4, <5>1
      <4> QED BY <4>1, <4>2, <4>3
    <3> QED BY <3>1 DEF Counted
  <2> QED BY <2>3, <2>4
<1>5. item \in item .. Len(Parser) /\ elem' = 0 BY <1>1, <1>2
<1> QED BY <1>3, <1>4, <1>5, Advance

LEMMA Widths ==
  ASSUME Describing, NEW it \in NextItems
  PROVE  /\ job.len \in Nat /\ pos \in Nat /\ remaining \in Nat /\ pos + remaining = job.len
         /\ AfterRead(it.width) \in 0 .. job.len
         /\ \A n \in Int : skip_to(n) \in 0 .. job.len
<1>1. job.len \in Nat /\ pos \in 0 .. job.len /\ it.width \in Nat
  BY JobTypes, ItemIs DEF Describing, Step
<1>2. remaining = job.len - pos BY <1>1 DEF remaining, AtLeast0
<1>3. AfterRead(it.width) \in 0 .. job.len BY <1>1, <1>2 DEF AfterRead, Reads
<1>4. ASSUME NEW n \in Int PROVE skip_to(n) \in 0 .. job.len
  <2>1. Unsigned(pos + n) \in Nat
    <3>1. pos + n \in Int /\ Usize \in Nat \ {0} BY <1>1, DescribeAssumption
    <3> HIDE DEF Describing
    <3> DEFINE m == pos + n
    <3> HIDE DEF m
    <3> SUFFICES m \in Int => (m % Usize) \in Nat BY <3>1 DEF Unsigned, m
    <3> QED BY <3>1
  <2> QED BY <1>1, <2>1 DEF skip_to, Least
<1> QED BY <1>1, <1>2, <1>3, <1>4

LEMMA Numbered == ASSUME Describing, NEW it \in NextItems, ReadNumber(it) PROVE Describing'
<1>1. /\ it.kind \in {"int", "unshown"} /\ pos' = AfterRead(it.width) /\ item' = item + 1
      /\ job' = job /\ elem' = elem /\ got' = got
      /\ (lines' = lines \/ \E l : lines' = Append(lines, l))
  BY DEF ReadNumber
<1>2. it.kind # "array" /\ it.kind \notin Controls /\ pos' \in 0 .. job.len
  BY <1>1, Widths DEF Controls
<1> QED BY <1>1, <1>2, AdvanceOne

LEMMA Timed == ASSUME Describing, NEW it \in NextItems, ReadTimestamp(it) PROVE Describing'
<1>1. /\ it.kind = "time" /\ pos' = AfterRead(it.width) /\ item' = item + 1
      /\ job' = job /\ elem' = elem /\ got' = got
      /\ (lines' = lines \/ \E l : lines' = Append(lines, l))
  BY DEF ReadTimestamp
<1>2. it.kind # "array" /\ it.kind \notin Controls /\ pos' \in 0 .. job.len
  BY <1>1, Widths DEF Controls
<1> QED BY <1>1, <1>2, AdvanceOne

LEMMA ControlValues ==
  ASSUME Describing, NEW it \in NextItems, it.kind \in {"count", "size"}, NEW v \in Values(it)
  PROVE  v \in Int
<1>1. CASE ~Reads(it.width) BY SMTT(30), <1>1 DEF Values, Absent
<1>2. CASE /\ Reads(it.width)
           /\ <<it.name, 0>> \in DOMAIN job.place /\ job.place[<<it.name, 0>>] = pos
  <2>1. v = job.value[it.name] BY <1>2 DEF Values
  <2>2. Parser = ProgramOf(job) /\ item \in 1 .. Len(Parser) /\ it = Parser[item] /\ job \in Jobs
    BY MostIs, ItemIs DEF Describing
  <2> QED BY <1>2, <2>1, <2>2, DescribeAssumption DEF ProgramOf
<1>3. CASE /\ Reads(it.width)
           /\ ~(<<it.name, 0>> \in DOMAIN job.place /\ job.place[<<it.name, 0>>] = pos)
  <2>1. v \in Garbage(it) BY <1>3 DEF Values
  <2>2. Garbage(it) \subseteq GarbageCounts BY DEF Garbage
  <2> QED BY <2>1, <2>2, DescribeAssumption
<1> QED BY <1>1, <1>2, <1>3

LEMMA Controlled == ASSUME Describing, NEW it \in NextItems, ReadControl(it) PROVE Describing'
<1>1. PICK v \in Values(it) :
        /\ got' = [n \in DOMAIN got \cup {it.name} |-> IF n = it.name THEN v ELSE got[n]]
        /\ lines' = IF it.kind = "flags" /\ it.optional /\ ~Reads(it.width) THEN lines
                    ELSE Append(lines, Line(it.name, 0, Where(it.width),
                                            IF it.kind = "flags" THEN Named(it.table, v) ELSE {}))
  BY DEF ReadControl
<1>2. /\ it.kind \in Controls /\ pos' = AfterRead(it.width) /\ item' = item + 1
      /\ job' = job /\ elem' = elem
  BY DEF ReadControl, Controls
<1>3. lines' = lines \/ \E l : lines' = Append(lines, l) BY <1>1
<1>4. it.kind # "array" /\ pos' \in 0 .. job.len BY <1>2, Widths DEF Controls
<1>5. it.name \in Numbers => v \in Int
  <2>1. it.kind = "flags" => it.name \notin Numbers BY ItemIs DEF Step
  <2> QED BY <1>2, <2>1, ControlValues DEF Controls
<1>6. /\ \A n \in DOMAIN got \ {it.name} : n \in DOMAIN got' /\ got'[n] = got[n]
      /\ it.name \in DOMAIN got' /\ got'[it.name] = v
  BY <1>1
<1>7. it.name \in Numbers => got'[it.name] \in Int BY <1>5, <1>6
<1> QED BY <1>2, <1>3, <1>4, <1>6, <1>7, AdvanceOne

LEMMA Skipped == ASSUME Describing, NEW it \in NextItems, Skip(it) PROVE Describing'
<1>1. /\ it.kind = "skip" /\ pos' = skip_to(it.width) /\ item' = item + 1
      /\ job' = job /\ elem' = elem /\ got' = got /\ lines' = lines
  BY DEF Skip
<1>2. it.width \in Int BY ItemIs DEF Step
<1>3. it.kind # "array" /\ it.kind \notin Controls /\ pos' \in 0 .. job.len
  BY <1>1, <1>2, Widths DEF Controls
<1> QED BY <1>1, <1>3, AdvanceOne

LEMMA Branched == ASSUME Describing, NEW it \in NextItems, Branch(it) PROVE Describing'
<1>1. /\ it.kind = "if" /\ (item' = item + 1 \/ item' = item + 1 + it.jump)
      /\ job' = job /\ elem' = elem /\ got' = got /\ lines' = lines /\ pos' = pos
  BY DEF Branch
<1>2. /\ item \in 1 .. Len(Parser) /\ Len(Parser) \in Nat
      /\ item + it.jump <= Len(Parser) /\ it.jump \in Nat
      /\ Known(job)[item + 1 + it.jump] \subseteq Known(job)[item]
      /\ Most(job)[item] = Most(job)[item - 1] + LinesOf(it)
      /\ Most(job)[item - 1] \in Nat /\ elem <= LinesOf(it) - 1
  BY <1>1, ItemIs DEF Step
<1>3. CASE item' = item + 1
  <2>1. it.kind # "array" /\ it.kind \notin Controls /\ pos' \in 0 .. job.len
    BY <1>1 DEF Controls, Describing
  <2> QED BY <1>1, <1>3, <2>1, AdvanceOne
<1>4. CASE item' = item + 1 + it.jump
  <2>1. LinesOf(it) = 1 /\ elem = 0
    <3>1. LinesOf(it) = 1 BY <1>1 DEF LinesOf
    <3> QED BY <1>2, <3>1 DEF Describing
  <2>2. IsSeq(lines') /\ Len(lines') <= Most(job)[item]
    <3>1. IsSeq(lines) /\ Len(lines) <= Most(job)[item - 1] + elem BY DEF Describing
    <3>2. Len(lines) \in Nat BY <3>1, SeqLen
    <3> QED BY <1>1, <1>2, <2>1, <3>1, <3>2
  <2> DEFINE k == item + it.jump
  <2>3. k \in item .. Len(Parser) /\ item' = k + 1 /\ k + 1 = item + 1 + it.jump BY <1>2, <1>4
  <2>4. Counted(got', Known(job)[k + 1])
    <3>1. Counted(got, Known(job)[item]) BY DEF Describing
    <3> HIDE DEF k
    <3> QED BY <1>1, <1>2, <2>3, <3>1 DEF Counted
  <2>5. elem' = 0 /\ pos' \in 0 .. job.len BY <1>1, <2>1 DEF Describing
  <2> HIDE DEF k
  <2> QED BY <1>1, <2>2, <2>3, <2>4, <2>5, Advance
<1> QED BY <1>1, <1>3, <1>4

\* The length of an array and the number of elements that are left out.
LEMMA Totals ==
  ASSUME Describing, NEW it \in NextItems, it.kind = "array"
  PROVE  /\ Total(it) \in Int /\ Shown(it) \in Nat /\ Shown(it) <= it.cap
         /\ it.width \in Nat \ {0} /\ it.numbers \in Nat \ {0} /\ it.cap \in Nat
<1>1. /\ it.width \in Nat \ {0} /\ it.numbers \in Nat \ {0} /\ it.cap \in Nat
      /\ \/ \E c \in Known(job)[item] \cap Numbers : it.of = {c}
         \/ it.of = {"xcnt", "subxcnt"} /\ {"xcnt", "subxcnt"} \subseteq Known(job)[item]
  BY ItemIs DEF Step
<1>2. \A n \in Known(job)[item] \cap Numbers : got[n] \in Int BY DEF Describing, Counted
<1> DEFINE sum == IF Cardinality(it.of) = 1 THEN got[CHOOSE c \in it.of : TRUE]
                  ELSE got["xcnt"] + got["subxcnt"]
<1>3. sum \in Int
  <2>1. CASE \E c \in Known(job)[item] \cap Numbers : it.of = {c}
    <3>1. PICK c \in Known(job)[item] \cap Numbers : it.of = {c} BY <2>1
    <3>2. Cardinality(it.of) = 1 BY <3>1, FS_Singleton
    <3>3. (CHOOSE x \in it.of : TRUE) = c BY <3>1
    <3> QED BY <1>2, <3>1, <3>2, <3>3
  <2>2. CASE it.of = {"xcnt", "subxcnt"} /\ {"xcnt", "subxcnt"} \subseteq Known(job)[item]
    <3>1. Cardinality(it.of) # 1
      <4>1. IsFiniteSet({"xcnt"}) /\ Cardinality({"xcnt"}) = 1 BY FS_Singleton
      <4>2. Cardinality({"xcnt"} \cup {"subxcnt"}) = 2 BY <4>1, FS_AddElement
      <4>3. it.of = {"xcnt"} \cup {"subxcnt"} BY <2>2
      <4> QED BY <4>2, <4>3
    <3>2. got["xcnt"] \in Int /\ got["subxcnt"] \in Int BY <1>2, <2>2 DEF Numbers
    <3> QED BY <3>1, <3>2
  <2> QED BY <1>1, <2>1, <2>2
<1>4. Total(it) = Signed(sum) BY DEF Total, CountOf
<1> HIDE DEF sum
<1>5. Total(it) \in Int
  <2>1. I32 \in Nat \ {0} BY DescribeAssumption
  <2>2. I32 \div 2 \in Int BY <2>1
  <2>3. ((sum + I32 \div 2) % I32) \in Int
    <3> DEFINE m == sum + I32 \div 2
    <3>1. m \in Int BY <1>3, <2>2
    <3> HIDE DEF m
    <3>2. (m % I32) \in Int BY <2>1, <3>1
    <3> QED BY <3>2 DEF m
  <2> QED BY <1>4, <2>2, <2>3 DEF Signed
<1>6. Shown(it) \in Nat /\ Shown(it) <= it.cap BY <1>1, <1>5 DEF Shown, Least, AtLeast0
<1> QED BY <1>1, <1>5, <1>6

LEMMA ElementRead == ASSUME Describing, NEW it \in NextItems, ReadElement(it) PROVE Describing'
<1>1. /\ it.kind = "array" /\ elem < Shown(it) /\ elem' = elem + 1
      /\ pos' = pos + it.width * Least(it.numbers, remaining \div it.width)
      /\ job' = job /\ item' = item /\ got' = got
      /\ (lines' = lines \/ \E l : lines' = Append(lines, l))
  BY DEF ReadElement
<1>2. /\ Shown(it) \in Nat /\ Shown(it) <= it.cap
      /\ it.width \in Nat \ {0} /\ it.numbers \in Nat \ {0} /\ it.cap \in Nat
  BY <1>1, Totals
<1>3. pos' \in 0 .. job.len
  <2>1. /\ job.len \in Nat /\ pos \in Nat /\ remaining \in Nat /\ pos + remaining = job.len
    BY Widths
  <2>2. \A w \in Nat \ {0}, r \in Nat, n \in Nat :
          LET m == IF n < (r \div w) THEN n ELSE (r \div w) IN w * m \in Nat /\ w * m <= r
    OBVIOUS
  <2> DEFINE b == it.width * Least(it.numbers, remaining \div it.width)
  <2>3. b \in Nat /\ b <= remaining BY <1>2, <2>1, <2>2 DEF Least
  <2>4. pos' = pos + b BY <1>1
  <2> HIDE DEF b
  <2> QED BY <2>1, <2>3, <2>4
<1>4. /\ item \in 1 .. Len(Parser) /\ it = Parser[item] /\ Len(Parser) \in Nat
      /\ Most(job)[item - 1] \in Nat
  BY ItemIs
<1>5. elem' \in Nat /\ elem' <= LinesOf(Parser[item]) - 1
  <2>1. LinesOf(it) = 1 + it.cap BY <1>1 DEF LinesOf
  <2>2. elem \in Nat BY DEF Describing
  <2> QED BY <1>1, <1>2, <1>4, <2>1, <2>2
<1>6. IsSeq(lines') /\ Len(lines') <= Most(job)[item - 1] + elem'
  <2>1. IsSeq(lines) /\ Len(lines) <= Most(job)[item - 1] + elem /\ elem \in Nat BY DEF Describing
  <2>2. Len(lines) \in Nat /\ IsSeq(lines')
        /\ (Len(lines') = Len(lines) \/ Len(lines') = Len(lines) + 1)
    BY <1>1, <2>1, SeqMayGrow
  <2> QED BY SMTT(30), <1>1, <1>4, <2>1, <2>2
<1>7. Parser' = Parser /\ Most(job)' = Most(job) /\ Known(job)' = Known(job) BY <1>1 DEF Parser
<1>8. job \in Jobs /\ Counted(got', Known(job)[item']) BY <1>1 DEF Describing
<1> QED BY <1>1, <1>3, <1>4, <1>5, <1>6, <1>7, <1>8 DEF Describing

LEMMA ArrayEnded == ASSUME Describing, NEW it \in NextItems, EndArray(it) PROVE Describing'
<1>1. /\ it.kind = "array" /\ elem' = 0 /\ item' = item + 1 /\ job' = job /\ got' = got
      /\ (lines' = lines \/ \E l : lines' = Append(lines, l))
      /\ \/ pos' = pos
         \/ pos' = skip_to((Unsigned(Total(it)) - it.cap) * it.width * it.numbers)
  BY DEF EndArray
<1>2. /\ Total(it) \in Int /\ it.width \in Nat \ {0} /\ it.numbers \in Nat \ {0}
      /\ it.cap \in Nat
  BY <1>1, Totals
<1>3. pos' \in 0 .. job.len
  <2>1. Unsigned(Total(it)) \in Int BY <1>2, DescribeAssumption DEF Unsigned
  <2>2. (Unsigned(Total(it)) - it.cap) * it.width * it.numbers \in Int BY <1>2, <2>1
  <2>3. skip_to((Unsigned(Total(it)) - it.cap) * it.width * it.numbers) \in 0 .. job.len
    BY <2>2, Widths
  <2>4. pos \in 0 .. job.len BY DEF Describing
  <2> QED BY <1>1, <2>3, <2>4
<1>4. /\ item \in 1 .. Len(Parser) /\ Len(Parser) \in Nat
      /\ Most(job)[item] = Most(job)[item - 1] + LinesOf(it)
      /\ Most(job)[item - 1] \in Nat /\ LinesOf(it) \in Nat /\ elem <= LinesOf(it) - 1
      /\ Step(it, Known(job)[item], Known(job)[item + 1])
  BY ItemIs
<1>5. IsSeq(lines') /\ Len(lines') <= Most(job)[item]
  <2>1. IsSeq(lines) /\ Len(lines) <= Most(job)[item - 1] + elem /\ elem \in Nat BY DEF Describing
  <2>2. Len(lines) \in Nat /\ IsSeq(lines')
        /\ (Len(lines') = Len(lines) \/ Len(lines') = Len(lines) + 1)
    BY <1>1, <2>1, SeqMayGrow
  <2> QED BY SMTT(30), <1>4, <2>1, <2>2
<1>6. Counted(got', Known(job)[item + 1])
  <2>1. Known(job)[item + 1] \subseteq Known(job)[item] BY <1>1, <1>4 DEF Step, Gives, Controls
  <2> QED BY <1>1, <2>1 DEF Describing, Counted
<1>7. item \in item .. Len(Parser) BY <1>4
<1> QED BY <1>1, <1>3, <1>5, <1>6, <1>7, Advance

LEMMA CstrRead == ASSUME Describing, NEW it \in NextItems, ReadCstr(it) PROVE Describing'
<1>1. /\ it.kind = "cstr" /\ item' = item + 1 /\ job' = job /\ elem' = elem /\ got' = got
      /\ \E l : lines' = Append(lines, l)
      /\ pos' \in IF <<it.name, 0>> \in DOMAIN job.place /\ job.place[<<it.name, 0>>] = pos
                  THEN {pos + job.value[it.name]} ELSE (pos + 1)..job.len \cup {job.len}
  BY DEF ReadCstr
<1>2. pos' \in 0 .. job.len
  <2>1. job.len \in Nat /\ pos \in Nat BY Widths
  <2>2. CASE <<it.name, 0>> \in DOMAIN job.place /\ job.place[<<it.name, 0>>] = pos
    <3>1. Parser = ProgramOf(job) /\ item \in 1 .. Len(Parser) /\ it = Parser[item] /\ job \in Jobs
      BY MostIs, ItemIs DEF Describing
    <3>2. job.value[it.name] \in Nat /\ pos + job.value[it.name] <= job.len
      BY <1>1, <2>2, <3>1, DescribeAssumption DEF ProgramOf
    <3> QED BY SMTT(30), <1>1, <2>1, <2>2, <3>2
  <2>3. CASE ~(<<it.name, 0>> \in DOMAIN job.place /\ job.place[<<it.name, 0>>] = pos)
    BY <1>1, <2>1, <2>3
  <2> QED BY <2>2, <2>3
<1>3. it.kind # "array" /\ it.kind \notin Controls BY <1>1 DEF Controls
<1> QED BY <1>1, <1>2, <1>3, AdvanceOne

LEMMA SizedShown == ASSUME Describing, NEW it \in NextItems, ShowSized(it) PROVE Describing'
<1>1. /\ it.kind = "sized" /\ item' = item + 1 /\ job' = job /\ elem' = elem /\ got' = got
      /\ pos' = pos /\ (lines' = lines \/ \E l : lines' = Append(lines, l))
  BY DEF ShowSized
<1>2. it.kind # "array" /\ it.kind \notin Controls /\ pos' \in 0 .. job.len
  BY <1>1 DEF Controls, Describing
<1> QED BY <1>1, <1>2, AdvanceOne

\* A panic leaves everything as it is.
LEMMA Stays ==
  ASSUME Describing, UNCHANGED <<job, item, elem, pos, got, lines>>
  PROVE  Describing'
<1>1. Parser' = Parser BY DEF Parser
<1> QED BY <1>1 DEF Describing

LEMMA NameShown == ASSUME Describing, NEW it \in NextItems, ShowName(it) PROVE Describing'
<1>1. /\ it.kind = "name" /\ job' = job /\ elem' = elem /\ got' = got /\ pos' = pos
      /\ \/ item' = item + 1 /\ \E l : lines' = Append(lines, l)
         \/ item' = item /\ lines' = lines
  BY DEF ShowName
<1>2. it.kind # "array" /\ it.kind \notin Controls /\ pos' \in 0 .. job.len
  BY <1>1 DEF Controls, Describing
<1>3. CASE item' = item + 1 /\ \E l : lines' = Append(lines, l) BY <1>1, <1>2, <1>3, AdvanceOne
<1>4. CASE item' = item /\ lines' = lines BY <1>1, <1>4, Stays
<1> QED BY <1>1, <1>3, <1>4

LEMMA IndexedRead == ASSUME Describing, NEW it \in NextItems, ReadIndexed(it) PROVE Describing'
<1>1. /\ it.kind = "indexed" /\ job' = job /\ elem' = elem /\ got' = got
      /\ \/ item' = item + 1 /\ pos' = AfterRead(it.width) /\ \E l : lines' = Append(lines, l)
         \/ item' = item /\ lines' = lines /\ pos' = pos
  BY DEF ReadIndexed, AfterRead
<1>2. it.kind # "array" /\ it.kind \notin Controls BY <1>1 DEF Controls
<1>3. CASE item' = item + 1 /\ pos' = AfterRead(it.width) /\ \E l : lines' = Append(lines, l)
  <2>1. pos' \in 0 .. job.len BY <1>3, Widths
  <2> QED BY <1>1, <1>2, <1>3, <2>1, AdvanceOne
<1>4. CASE item' = item /\ lines' = lines /\ pos' = pos BY <1>1, <1>4, Stays
<1> QED BY <1>1, <1>3, <1>4

LEMMA RestShown == ASSUME Describing, NEW it \in NextItems, ShowRest(it) PROVE Describing'
<1>1. /\ it.kind = "rest" /\ item' = item + 1 /\ job' = job /\ elem' = elem /\ got' = got
      /\ pos' = pos /\ (lines' = lines \/ \E l : lines' = Append(lines, l))
  BY DEF ShowRest
<1>2. it.kind # "array" /\ it.kind \notin Controls /\ pos' \in 0 .. job.len
  BY <1>1 DEF Controls, Describing
<1> QED BY <1>1, <1>2, AdvanceOne

LEMMA Begun == ASSUME Describing, Begin PROVE Describing'
<1>1. /\ UNCHANGED <<job, item, elem, pos, got>> /\ IsSeq(lines') /\ Len(lines') <= 1
      /\ Len(lines') \in Nat
  <2>1. \A l : IsSeq(<<l>>) /\ Len(<<l>>) = 1
    <3>1. \A l : <<l>> \in Seq({l}) /\ Len(<<l>>) = 1 OBVIOUS
    <3> QED BY <3>1 DEF IsSeq
  <2>2. IsSeq(<<>>) /\ Len(<<>>) = 0
    <3>1. <<>> \in Seq({}) /\ Len(<<>>) = 0 OBVIOUS
    <3> QED BY <3>1 DEF IsSeq
  <2>3. lines' = <<>> \/ \E l : lines' = <<l>> BY DEF Begin
  <2>4. UNCHANGED <<job, item, elem, pos, got>> BY DEF Begin
  <2>5. CASE lines' = <<>> BY <2>2, <2>4, <2>5
  <2>6. CASE \E l : lines' = <<l>>
    <3>1. PICK l : lines' = <<l>> BY <2>6
    <3>2. IsSeq(lines') /\ Len(lines') = 1 BY <2>1, <3>1
    <3> QED BY <2>4, <3>2
  <2> QED BY <2>3, <2>5, <2>6
<1>2. /\ Parser = ProgramOf(job) /\ Len(Parser) \in Nat
      /\ Most(job) \in [0 .. Len(Parser) -> Nat] /\ Most(job)[0] = 1
      /\ \A k, m \in 0 .. Len(Parser) : k <= m => Most(job)[k] <= Most(job)[m]
  BY MostIs, MostGrows
<1>3. item \in 1 .. Len(Parser) + 1 /\ elem \in Nat BY DEF Describing
<1>4. Len(lines') <= Most(job)[item - 1] + elem
  <2>1. item - 1 \in 0 .. Len(Parser) /\ 0 \in 0 .. Len(Parser) /\ 0 <= item - 1 BY <1>2, <1>3
  <2>2. Most(job)[0] <= Most(job)[item - 1] /\ Most(job)[item - 1] \in Nat BY <1>2, <2>1
  <2> QED BY <1>1, <1>2, <1>3, <2>2
<1>5. Parser' = Parser BY <1>1 DEF Parser
<1> QED BY <1>1, <1>4, <1>5 DEF Describing

LEMMA DescribingStep == Describing /\ [Next]_vars => Describing'
<1> SUFFICES ASSUME Describing, [Next]_vars PROVE Describing' OBVIOUS
<1>1. CASE Begin BY <1>1, Begun
<1>2. CASE \E it \in NextItems : ReadItem(it)
  <2>1. PICK it \in NextItems : ReadItem(it) BY <1>2
  <2> QED BY <2>1, Numbered, Timed, Controlled, Skipped, Branched, ElementRead, ArrayEnded,
      CstrRead,
             SizedShown, NameShown, IndexedRead, RestShown DEF ReadItem
<1>3. CASE Finish BY <1>3, Stays DEF Finish
<1>4. CASE Stop BY <1>4, Stays DEF Stop, vars
<1>5. CASE UNCHANGED vars BY <1>5, Stays DEF vars
<1> QED BY <1>1, <1>2, <1>3, <1>4, <1>5 DEF Next

LEMMA AlwaysDescribing == Spec => []Describing
BY DescribingInit, DescribingStep, PTL DEF Spec

(***************************************************************************)
(* walmisc::Reader never leaves the payload: whatever the bytes say, and   *)
(* in whichever order the conditions let the reads follow one another, the *)
(* cursor is between 0 and the length, so that no slice taken from it can  *)
(* fail.                                                                   *)
(***************************************************************************)
THEOREM CursorStaysInPayload == Spec => []CursorInPayload
<1>1. Describing => CursorInPayload BY DEF Describing, CursorInPayload
<1> QED BY <1>1, AlwaysDescribing, PTL

(***************************************************************************)
(* A description is no longer than its program and the caps of its arrays  *)
(* allow, however large the counts in the payload are.                     *)
(***************************************************************************)
THEOREM DescriptionsAreBounded == Spec => []LinesAreBounded
<1>1. Describing => LinesAreBounded
  <2> SUFFICES ASSUME Describing PROVE Len(lines) <= MostLines(Parser) BY DEF LinesAreBounded
  <2> DEFINE n == Len(Parser)
             f == Most(job)
  <2>1. /\ Parser = ProgramOf(job) /\ n \in Nat /\ f \in [0 .. n -> Nat]
        /\ \A k \in 1 .. n : f[k] = f[k - 1] + LinesOf(Parser[k])
        /\ \A k, m \in 0 .. n : k <= m => f[k] <= f[m]
        /\ MostLines(Parser) = f[n]
    BY MostIs, MostGrows
  <2>2. /\ item \in 1 .. n + 1 /\ elem \in Nat /\ IsSeq(lines)
        /\ item <= n => elem <= LinesOf(Parser[item]) - 1
        /\ item > n => elem = 0
        /\ Len(lines) <= f[item - 1] + elem
    BY DEF Describing
  <2>3. Len(lines) \in Nat BY <2>2, SeqLen
  <2>4. \A k \in 1 .. n : LinesOf(Parser[k]) \in Nat
    <3>1. \A k \in 1 .. n : Step(Parser[k], Known(job)[k], Known(job)[k + 1])
      BY <2>1, ProgramFlows DEF Notes
    <3> QED BY <3>1 DEF Step, LinesOf
  <2> HIDE DEF n, f
  <2>5. CASE item > n
    <3>1. item - 1 = n BY <2>1, <2>2, <2>5
    <3> QED BY <2>1, <2>2, <2>5, <3>1
  <2>6. CASE ~(item > n)
    <3>1. item \in 1 .. n /\ n \in 0 .. n /\ item - 1 \in 0 .. n /\ item \in 0 .. n /\ item <= n
      BY <2>1, <2>2, <2>6
    <3>2. /\ f[item] = f[item - 1] + LinesOf(Parser[item]) /\ f[item] <= f[n]
          /\ f[item] \in Nat /\ f[item - 1] \in Nat /\ f[n] \in Nat
      BY <2>1, <3>1
    <3>3. LinesOf(Parser[item]) \in Nat BY <2>4, <3>1
    <3> QED BY SMTT(30), <2>1, <2>2, <2>3, <3>1, <3>2, <3>3
  <2> QED BY <2>5, <2>6
<1> QED BY <1>1, AlwaysDescribing, PTL

-----------------------------------------------------------------------------
(* The layout, and the reader on it.                                       *)

LEMMA AllFit == \A j : \E c : Starts(ProgramOf(j), c) /\ Fits(ProgramOf(j), c)
<1> TAKE j
<1>1. Marked(ProgramOf(j)) BY MainMarked, BlockMarked DEF ProgramOf, ParserOf
<1> QED BY <1>1 DEF Marked

\* The marks of the program that parses j.
Marks(j) == CHOOSE c : Starts(ProgramOf(j), c) /\ Fits(ProgramOf(j), c)
LEMMA MarksFit == \A j : Starts(ProgramOf(j), Marks(j)) /\ Fits(ProgramOf(j), Marks(j))
BY AllFit DEF Marks

\* The first n spots of the layout of a payload.
Spot == [at : Nat, packed : BOOLEAN, without : Nat]
Spot0 == [at |-> 0, packed |-> FALSE, without |-> 0]
LaidTo(p, info, value, n, w) ==
  w = [k \in 1 .. n |-> IF k = 1 THEN Spot0 ELSE After(p[k - 1], k - 1, info, value, w[k - 1])]

LEMMA LaidToExists ==
  ASSUME NEW p, NEW info, NEW value, NEW n \in Nat
  PROVE  \E w : LaidTo(p, info, value, n, w)
<1> DEFINE P(m) == \E w : LaidTo(p, info, value, m, w)
           Bad == {m \in 0 .. n : ~P(m)}
<1>1. P(0)
  <2>1. LaidTo(p, info, value, 0, [k \in 1 .. 0 |-> 0]) BY DEF LaidTo
  <2> QED BY <2>1
<1>2. ASSUME NEW m \in 1 .. n, P(m - 1) PROVE P(m)
  <2>1. PICK f : LaidTo(p, info, value, m - 1, f) BY <1>2
  <2> DEFINE last == IF m = 1 THEN Spot0 ELSE After(p[m - 1], m - 1, info, value, f[m - 1])
             h == [k \in 1 .. m |-> IF k = m THEN last ELSE f[k]]
  <2>2. /\ \A k \in 1 .. m - 1 : h[k] = f[k]
        /\ h[m] = last
    OBVIOUS
  <2>3. \A k \in 1 .. m - 1 : f[k] = IF k = 1 THEN Spot0 ELSE After(p[k - 1], k - 1, info, value, f[k - 1])
    BY <2>1 DEF LaidTo
  <2>4. h = [k \in 1 .. m |-> h[k]] OBVIOUS
  <2> HIDE DEF h
  <2>5. ASSUME NEW k \in 1 .. m
        PROVE  h[k] = IF k = 1 THEN Spot0 ELSE After(p[k - 1], k - 1, info, value, h[k - 1])
    <3>1. CASE k = m /\ m = 1 BY <2>2, <3>1
    <3>2. CASE k = m /\ m # 1
      <4>1. m - 1 \in 1 .. m - 1 BY <3>2
      <4>2. h[m - 1] = f[m - 1] BY <2>2, <4>1
      <4> QED BY <2>2, <3>2, <4>2
    <3>3. CASE k # m /\ k # 1
      <4>1. k \in 1 .. m - 1 /\ k - 1 \in 1 .. m - 1 BY <3>3
      <4>2. h[k] = f[k] /\ h[k - 1] = f[k - 1] BY <2>2, <4>1
      <4> QED BY <2>3, <3>3, <4>1, <4>2
    <3>4. CASE k # m /\ k = 1
      <4>1. k \in 1 .. m - 1 BY <3>4
      <4> QED BY <2>2, <2>3, <3>4, <4>1
    <3> QED BY <3>1, <3>2, <3>3, <3>4
  <2>6. LaidTo(p, info, value, m, h) BY <2>4, <2>5 DEF LaidTo
  <2> QED BY <2>6
<1> HIDE DEF P
<1>3. Bad = {}
  <2> SUFFICES ASSUME Bad # {} PROVE FALSE OBVIOUS
  <2>1. PICK m \in Bad : \A x \in Bad : m <= x
    <3>1. Bad \subseteq Nat OBVIOUS
    <3> HIDE DEF Bad
    <3> QED BY <3>1, LeastOf
  <2>2. m \in 1 .. n BY <1>1, <2>1
  <2>3. m - 1 \in 0 .. n /\ m - 1 \notin Bad BY <2>1, <2>2
  <2> QED BY <1>2, <2>1, <2>2, <2>3
<1> QED BY <1>3 DEF P

LEMMA LaidIs ==
  ASSUME NEW p, NEW info, NEW value, IsSeq(p)
  PROVE  LET w == Laid(p, info, value)
         IN  /\ w[1] = Spot0
             /\ \A k \in 1 .. Len(p) : w[k + 1] = After(p[k], k, info, value, w[k])
<1> DEFINE w == Laid(p, info, value)
           n == Len(p) + 1
<1>1. Len(p) \in Nat BY SeqLen
<1>2. w = CHOOSE v : v = [k \in 1 .. n |-> IF k = 1 THEN [at |-> 0, packed |-> FALSE, without |-> 0]
                                            ELSE After(p[k - 1], k - 1, info, value, v[k - 1])]
  BY DEF Laid
<1>3. \E v : LaidTo(p, info, value, n, v)
  <2>1. n \in Nat BY <1>1
  <2> HIDE DEF n
  <2> QED BY <2>1, LaidToExists
<1> HIDE DEF w
<1>4. w = [k \in 1 .. n |-> IF k = 1 THEN [at |-> 0, packed |-> FALSE, without |-> 0]
                            ELSE After(p[k - 1], k - 1, info, value, w[k - 1])]
  BY <1>2, <1>3 DEF LaidTo, Spot0
<1>5. w[1] = Spot0 BY <1>1, <1>4 DEF Spot0
<1>6. ASSUME NEW k \in 1 .. Len(p) PROVE w[k + 1] = After(p[k], k, info, value, w[k])
  <2>1. k + 1 \in 1 .. n /\ k + 1 # 1 /\ (k + 1) - 1 = k BY <1>1
  <2> HIDE DEF n
  <2> QED BY <1>4, <2>1
<1> QED BY <1>5, <1>6 DEF w

\* A payload that the server wrote, of an operation that the parsers do not mistake.
Regular(j) == j.intact /\ <<j.rmgr, from_xl_info(j.rmgr, j.info)>> \notin Mistaken
MembersOf(j) == StructureOf(j.rmgr, j.info, j.block)
Layout(j) == Laid(MembersOf(j), j.info, j.value)
\* What no parser reads in front of part k.
Gap(j, k) == InFront(MembersOf(j)[k], j.value)

LEMMA RegularAlike ==
  ASSUME NEW j, Regular(j), ProgramOf(j) # <<>> PROVE Alike(MembersOf(j), ProgramOf(j))
<1> DEFINE op == from_xl_info(j.rmgr, j.info)
<1>1. <<j.rmgr, op>> \notin Mistaken BY DEF Regular
<1>2. /\ ProgramOf(j) = IF j.block = MAIN THEN describe_main_data(j.rmgr, op)
                        ELSE describe_block_data(j.rmgr, op, j.block)
      /\ MembersOf(j) = IF j.block = MAIN THEN MainStructure(j.rmgr, op)
                        ELSE BlockStructure(j.rmgr, op, j.block)
  BY DEF ProgramOf, ParserOf, MembersOf, StructureOf
<1> HIDE DEF op
<1>3. CASE j.block = MAIN BY <1>1, <1>2, <1>3, MainAlike
<1>4. CASE j.block # MAIN BY <1>2, <1>4, BlockAlike
<1> QED BY <1>3, <1>4

LEMMA CountSame ==
  ASSUME NEW a, NEW b, NEW value, a.of = b.of PROVE CountOf(a, value) = CountOf(b, value)
<1> DEFINE One(S) == CHOOSE c \in S : TRUE
           Sum(S) == IF Cardinality(S) = 1 THEN value[One(S)] ELSE value["xcnt"] + value["subxcnt"]
<1>1. CountOf(a, value) = Sum(a.of) /\ CountOf(b, value) = Sum(b.of) BY DEF CountOf
<1> HIDE DEF Sum
<1> QED BY <1>1

\* A member that is read moves on as its item says, and a part as its condition says.
LEMMA PairIs ==
  ASSUME NEW a, NEW b, NEW value, NEW s, Pair(a, b), b.kind # "if"
  PROVE  /\ a.kind # "if" /\ (a.kind = "skip" <=> b.kind = "skip")
         /\ (a.kind = "rest" <=> b.kind = "rest") /\ a.name = b.name
         /\ Elements(a, value) = Elements(b, value) /\ Stride(a) = Stride(b)
         /\ Offset(a, s) = Offset(b, s) /\ Bytes(a, value) = Bytes(b, value)
<1>1. /\ a.kind = b.kind \/ (a.kind \in {"int", "count"} /\ b.kind \in {"int", "unshown"})
      /\ a.width = b.width /\ a.name = b.name
      /\ b.kind = "array" => a.numbers = b.numbers /\ a.of = b.of
      /\ b.kind = "sized" => a.of = b.of
  BY DEF Pair
<1>2. Elements(a, value) = Elements(b, value) BY <1>1, CountSame DEF Elements
<1>3. Stride(a) = Stride(b) BY <1>1 DEF Stride
<1>4. Offset(a, s) = Offset(b, s) BY <1>1 DEF Offset, ByteKinds
<1>5. Bytes(a, value) = Bytes(b, value)
  <2>1. b.kind = "array" => CountOf(a, value) = CountOf(b, value) BY <1>1, CountSame
  <2> QED BY <1>1, <1>3, <2>1 DEF Bytes
<1> QED BY <1>1, <1>2, <1>3, <1>4, <1>5

LEMMA PairMoves ==
  ASSUME NEW a, NEW b, NEW k, NEW info, NEW value, NEW s, Pair(a, b), b.kind # "if"
  PROVE  After(a, k, info, value, s) = After(b, k, info, value, s)
BY PairIs DEF After

PartMoves(a, b, k, info, value, s) ==
  After(a, k, info, value, s) =
    IF k <= s.without THEN s
    ELSE [at |-> s.at + InFront(a, value), packed |-> s.packed \/ b.cond.on = "bits",
          without |-> IF Has(b.cond, info, value) THEN s.without ELSE k + b.jump]

LEMMA PairParts ==
  ASSUME NEW a, NEW b, NEW k, NEW info, NEW value, NEW s, Pair(a, b), b.kind = "if"
  PROVE  /\ a.kind = "if"
         /\ PartMoves(a, b, k, info, value, s)
         /\ InFront(a, value) # 0 => Unsure(b.cond)
         /\ ~(b.cond.on = "room" /\ b.cond.bytes = Metadata)
<1>1. a.kind = "if" /\ Suits(a.cond, b.cond) /\ a.jump = b.jump
      /\ (a.name \in {"stats", "messages"} => Unsure(b.cond))
  BY DEF Pair
<1>2. IsThere(a.cond, info, value) <=> Has(b.cond, info, value) BY <1>1 DEF Suits, IsThere, Has
<1>3. a.cond.on = "bits" <=> b.cond.on = "bits" BY <1>1 DEF Suits
<1>4. InFront(a, value) # 0 => a.name \in {"stats", "messages"} BY DEF InFront
<1>5. ~(b.cond.on = "room" /\ b.cond.bytes = Metadata) BY <1>1 DEF Suits
<1>6. PartMoves(a, b, k, info, value, s) BY <1>1, <1>2, <1>3 DEF After, PartMoves
<1> QED BY <1>1, <1>4, <1>5, <1>6

\* The same for a metapage that goes with a block.
LEMMA PageParts ==
  ASSUME NEW S, NEW P, NEW k, NEW info, NEW value, NEW s, Page(S, P, k)
  PROVE  /\ S[k].kind = "if" /\ P[k].kind = "if" /\ InFront(S[k], value) = 0
         /\ PartMoves(S[k], P[k], k, info, value, s)
<1>1. /\ S[k].kind = "if" /\ P[k].kind = "if" /\ S[k].jump = P[k].jump /\ S[k].name = "part"
      /\ S[k].cond.on = "block" /\ P[k].cond.on = "room" /\ P[k].cond.bytes = Metadata
  BY DEF Page
<1>2. ~IsThere(S[k].cond, info, value) /\ ~Has(P[k].cond, info, value)
  BY <1>1 DEF IsThere, Has
<1>3. InFront(S[k], value) = 0 BY <1>1 DEF InFront
<1>4. PartMoves(S[k], P[k], k, info, value, s) BY <1>1, <1>2 DEF After, PartMoves
<1> QED BY <1>1, <1>3, <1>4

LEMMA Aligns == \A at \in Nat, n \in {1, 2, 4, 8} : Aligned(at, n) \in Nat /\ at <= Aligned(at, n)
<1> SUFFICES ASSUME NEW at \in Nat, NEW n \in {1, 2, 4, 8}
             PROVE  Aligned(at, n) \in Nat /\ at <= Aligned(at, n)
  OBVIOUS
<1>1. CASE n = 1 BY <1>1 DEF Aligned
<1>2. CASE n = 2 BY <1>2 DEF Aligned
<1>3. CASE n = 4 BY <1>3 DEF Aligned
<1>4. CASE n = 8 BY <1>4 DEF Aligned
<1> QED BY <1>1, <1>2, <1>3, <1>4

LEMMA Products == \A a, b \in Nat : a * b \in Nat
OBVIOUS

\* The spot behind an item of the program, as far as the server wrote it.
Turned(j, k, s) ==
  LET it == ProgramOf(j)[k]
  IN  IF it.kind = "if" /\ ~(k <= s.without)
      THEN [at |-> s.at + Gap(j, k), packed |-> s.packed \/ it.cond.on = "bits",
            without |-> IF Has(it.cond, j.info, j.value) THEN s.without ELSE k + it.jump]
      ELSE After(it, k, j.info, j.value, s)

\* The layout of the members, seen from the items of the program that reads them.
LEMMA LayoutTurns ==
  ASSUME NEW j, Regular(j), ProgramOf(j) # <<>>
  PROVE  LET p == ProgramOf(j)
             s == MembersOf(j)
             w == Layout(j)
         IN  /\ IsSeq(p) /\ Len(p) \in Nat /\ IsSeq(s) /\ Len(s) \in Nat
             /\ Len(s) \in {Len(p), Len(p) + 1, Len(p) + 2} /\ w[1] = Spot0
             /\ \A k \in 1 .. Len(s) : w[k + 1] = After(s[k], k, j.info, j.value, w[k])
             /\ \A k \in 1 .. Len(p) : w[k + 1] = Turned(j, k, w[k])
             /\ \A k \in 1 .. Len(p) : s[k].kind = "if" <=> p[k].kind = "if"
             /\ \A k \in 1 .. Len(p) :
                  /\ p[k].kind = "if" /\ Gap(j, k) # 0 => Unsure(p[k].cond)
                  /\ p[k].kind = "if" /\ p[k].cond.on = "room" /\ p[k].cond.bytes = Metadata
                       => Len(s) = Len(p)
             /\ \A k \in 1 .. Len(p) : p[k].kind # "if" => Pair(s[k], p[k])
             /\ \A k \in Len(p) + 1 .. Len(s) : Extra(s[k])
<1> DEFINE p == ProgramOf(j)
           s == MembersOf(j)
           w == Layout(j)
<1>1. /\ IsSeq(s) /\ IsSeq(p) /\ Len(s) \in {Len(p), Len(p) + 1, Len(p) + 2}
      /\ \A k \in 1 .. Len(p) : Pair(s[k], p[k]) \/ Page(s, p, k)
      /\ \A k \in Len(p) + 1 .. Len(s) : Extra(s[k])
  BY RegularAlike DEF Alike
<1>2. Len(p) \in Nat /\ Len(s) \in Nat BY <1>1, SeqLen
<1>3. /\ w[1] = Spot0
      /\ \A k \in 1 .. Len(s) : w[k + 1] = After(s[k], k, j.info, j.value, w[k])
  BY <1>1, LaidIs DEF Layout
<1>4. ASSUME NEW k \in 1 .. Len(p)
      PROVE  /\ w[k + 1] = Turned(j, k, w[k])
             /\ s[k].kind = "if" <=> p[k].kind = "if"
             /\ p[k].kind = "if" /\ Gap(j, k) # 0 => Unsure(p[k].cond)
             /\ p[k].kind = "if" /\ p[k].cond.on = "room" /\ p[k].cond.bytes = Metadata
                  => Len(s) = Len(p)
             /\ p[k].kind # "if" => Pair(s[k], p[k])
  <2>1. w[k + 1] = After(s[k], k, j.info, j.value, w[k])
    <3>1. k \in 1 .. Len(s) BY <1>1, <1>2
    <3> QED BY <1>3, <3>1
  <2>2. Pair(s[k], p[k]) \/ Page(s, p, k) BY <1>1
  <2> DEFINE x == s[k]
             y == p[k]
             z == w[k]
  <2>3. CASE Pair(x, y) /\ y.kind # "if"
    <3>1. After(x, k, j.info, j.value, z) = After(y, k, j.info, j.value, z) /\ x.kind # "if"
      BY <2>3, PairMoves, PairIs
    <3> QED BY <2>1, <2>3, <3>1 DEF Turned
  <2>4. CASE Pair(x, y) /\ y.kind = "if"
    <3>1. /\ x.kind = "if" /\ PartMoves(x, y, k, j.info, j.value, z)
          /\ InFront(x, j.value) # 0 => Unsure(y.cond)
          /\ ~(y.cond.on = "room" /\ y.cond.bytes = Metadata)
      BY <2>4, PairParts
    <3>2. k <= z.without => After(y, k, j.info, j.value, z) = z BY DEF After
    <3> QED BY <2>1, <2>4, <3>1, <3>2 DEF Turned, Gap, PartMoves
  <2>5. CASE Page(s, p, k)
    <3>1. /\ x.kind = "if" /\ y.kind = "if" /\ InFront(x, j.value) = 0
          /\ PartMoves(x, y, k, j.info, j.value, z)
      BY <2>5, PageParts
    <3>2. k <= z.without => After(y, k, j.info, j.value, z) = z BY DEF After
    <3>3. Len(s) = Len(p) BY <2>5 DEF Page
    <3> QED BY <2>1, <3>1, <3>2, <3>3 DEF Turned, Gap, PartMoves
  <2> QED BY <2>2, <2>3, <2>4, <2>5
<1> HIDE DEF p, s, w
<1> QED BY <1>1, <1>2, <1>3, <1>4 DEF p, s, w

\* What a server may write in an item, and how an item moves on.
LEMMA ServerWrites ==
  ASSUME NEW j \in Jobs, Regular(j), ProgramOf(j) # <<>>
  PROVE  LET p == ProgramOf(j)
             w == Layout(j)
         IN  /\ IsSeq(p) /\ Len(p) \in Nat /\ w[1] = Spot0
             /\ \A k \in 1 .. Len(p) : w[k + 1] = Turned(j, k, w[k])
             /\ \A k \in 1 .. Len(p) :
                  p[k].kind = "if" /\ k > w[k].without
                    => Gap(j, k) \in Nat /\ (Gap(j, k) # 0 => Unsure(p[k].cond))
             /\ j.len \in 0 .. (Usize - 1)
             /\ PlacesAre(p, j.value, w, j.place)
             /\ j.block # MAIN => j.value["flags"] = j.main_flags
             /\ \A k \in Written(p, w) :
                  /\ p[k].kind \in {"count", "size", "rest"} => j.value[p[k].name] \in Nat
                  /\ p[k].kind = "sized" => j.value[p[k].of] \in Nat
                  /\ p[k].kind = "cstr" => j.value[p[k].name] \in Nat \ {0}
                  /\ p[k].kind = "time" => IsMoment(j.value[p[k].name])
                  /\ p[k].kind = "array" => CountOf(p[k], j.value) \in 0 .. (I32 \div 2 - 1)
             /\ \A k \in 1 .. Len(p) : /\ Step(p[k], Known(j)[k], Known(j)[k + 1])
                                       /\ p[k].kind = "if" => k + p[k].jump <= Len(p)
             /\ Fits(p, Marks(j)) /\ Starts(p, Marks(j))
<1> DEFINE p == ProgramOf(j)
           s == MembersOf(j)
           w == Layout(j)
           V == j.value
<1>1. LaidOut(j) BY PayloadAssumption DEF ProgramOf, Regular
<1>2. IsSeq(p) /\ Notes(p, Start(j), {}, Known(j)) /\ Len(p) \in Nat BY ProgramFlows, SeqLen
<1>3. /\ w[1] = Spot0 /\ \A k \in 1 .. Len(p) : w[k + 1] = Turned(j, k, w[k])
      /\ Len(s) \in Nat /\ Len(s) \in {Len(p), Len(p) + 1, Len(p) + 2}
      /\ \A k \in 1 .. Len(p) : s[k].kind = "if" <=> p[k].kind = "if"
      /\ \A k \in 1 .. Len(p) : p[k].kind = "if" /\ Gap(j, k) # 0 => Unsure(p[k].cond)
      /\ \A k \in 1 .. Len(p) : p[k].kind # "if" => Pair(s[k], p[k])
      /\ \A k \in Len(p) + 1 .. Len(s) : Extra(s[k])
  BY SMTT(30), LayoutTurns
<1>4. /\ j.len \in 0 .. (Usize - 1)
      /\ PlacesAre(s, V, w, j.place)
      /\ j.block # MAIN => V["flags"] = j.main_flags
      /\ \A k \in Written(s, w) :
           /\ s[k].kind \in {"count", "size", "rest"} => V[s[k].name] \in Nat
           /\ s[k].kind = "sized" => V[s[k].of] \in Nat
           /\ s[k].kind = "cstr" => V[s[k].name] \in Nat \ {0}
           /\ s[k].kind = "time" => IsMoment(V[s[k].name])
           /\ s[k].kind = "array" => CountOf(s[k], V) \in 0 .. (I32 \div 2 - 1)
      /\ \A k \in 1 .. Len(s) : s[k].kind = "if" /\ k > w[k].without => Gap(j, k) \in Nat
  BY <1>1 DEF LaidOut, Layout, MembersOf, Gap
<1>5. \A k \in 1 .. Len(p) : /\ Step(p[k], Known(j)[k], Known(j)[k + 1])
                             /\ p[k].kind = "if" => k + p[k].jump <= Len(p)
  BY <1>2 DEF Notes
<1>6. Fits(p, Marks(j)) /\ Starts(p, Marks(j)) BY MarksFit
<1> HIDE DEF p, w, s, V
<1>7. \A k \in 1 .. Len(p) : k \in 1 .. Len(s) BY <1>2, <1>3
<1>8. \A k \in 1 .. Len(p) :
        p[k].kind = "if" /\ k > w[k].without
          => Gap(j, k) \in Nat /\ (Gap(j, k) # 0 => Unsure(p[k].cond))
  BY <1>3, <1>4, <1>7
<1>9. ASSUME NEW k \in 1 .. Len(p), p[k].kind # "if"
      PROVE  /\ s[k].kind # "if" /\ (s[k].kind = "skip" <=> p[k].kind = "skip")
             /\ (s[k].kind = "rest" <=> p[k].kind = "rest") /\ s[k].name = p[k].name
             /\ Elements(s[k], V) = Elements(p[k], V) /\ Stride(s[k]) = Stride(p[k])
             /\ Offset(s[k], w[k]) = Offset(p[k], w[k])
  <2>1. Pair(s[k], p[k]) BY <1>3, <1>9
  <2> QED BY <1>9, <2>1, PairIs
<1>10. ASSUME NEW k \in Written(p, w)
       PROVE  k \in 1 .. Len(p) /\ p[k].kind # "if" /\ k \in Written(s, w)
  <2>1. k \in 1 .. Len(p) /\ p[k].kind \notin {"if", "skip"} /\ k > w[k].without BY DEF Written
  <2>2. s[k].kind \notin {"if", "skip"} BY <1>9, <2>1
  <2> QED BY <1>7, <2>1, <2>2 DEF Written
<1>11. ASSUME NEW k \in Written(p, w)
       PROVE  /\ p[k].kind \in {"count", "size", "rest"} => V[p[k].name] \in Nat
              /\ p[k].kind = "sized" => V[p[k].of] \in Nat
              /\ p[k].kind = "cstr" => V[p[k].name] \in Nat \ {0}
              /\ p[k].kind = "time" => IsMoment(V[p[k].name])
              /\ p[k].kind = "array" => CountOf(p[k], V) \in 0 .. (I32 \div 2 - 1)
  <2>1. Pair(s[k], p[k]) /\ p[k].kind # "if" /\ k \in Written(s, w) BY <1>3, <1>10
  <2>2. /\ p[k].kind \in {"count", "size", "rest", "sized", "cstr", "time", "array"} => s[k].kind = p[k].kind
        /\ s[k].name = p[k].name
        /\ p[k].kind \in {"array", "sized"} => s[k].of = p[k].of
    BY <2>1 DEF Pair
  <2>3. p[k].kind = "array" => CountOf(s[k], V) = CountOf(p[k], V) BY <2>2, CountSame
  <2> QED BY <1>4, <2>1, <2>2, <2>3
<1>12. PlacesAre(p, V, w, j.place)
  <2>1. /\ \A k \in Written(s, w) :
             s[k].kind # "rest" =>
               \A i \in 0 .. (Elements(s[k], V) - 1) :
                 /\ <<s[k].name, i>> \in DOMAIN j.place
                 /\ j.place[<<s[k].name, i>>] = Offset(s[k], w[k]) + i * Stride(s[k])
        /\ \A f \in DOMAIN j.place :
             \E k \in Written(s, w) : /\ s[k].kind # "rest" /\ s[k].name = f[1]
                                      /\ f[2] \in 0 .. (Elements(s[k], V) - 1)
    BY <1>4 DEF PlacesAre
  <2>2. ASSUME NEW k \in Written(p, w), p[k].kind # "rest", NEW i \in 0 .. (Elements(p[k], V) - 1)
        PROVE  /\ <<p[k].name, i>> \in DOMAIN j.place
               /\ j.place[<<p[k].name, i>>] = Offset(p[k], w[k]) + i * Stride(p[k])
    <3>1. k \in 1 .. Len(p) /\ p[k].kind # "if" /\ k \in Written(s, w) BY <1>10
    <3>2. /\ s[k].kind # "rest" /\ s[k].name = p[k].name /\ Stride(s[k]) = Stride(p[k])
          /\ Elements(s[k], V) = Elements(p[k], V) /\ Offset(s[k], w[k]) = Offset(p[k], w[k])
      BY <1>9, <2>2, <3>1
    <3> QED BY <2>1, <2>2, <3>1, <3>2
  <2>3. ASSUME NEW f \in DOMAIN j.place
        PROVE  \E k \in Written(p, w) : /\ p[k].kind # "rest" /\ p[k].name = f[1]
                                        /\ f[2] \in 0 .. (Elements(p[k], V) - 1)
    <3>1. PICK k \in Written(s, w) : /\ s[k].kind # "rest" /\ s[k].name = f[1]
                                     /\ f[2] \in 0 .. (Elements(s[k], V) - 1)
      BY <2>1
    <3>2. k \in 1 .. Len(s) /\ s[k].kind \notin {"if", "skip"} /\ k > w[k].without BY DEF Written
    <3>3. k \in 1 .. Len(p)
      <4>1. ~Extra(s[k]) BY <3>1, <3>2 DEF Extra
      <4> QED BY <1>2, <1>3, <3>2, <4>1
    <3>4. p[k].kind # "if" BY <1>3, <3>2, <3>3
    <3>5. p[k].kind \notin {"if", "skip"} BY <1>9, <3>2, <3>3, <3>4
    <3>6. k \in Written(p, w) BY <3>2, <3>3, <3>5 DEF Written
    <3>7. p[k].kind # "rest" /\ p[k].name = f[1] /\ f[2] \in 0 .. (Elements(p[k], V) - 1)
      BY <1>9, <3>1, <3>3, <3>4
    <3> QED BY <3>6, <3>7
  <2> QED BY <2>2, <2>3 DEF PlacesAre
<1>13. j.len \in 0 .. (Usize - 1) /\ (j.block # MAIN => V["flags"] = j.main_flags) BY <1>4
<1> QED BY <1>2, <1>3, <1>5, <1>6, <1>8, <1>11, <1>12, <1>13 DEF p, w, V

LEMMA BytesWritten ==
  ASSUME NEW j \in Jobs, Regular(j), ProgramOf(j) # <<>>, NEW k \in Written(ProgramOf(j), Layout(j))
  PROVE  LET it == ProgramOf(j)[k]
         IN  /\ Bytes(it, j.value) \in Nat
             /\ it.kind \in Scalars => Bytes(it, j.value) = it.width
<1> DEFINE it == ProgramOf(j)[k]
<1>1. /\ it.kind \in {"count", "size", "rest"} => j.value[it.name] \in Nat
      /\ it.kind = "sized" => j.value[it.of] \in Nat
      /\ it.kind = "cstr" => j.value[it.name] \in Nat \ {0}
      /\ it.kind = "array" => CountOf(it, j.value) \in 0 .. (I32 \div 2 - 1)
  BY ServerWrites
<1>2. k \in 1 .. Len(ProgramOf(j)) BY DEF Written
<1>3. it.width \in Nat /\ (it.kind = "array" => it.numbers \in Nat) BY <1>2, ServerWrites DEF Step
<1>4. CASE it.kind = "array"
  <2>1. Bytes(it, j.value) = it.width * it.numbers * CountOf(it, j.value) BY <1>4 DEF Bytes, Stride
  <2>2. CountOf(it, j.value) \in Nat
    <3>1. I32 \div 2 - 1 \in Int BY DescribeAssumption
    <3> QED BY <1>1, <1>4, <3>1
  <2> HIDE DEF it
  <2>3. it.width * it.numbers \in Nat BY <1>3, <1>4, Products
  <2>4. it.width * it.numbers * CountOf(it, j.value) \in Nat BY <2>2, <2>3, Products
  <2> QED BY <1>4, <2>1, <2>4 DEF Scalars, it
<1>5. CASE it.kind = "cstr" BY <1>1, <1>5 DEF Bytes, Scalars
<1>6. CASE it.kind = "sized" BY <1>1, <1>6 DEF Bytes, Scalars
<1>7. CASE it.kind = "rest"
  <2>1. Bytes(it, j.value) = it.width * j.value[it.name] /\ j.value[it.name] \in Nat
    BY <1>1, <1>7 DEF Bytes
  <2> HIDE DEF it
  <2> QED BY <1>3, <1>7, <2>1, Products DEF Scalars, it
<1>8. CASE it.kind \notin {"array", "cstr", "sized", "rest"} BY <1>3, <1>8 DEF Bytes
<1> QED BY <1>4, <1>5, <1>6, <1>7, <1>8

LEMMA SpotAfter ==
  ASSUME NEW j \in Jobs, Regular(j), ProgramOf(j) # <<>>, NEW k \in 1 .. Len(ProgramOf(j)),
         Layout(j)[k] \in Spot
  PROVE  LET it == ProgramOf(j)[k]
             s == Layout(j)[k]
             t == Layout(j)[k + 1]
         IN  /\ t \in Spot /\ s.at <= t.at
             /\ k <= s.without => t = s
             /\ k > s.without /\ it.kind = "skip" => t = s
             /\ k > s.without /\ it.kind = "if" =>
                  /\ t.at = s.at + Gap(j, k) /\ Gap(j, k) \in Nat
                  /\ Gap(j, k) # 0 => Unsure(it.cond)
                  /\ t.packed = (s.packed \/ it.cond.on = "bits")
                  /\ t.without = IF Has(it.cond, j.info, j.value) THEN s.without ELSE k + it.jump
             /\ k \in Written(ProgramOf(j), Layout(j)) =>
                  /\ t.at = Offset(it, s) + Bytes(it, j.value) /\ s.at <= Offset(it, s)
                  /\ Offset(it, s) \in Nat
                  /\ t.packed = s.packed /\ t.without = s.without
<1> DEFINE it == ProgramOf(j)[k]
           s == Layout(j)[k]
           t == Layout(j)[k + 1]
<1>1. t = Turned(j, k, s) BY ServerWrites
<1>2. Form(it) /\ Step(it, Known(j)[k], Known(j)[k + 1]) BY ServerWrites DEF Fits
<1>3. s.at \in Nat /\ s.packed \in BOOLEAN /\ s.without \in Nat /\ k \in Nat BY DEF Spot
<1>4. k \in Written(ProgramOf(j), Layout(j)) <=> k > s.without /\ it.kind \notin {"if", "skip"}
  BY DEF Written
<1>5. k \in Written(ProgramOf(j), Layout(j)) => Bytes(it, j.value) \in Nat BY BytesWritten
<1> HIDE DEF it, s, t
<1>6. CASE k <= s.without
  <2>1. t = s BY <1>1, <1>6 DEF After, Turned, it
  <2>2. s \in Spot BY DEF s
  <2> QED BY <1>3, <1>4, <1>6, <2>1, <2>2 DEF s, t, it
<1>7. CASE k > s.without /\ it.kind = "skip"
  <2>1. t = s BY <1>1, <1>3, <1>7 DEF After, Turned, it
  <2>2. s \in Spot BY DEF s
  <2> QED BY <1>3, <1>4, <1>7, <2>1, <2>2 DEF s, t, it
<1>8. CASE k > s.without /\ it.kind = "if"
  <2>1. t = [at |-> s.at + Gap(j, k), packed |-> s.packed \/ it.cond.on = "bits",
             without |-> IF Has(it.cond, j.info, j.value) THEN s.without ELSE k + it.jump]
    BY <1>1, <1>3, <1>8 DEF Turned, it
  <2>2. it.jump \in Nat /\ Gap(j, k) \in Nat /\ (Gap(j, k) # 0 => Unsure(it.cond))
    BY <1>2, <1>8, ServerWrites DEF Step, it, s
  <2>3. t \in Spot BY <1>3, <2>1, <2>2 DEF Spot
  <2> QED BY <1>3, <1>4, <1>8, <2>1, <2>2, <2>3 DEF s, t, it
<1>9. CASE k > s.without /\ it.kind \notin {"if", "skip"}
  <2>1. t = [s EXCEPT !.at = Offset(it, s) + Bytes(it, j.value)]
    BY <1>1, <1>3, <1>9 DEF After, Turned, it
  <2>2. Bytes(it, j.value) \in Nat BY <1>4, <1>5, <1>9
  <2>3. Offset(it, s) \in Nat /\ s.at <= Offset(it, s)
    <3>1. CASE s.packed \/ it.kind \in ByteKinds BY <1>3, <3>1 DEF Offset
    <3>2. CASE ~(s.packed \/ it.kind \in ByteKinds)
      <4>1. it.width \in {1, 2, 4, 8} BY <1>2, <1>9, <3>2 DEF Form, Step, Scalars, ByteKinds
      <4> QED BY <1>3, <3>2, <4>1, Aligns DEF Offset
    <3> QED BY <3>1, <3>2
  <2>4. s \in Spot BY DEF s
  <2>5. t \in Spot /\ t.at = Offset(it, s) + Bytes(it, j.value) /\ t.packed = s.packed
        /\ t.without = s.without
    BY <2>1, <2>2, <2>3, <2>4 DEF Spot
  <2>6. s.at <= t.at BY <1>3, <2>2, <2>3, <2>5
  <2> QED BY <1>3, <1>4, <1>9, <2>3, <2>5, <2>6 DEF s, t, it
<1> QED BY <1>3, <1>6, <1>7, <1>8, <1>9

LEMMA SpotsGrow ==
  ASSUME NEW j \in Jobs, Regular(j), ProgramOf(j) # <<>>
  PROVE  LET n == Len(ProgramOf(j))
             w == Layout(j)
         IN  /\ n \in Nat /\ \A k \in 1 .. n + 1 : w[k] \in Spot
             /\ \A k, m \in 1 .. n + 1 : k <= m => w[k].at <= w[m].at
<1> DEFINE n == Len(ProgramOf(j))
           w == Layout(j)
<1>1. n \in Nat /\ w[1] \in Spot
  <2>1. n \in Nat /\ w[1] = Spot0 BY ServerWrites
  <2>2. Spot0 \in Spot BY DEF Spot, Spot0
  <2> QED BY <2>1, <2>2
<1>2. ASSUME NEW k \in 1 .. n, w[k] \in Spot PROVE w[k + 1] \in Spot /\ w[k].at <= w[k + 1].at
  BY <1>2, SpotAfter
<1> HIDE DEF n, w
<1>3. ASSUME NEW k \in 1 .. n + 1, w[k] \notin Spot PROVE FALSE
  <2> DEFINE B == {x \in 1 .. n + 1 : w[x] \notin Spot}
  <2>1. B \subseteq Nat /\ k \in B BY <1>3
  <2>2. \A x \in 1 .. n + 1 : x \in B <=> w[x] \notin Spot OBVIOUS
  <2>3. \A x \in B : x \in 1 .. n + 1 OBVIOUS
  <2> HIDE DEF B
  <2>4. PICK x \in B : \A y \in B : x <= y BY <2>1, LeastOf
  <2>5. x \in 2 .. n + 1 /\ x - 1 \in 1 .. n /\ x - 1 \in 1 .. n + 1 /\ (x - 1) + 1 = x
    BY <1>1, <2>2, <2>3, <2>4
  <2>6. w[x - 1] \in Spot BY <2>2, <2>4, <2>5
  <2>7. w[(x - 1) + 1] \in Spot BY <1>2, <2>5, <2>6
  <2> QED BY <2>2, <2>3, <2>4, <2>5, <2>7
<1>4. ASSUME NEW k \in 1 .. n + 1, NEW m \in 1 .. n + 1, k <= m, ~(w[k].at <= w[m].at) PROVE FALSE
  <2> DEFINE B == {x \in k .. n + 1 : ~(w[k].at <= w[x].at)}
  <2>1. B \subseteq Nat /\ m \in B BY <1>4
  <2>2. \A x \in k .. n + 1 : x \in B <=> ~(w[k].at <= w[x].at) OBVIOUS
  <2>3. \A x \in B : x \in k .. n + 1 OBVIOUS
  <2> HIDE DEF B
  <2>4. PICK x \in B : \A y \in B : x <= y BY <2>1, LeastOf
  <2>5. \A y \in 1 .. n + 1 : w[y].at \in Nat BY <1>3 DEF Spot
  <2>6. x # k BY <2>2, <2>3, <2>4, <2>5
  <2>7. x - 1 \in k .. n + 1 /\ x - 1 \in 1 .. n /\ x \in 1 .. n + 1 /\ (x - 1) + 1 = x
    BY <1>1, <2>3, <2>4, <2>6
  <2>8. w[k].at <= w[x - 1].at BY <2>2, <2>4, <2>7
  <2>9. w[x - 1].at <= w[(x - 1) + 1].at
    <3>1. x - 1 \in 1 .. n + 1 BY <2>7
    <3> QED BY <1>2, <1>3, <2>7, <3>1
  <2>10. w[k].at \in Nat /\ w[x].at \in Nat /\ w[x - 1].at \in Nat /\ w[(x - 1) + 1].at = w[x].at
    <3>1. x - 1 \in 1 .. n + 1 BY <2>7
    <3> QED BY <2>5, <2>7, <3>1
  <2>11. w[k].at <= w[x].at BY <2>8, <2>9, <2>10
  <2> QED BY <2>2, <2>3, <2>4, <2>11
<1> QED BY <1>1, <1>3, <1>4 DEF n, w

\* The payload holds the items that the parser reads, and perhaps more behind them.
LEMMA LenIs ==
  ASSUME NEW j \in Jobs, Regular(j), ProgramOf(j) # <<>>
  PROVE  LET n == Len(ProgramOf(j))
             p == ProgramOf(j)
         IN  /\ j.len \in 0 .. (Usize - 1) /\ j.len \in Nat /\ Layout(j)[n + 1].at <= j.len
             /\ (\E k \in 1 .. n : p[k].kind = "if" /\ p[k].cond.on = "room" /\ p[k].cond.bytes = Metadata)
                  => j.len = Layout(j)[n + 1].at
<1> DEFINE p == ProgramOf(j)
           s == MembersOf(j)
           w == Layout(j)
           n == Len(p)
           Grows(k) == w[k] \in Spot /\ w[n + 1].at <= w[k].at
<1>1. /\ n \in Nat /\ w[n + 1] \in Spot /\ j.len \in 0 .. (Usize - 1)
  <2>1. /\ n \in Nat /\ \A k \in 1 .. n + 1 : w[k] \in Spot BY SpotsGrow
  <2>2. j.len \in 0 .. (Usize - 1) BY ServerWrites
  <2> QED BY <2>1, <2>2
<1>2. /\ Len(s) \in {n, n + 1, n + 2} /\ Len(s) \in Nat
      /\ \A k \in 1 .. Len(s) : w[k + 1] = After(s[k], k, j.info, j.value, w[k])
      /\ \A k \in n + 1 .. Len(s) : Extra(s[k])
      /\ (\E k \in 1 .. n : p[k].kind = "if" /\ p[k].cond.on = "room" /\ p[k].cond.bytes = Metadata)
           => Len(s) = n
  BY LayoutTurns
<1>3. /\ j.len = w[Len(s) + 1].at
      /\ \A k \in Written(s, w) : s[k].kind = "rest" => j.value[s[k].name] \in Nat
      /\ \A k \in 1 .. Len(s) : s[k].kind = "if" /\ k > w[k].without => InFront(s[k], j.value) \in Nat
  <2>1. LaidOut(j) BY PayloadAssumption DEF ProgramOf, Regular
  <2> QED BY <2>1 DEF LaidOut, Layout, MembersOf
<1> HIDE DEF p, s, w, n
<1>4. ASSUME NEW k \in n + 1 .. Len(s), Grows(k) PROVE Grows(k + 1)
  <2> DEFINE z == w[k]
             it == s[k]
  <2>1. k \in 1 .. Len(s) /\ Extra(it) /\ w[k + 1] = After(it, k, j.info, j.value, z) BY <1>1, <1>2
  <2>2. /\ z \in Spot /\ z.at \in Nat /\ z.packed \in BOOLEAN /\ z.without \in Nat
        /\ w[n + 1].at <= z.at /\ w[n + 1].at \in Nat /\ k \in Nat
    BY <1>1, <1>4 DEF Spot
  <2>3. CASE k <= z.without
    <3>1. w[k + 1] = z BY <2>1, <2>3 DEF After
    <3> QED BY <2>2, <3>1
  <2>4. CASE ~(k <= z.without) /\ it.kind = "if"
    <3> DEFINE g == InFront(it, j.value)
    <3>1. g \in Nat /\ it.jump \in Nat BY <1>3, <2>1, <2>2, <2>4 DEF Extra
    <3>2. w[k + 1] = [at |-> z.at + g, packed |-> z.packed \/ it.cond.on = "bits",
                      without |-> IF IsThere(it.cond, j.info, j.value) THEN z.without ELSE k + it.jump]
      BY <2>1, <2>4 DEF After
    <3> HIDE DEF g
    <3>3. w[k + 1] \in Spot /\ w[k + 1].at = z.at + g BY <2>2, <3>1, <3>2 DEF Spot
    <3> QED BY <2>2, <3>1, <3>3
  <2>5. CASE ~(k <= z.without) /\ it.kind # "if"
    <3> DEFINE v == j.value[it.name]
    <3>1. it.kind = "rest" /\ it.width \in Nat BY <2>1, <2>5 DEF Extra
    <3>2. k \in Written(s, w) BY <2>1, <2>2, <2>5, <3>1 DEF Written
    <3>3. v \in Nat BY <1>3, <3>1, <3>2
    <3>4. Offset(it, z) = z.at /\ Bytes(it, j.value) = it.width * v
      BY <3>1 DEF Offset, ByteKinds, Bytes
    <3> HIDE DEF v, it
    <3>5. it.width * v \in Nat BY <3>1, <3>3, Products
    <3>6. w[k + 1] = [z EXCEPT !.at = z.at + it.width * v] BY <2>1, <2>5, <3>1, <3>4 DEF After
    <3> HIDE DEF z
    <3>7. w[k + 1] \in Spot /\ w[k + 1].at = z.at + it.width * v BY <2>2, <3>5, <3>6 DEF Spot
    <3> QED BY <2>2, <3>5, <3>7
  <2> QED BY <2>3, <2>4, <2>5
<1>5. Grows(n + 1) BY <1>1 DEF Spot
<1>6. Grows(Len(s) + 1)
  <2>1. CASE Len(s) = n BY <1>5, <2>1
  <2>2. CASE Len(s) = n + 1
    <3>1. n + 1 \in n + 1 .. Len(s) BY <1>1, <2>2
    <3> QED BY <1>4, <1>5, <2>2, <3>1
  <2>3. CASE Len(s) = n + 2
    <3>1. n + 1 \in n + 1 .. Len(s) /\ n + 2 \in n + 1 .. Len(s) /\ (n + 1) + 1 = n + 2 BY <1>1, <2>3
    <3>2. Grows((n + 1) + 1) BY <1>4, <1>5, <3>1
    <3>3. Grows((n + 2) + 1) BY <1>4, <3>1, <3>2
    <3> QED BY <2>3, <3>3
  <2> QED BY <1>2, <2>1, <2>2, <2>3
<1> HIDE DEF Grows
<1>7. j.len \in Nat /\ w[n + 1].at <= j.len BY <1>3, <1>6 DEF Grows, Spot
<1> QED BY <1>1, <1>2, <1>3, <1>7 DEF p, w, n

\* The items of a part that is not there leave everything as it is.
LEMMA PartSkipped ==
  ASSUME NEW j \in Jobs, Regular(j), ProgramOf(j) # <<>>, NEW k \in 1 .. Len(ProgramOf(j)),
         k > Layout(j)[k].without, ProgramOf(j)[k].kind = "if",
         ~Has(ProgramOf(j)[k].cond, j.info, j.value)
  PROVE  LET e == k + ProgramOf(j)[k].jump
         IN  /\ e + 1 \in 1 .. Len(ProgramOf(j)) + 1 /\ k + 1 \in 1 .. Len(ProgramOf(j)) + 1
             /\ \A m \in k + 1 .. e + 1 : Layout(j)[m] = Layout(j)[k + 1]
             /\ Layout(j)[k + 1].without = e
<1> DEFINE n == Len(ProgramOf(j))
           w == Layout(j)
           e == k + ProgramOf(j)[k].jump
<1>1. n \in Nat /\ w[k] \in Spot BY SpotsGrow
<1>2. ProgramOf(j)[k].jump \in Nat /\ e <= n BY ServerWrites DEF Step
<1>3. w[k + 1].without = e BY <1>1, SpotAfter
<1>4. \A m \in k + 1 .. e : m <= w[m].without => w[m + 1] = w[m]
  <2> SUFFICES ASSUME NEW m \in k + 1 .. e, m <= w[m].without PROVE w[m + 1] = w[m] OBVIOUS
  <2>1. m \in 1 .. n /\ m \in 1 .. n + 1 BY <1>1, <1>2
  <2>2. w[m] \in Spot BY <2>1, SpotsGrow
  <2> QED BY <2>1, <2>2, SpotAfter
<1> HIDE DEF w, n
<1>5. e \in Nat /\ k \in Nat /\ k <= e /\ k \in 1 .. n BY <1>1, <1>2 DEF n
<1> HIDE DEF e
<1>6. ASSUME NEW q \in k + 1 .. e + 1, w[q] # w[k + 1] PROVE FALSE
  <2> DEFINE B == {x \in k + 1 .. e + 1 : w[x] # w[k + 1]}
  <2>1. B \subseteq Nat /\ q \in B BY <1>5, <1>6
  <2>2. \A x \in k + 1 .. e + 1 : x \in B <=> w[x] # w[k + 1] OBVIOUS
  <2>3. \A x \in B : x \in k + 1 .. e + 1 OBVIOUS
  <2> HIDE DEF B
  <2>4. PICK x \in B : \A y \in B : x <= y BY <2>1, LeastOf
  <2>5. x # k + 1 BY <2>2, <2>3, <2>4
  <2>6. x - 1 \in k + 1 .. e + 1 /\ x - 1 \in k + 1 .. e /\ (x - 1) + 1 = x /\ x \in k + 1 .. e + 1
    BY <1>5, <2>3, <2>4, <2>5
  <2>7. w[x - 1] = w[k + 1] BY <2>2, <2>4, <2>6
  <2>8. w[(x - 1) + 1] = w[x - 1] BY <1>3, <1>4, <2>6, <2>7
  <2>9. w[x] = w[k + 1] BY <2>6, <2>7, <2>8
  <2> QED BY <2>2, <2>4, <2>6, <2>9
<1>7. e + 1 \in 1 .. n + 1 /\ k + 1 \in 1 .. n + 1 BY <1>1, <1>2, <1>5 DEF e
<1> QED BY <1>3, <1>6, <1>7 DEF n, w, e

\* No item is written behind a part that no parser reads.
GapsLast(j) ==
  LET p == ProgramOf(j)
      w == Layout(j)
  IN  \A k \in 1 .. Len(p) : p[k].kind = "if" /\ k > w[k].without /\ Gap(j, k) # 0
                             => \A m \in Written(p, w) : m < k

\* The reader is at x, before item k of the payload.
Here(j, k, x) ==
  LET t == Marks(j)[k]
      s == Layout(j)[k]
  IN  /\ k > s.without /\ t.mode # "never"
      /\ t.mode = "struct" => ~s.packed /\ s.at = t.w /\ x = t.o
      /\ t.mode = "packed" => s.packed /\ x = s.at
      /\ t.mode = "tail" => /\ s.packed
                            /\ GapsLast(j) => x = s.at \/ \A m \in Written(ProgramOf(j), Layout(j)) : m < k

\* The bytes of the elements read so far.
Past(it) == IF elem = 0 THEN 0 ELSE elem * Stride(it)

(***************************************************************************)
(* The invariant of the reader on what a server wrote: it is where the     *)
(* marks and the layout say, perhaps inside of an array, and the counts    *)
(* and flags it has read are the server's.                                 *)
(***************************************************************************)
Laying ==
  Regular(job) /\ Parser # <<>> /\ job.len # 0 =>
    /\ Here(job, item, pos - Past(Parser[item]))
    /\ elem > 0 => /\ item <= Len(Parser) /\ Parser[item].kind = "array"
                   /\ elem <= Shown(Parser[item])
    /\ \A n \in DOMAIN got : got[n] = job.value[n]

\* Before an item of what a server wrote.
Server == Describing /\ Laying /\ Regular(job) /\ Parser # <<>> /\ job.len # 0

LEMMA ItemLaid ==
  ASSUME Server, NEW it \in NextItems
  PROVE  /\ job \in Jobs /\ Parser = ProgramOf(job) /\ item \in 1 .. Len(Parser)
         /\ Len(Parser) \in Nat
         /\ it = Parser[item] /\ it = ProgramOf(job)[item]
         /\ Layout(job)[item] \in Spot /\ Layout(job)[item + 1] \in Spot
         /\ item > Layout(job)[item].without
         /\ Step(it, Known(job)[item], Known(job)[item + 1])
         /\ Form(it) /\ Fit(it, Marks(job)[item], Marks(job)[item + 1])
         /\ Marks(job)[item].o \in Nat /\ Marks(job)[item].w \in Nat
         /\ Marks(job)[item].mode # "never"
         /\ Here(job, item, pos - Past(it))
         /\ it.kind # "array" => elem = 0 /\ Past(it) = 0
         /\ pos \in Nat /\ job.len \in Nat /\ Layout(job)[Len(Parser) + 1].at <= job.len
         /\ Layout(job)[item].at <= Layout(job)[item + 1].at /\ Layout(job)[item + 1].at <= job.len
         /\ pos + remaining = job.len /\ remaining \in Nat
<1>1. job \in Jobs /\ Parser = ProgramOf(job) /\ item \in 1 .. Len(Parser) /\ it = Parser[item]
  BY ItemIs, MostIs DEF Server, Describing
<1>2. /\ Len(Parser) \in Nat /\ Layout(job)[item] \in Spot /\ Layout(job)[item + 1] \in Spot
      /\ Layout(job)[item].at <= Layout(job)[item + 1].at
      /\ Layout(job)[item + 1].at <= Layout(job)[Len(Parser) + 1].at
  <2>1. /\ Len(Parser) \in Nat /\ \A k \in 1 .. Len(Parser) + 1 : Layout(job)[k] \in Spot
        /\ \A k, m \in 1 .. Len(Parser) + 1 : k <= m => Layout(job)[k].at <= Layout(job)[m].at
    BY <1>1, SpotsGrow DEF Server
  <2>2. item \in 1 .. Len(Parser) + 1 /\ item + 1 \in 1 .. Len(Parser) + 1
        /\ Len(Parser) + 1 \in 1 .. Len(Parser) + 1 /\ item <= item + 1
        /\ item + 1 <= Len(Parser) + 1
    BY <1>1, <2>1
  <2> QED BY <2>1, <2>2
<1>3. /\ Step(it, Known(job)[item], Known(job)[item + 1])
      /\ Fits(ProgramOf(job), Marks(job)) /\ Starts(ProgramOf(job), Marks(job))
      /\ Layout(job)[Len(Parser) + 1].at <= job.len /\ Layout(job)[Len(Parser) + 1].at \in Nat
  <2>1. /\ Layout(job)[Len(Parser) + 1].at <= job.len BY <1>1, LenIs DEF Server
  <2>2. Layout(job)[Len(Parser) + 1] \in Spot
    <3>1. Len(Parser) + 1 \in 1 .. Len(Parser) + 1 BY <1>2
    <3> QED BY <1>1, <3>1, SpotsGrow DEF Server
  <2> QED BY <1>1, <2>1, <2>2, ServerWrites DEF Server, Spot
<1>4. Form(it) /\ Fit(it, Marks(job)[item], Marks(job)[item + 1]) BY <1>1, <1>3 DEF Fits
<1>5. Marks(job)[item].o \in Nat /\ Marks(job)[item].w \in Nat BY <1>1, <1>2, <1>3 DEF Starts
<1>6. Here(job, item, pos - Past(it)) BY <1>1 DEF Server, Laying
<1>7. item > Layout(job)[item].without /\ Marks(job)[item].mode # "never" BY <1>6 DEF Here
<1>8. it.kind # "array" => elem = 0 /\ Past(it) = 0 BY <1>1 DEF Server, Laying, Describing, Past
<1>9. pos \in Nat /\ job.len \in Nat /\ pos + remaining = job.len /\ remaining \in Nat
  BY Widths DEF Server
<1>10. Layout(job)[item + 1].at <= job.len
  <2>1. Layout(job)[item + 1].at \in Nat BY <1>2 DEF Spot
  <2> QED BY <1>2, <1>3, <1>9, <2>1
<1> QED BY <1>1, <1>2, <1>3, <1>4, <1>5, <1>6, <1>7, <1>8, <1>9, <1>10

\* An item that a server wrote.
LEMMA ItemWritten ==
  ASSUME Server, NEW it \in NextItems, it.kind \notin {"if", "skip"}
  PROVE  /\ item \in Written(ProgramOf(job), Layout(job))
         /\ Layout(job)[item + 1].at = Offset(it, Layout(job)[item]) + Bytes(it, job.value)
         /\ Layout(job)[item].at <= Offset(it, Layout(job)[item])
         /\ Offset(it, Layout(job)[item]) \in Nat /\ Bytes(it, job.value) \in Nat
         /\ Layout(job)[item + 1].packed = Layout(job)[item].packed
         /\ Layout(job)[item + 1].without = Layout(job)[item].without
         /\ it.kind # "rest" =>
              \A i \in 0 .. (Elements(it, job.value) - 1) :
                 /\ <<it.name, i>> \in DOMAIN job.place
                 /\ job.place[<<it.name, i>>] = Offset(it, Layout(job)[item]) + i * Stride(it)
         /\ it.kind \in {"count", "size", "rest"} => job.value[it.name] \in Nat
         /\ it.kind = "sized" => job.value[it.of] \in Nat
         /\ it.kind = "cstr" => job.value[it.name] \in Nat \ {0}
         /\ it.kind = "time" => IsMoment(job.value[it.name])
         /\ it.kind = "array" => CountOf(it, job.value) \in 0 .. (I32 \div 2 - 1)
<1>1. /\ job \in Jobs /\ Regular(job) /\ ProgramOf(job) # <<>> /\ item \in 1 .. Len(ProgramOf(job))
      /\ it = ProgramOf(job)[item] /\ Layout(job)[item] \in Spot /\ item > Layout(job)[item].without
  BY ItemLaid DEF Server
<1>2. item \in Written(ProgramOf(job), Layout(job)) BY <1>1 DEF Written
<1>3. /\ Layout(job)[item + 1].at = Offset(it, Layout(job)[item]) + Bytes(it, job.value)
      /\ Layout(job)[item].at <= Offset(it, Layout(job)[item])
      /\ Offset(it, Layout(job)[item]) \in Nat
      /\ Layout(job)[item + 1].packed = Layout(job)[item].packed
      /\ Layout(job)[item + 1].without = Layout(job)[item].without
  BY <1>1, <1>2, SpotAfter
<1>4. Bytes(it, job.value) \in Nat BY <1>1, <1>2, BytesWritten
<1>5. /\ PlacesAre(ProgramOf(job), job.value, Layout(job), job.place)
      /\ it.kind \in {"count", "size", "rest"} => job.value[it.name] \in Nat
      /\ it.kind = "sized" => job.value[it.of] \in Nat
      /\ it.kind = "cstr" => job.value[it.name] \in Nat \ {0}
      /\ it.kind = "time" => IsMoment(job.value[it.name])
      /\ it.kind = "array" => CountOf(it, job.value) \in 0 .. (I32 \div 2 - 1)
  BY <1>1, <1>2, ServerWrites
<1>6. it.kind # "rest" =>
        \A i \in 0 .. (Elements(it, job.value) - 1) :
           /\ <<it.name, i>> \in DOMAIN job.place
           /\ job.place[<<it.name, i>>] = Offset(it, Layout(job)[item]) + i * Stride(it)
  BY <1>1, <1>2, <1>5 DEF PlacesAre
<1> QED BY <1>2, <1>3, <1>4, <1>5, <1>6

\* The reader stands where the number is that it reads, and goes to the next item.
LEMMA ScalarHere ==
  ASSUME Server, NEW it \in NextItems, it.kind \in Scalars
  PROVE  /\ it.kind \in Controls => Marks(job)[item].mode # "tail"
         /\ Marks(job)[item].mode # "tail" \/ GapsLast(job) =>
                  /\ pos = Offset(it, Layout(job)[item]) /\ Reads(it.width)
                  /\ <<it.name, 0>> \in DOMAIN job.place /\ job.place[<<it.name, 0>>] = pos
         /\ Here(job, item + 1, AfterRead(it.width))
<1> DEFINE t == Marks(job)[item]
           u == Marks(job)[item + 1]
           s == Layout(job)[item]
           r == Layout(job)[item + 1]
           V == job.value
<1>1. /\ Fit(it, t, u) /\ t.mode # "never" /\ Here(job, item, pos) /\ Form(it)
      /\ t.o \in Nat /\ t.w \in Nat /\ s \in Spot /\ r \in Spot /\ pos \in Nat /\ r.at <= job.len
      /\ job.len \in Nat /\ pos + remaining = job.len /\ remaining \in Nat /\ item > s.without
      /\ item \in Nat
  <2>1. Past(it) = 0 BY ItemLaid DEF Scalars
  <2>2. pos - 0 = pos BY ItemLaid
  <2> QED BY <2>1, <2>2, ItemLaid
<1>2. /\ item \in Written(ProgramOf(job), Layout(job))
      /\ r.at = Offset(it, s) + Bytes(it, V) /\ Offset(it, s) \in Nat /\ Bytes(it, V) \in Nat
      /\ r.packed = s.packed /\ r.without = s.without
      /\ \A i \in 0 .. (Elements(it, V) - 1) :
           /\ <<it.name, i>> \in DOMAIN job.place
           /\ job.place[<<it.name, i>>] = Offset(it, s) + i * Stride(it)
      /\ it.kind = "count" => V[it.name] \in Nat
  BY ItemWritten DEF Scalars
<1>3. /\ Bytes(it, V) = it.width
      /\ it.width \in {1, 2, 4, 8} /\ Elements(it, V) = 1 /\ Stride(it) = it.width
  <2>1. job \in Jobs /\ it = ProgramOf(job)[item] /\ Regular(job) /\ ProgramOf(job) # <<>>
    BY ItemLaid DEF Server
  <2> QED BY SMTT(30), <1>1, <1>2, <2>1, BytesWritten DEF Form, Elements, Stride, Scalars
<1>4. FitScalar(it, t, u) BY <1>1 DEF Fit, Scalars
<1>5. <<it.name, 0>> \in DOMAIN job.place /\ job.place[<<it.name, 0>>] = Offset(it, s)
  <2>1. 0 \in 0 .. (Elements(it, V) - 1) BY <1>3
  <2>2. Offset(it, s) + 0 * it.width = Offset(it, s) BY <1>2, <1>3
  <2> QED BY <1>2, <1>3, <2>1, <2>2
<1>6. /\ Offset(it, s) = IF s.packed THEN s.at ELSE Aligned(s.at, it.width)
      /\ s.at \in Nat /\ s.packed \in BOOLEAN
  BY <1>1 DEF Offset, ByteKinds, Scalars, Spot
<1> HIDE DEF s, r, t, u, V
<1>7. ASSUME pos = Offset(it, s) PROVE Reads(it.width) /\ AfterRead(it.width) = pos + it.width
  <2>1. remaining >= it.width BY <1>1, <1>2, <1>3, <1>7
  <2> QED BY <2>1 DEF Reads, AfterRead
<1>8. CASE t.mode = "struct"
  <2>1. t.o = Aligned(t.w, it.width) /\ Moves(t, it.width, u)
    BY <1>4, <1>8 DEF FitScalar
  <2>2. ~s.packed /\ s.at = t.w /\ pos = t.o BY <1>1, <1>8 DEF Here, s, t
  <2>3. pos = Offset(it, s) /\ r.at = pos + it.width /\ AfterRead(it.width) = pos + it.width
    BY <1>2, <1>3, <1>6, <1>7, <2>1, <2>2
  <2>4. Here(job, item + 1, pos + it.width)
    <3>1. item + 1 > r.without BY <1>1, <1>2 DEF s, Spot
    <3> QED BY <1>2, <2>1, <2>2, <2>3, <3>1 DEF Here, Moves, u, r
  <2> QED BY <1>5, <1>7, <1>8, <2>3, <2>4 DEF t, s
<1>9. CASE t.mode = "packed"
  <2>1. Packs(t, u) BY <1>4, <1>9 DEF FitScalar
  <2>2. s.packed /\ pos = s.at BY <1>1, <1>9 DEF Here, s, t
  <2>3. pos = Offset(it, s) /\ AfterRead(it.width) = pos + it.width BY <1>6, <1>7, <2>2
  <2>4. Here(job, item + 1, pos + it.width)
    <3>1. item + 1 > r.without BY <1>1, <1>2 DEF s, Spot
    <3>2. u.mode \in {"packed", "tail", "end"} BY <1>9, <2>1 DEF Packs
    <3>3. r.at = pos + it.width BY <1>2, <1>3, <2>3
    <3> QED BY <1>2, <2>2, <3>1, <3>2, <3>3 DEF Here, u, r
  <2> QED BY <1>5, <1>7, <1>9, <2>3, <2>4 DEF t, s
<1>10. CASE t.mode = "tail"
  <2>1. Packs(t, u) /\ it.kind \in {"int", "unshown", "time"} BY <1>4, <1>10 DEF FitScalar
  <2>2. s.packed BY <1>1, <1>10 DEF Here, s, t
  <2>3. GapsLast(job) => pos = Offset(it, s)
    <3>1. GapsLast(job) => pos = s.at \/ \A m \in Written(ProgramOf(job), Layout(job)) : m < item
      BY <1>1, <1>10 DEF Here, s, t
    <3>2. ~(item < item) BY <1>1
    <3> QED BY <1>2, <1>6, <2>2, <3>1, <3>2
  <2>4. Here(job, item + 1, AfterRead(it.width))
    <3>1. item + 1 > r.without BY <1>1, <1>2 DEF s, Spot
    <3>2. u.mode \in {"tail", "end"} BY <1>10, <2>1 DEF Packs
    <3>3. GapsLast(job) => r.at = AfterRead(it.width) BY <1>2, <1>3, <1>7, <2>1, <2>3
    <3> QED BY <1>2, <2>2, <3>1, <3>2, <3>3 DEF Here, u, r
  <2> QED BY <1>5, <1>7, <1>10, <2>1, <2>3, <2>4 DEF t, s, Controls
<1> QED BY <1>4, <1>8, <1>9, <1>10 DEF FitScalar

\* To an item further on.
LEMMA LayNext ==
  ASSUME Server, job' = job, elem' = 0, pos' \in Nat, Here(job, item', pos'),
         \A n \in DOMAIN got' : got'[n] = job.value[n]
  PROVE  Laying'
<1>1. Parser' = Parser BY DEF Parser
<1>2. Past(Parser[item])' = 0 BY DEF Past
<1>3. Here(job, item, pos - Past(Parser[item]))'
  <2>1. pos' - 0 = pos'
    <3>1. \A x \in Nat : x - 0 = x OBVIOUS
    <3> QED BY <3>1
  <2> QED BY <1>1, <1>2, <2>1 DEF Here
<1> QED BY <1>1, <1>3 DEF Laying

LEMMA GotIs == ASSUME Server PROVE \A n \in DOMAIN got : got[n] = job.value[n]
BY DEF Server, Laying

LEMMA ReadsOn == ASSUME Server, NEW it \in NextItems PROVE AfterRead(it.width) \in Nat
<1>1. Describing BY DEF Server
<1>2. AfterRead(it.width) \in 0 .. job.len /\ job.len \in Nat BY <1>1, Widths
<1> QED BY <1>2

LEMMA LayNumber == ASSUME Server, NEW it \in NextItems, ReadNumber(it) PROVE Laying'
<1>1. /\ it.kind \in Scalars /\ pos' = AfterRead(it.width) /\ item' = item + 1 /\ job' = job
      /\ elem' = elem /\ got' = got /\ it.kind # "array"
  BY DEF ReadNumber, Scalars
<1>2. pos' \in Nat /\ elem = 0 BY <1>1, ReadsOn, ItemLaid
<1> QED BY <1>1, <1>2, ScalarHere, LayNext, GotIs

LEMMA LayTimestamp == ASSUME Server, NEW it \in NextItems, ReadTimestamp(it) PROVE Laying'
<1>1. /\ it.kind \in Scalars /\ pos' = AfterRead(it.width) /\ item' = item + 1 /\ job' = job
      /\ elem' = elem /\ got' = got /\ it.kind # "array"
  BY DEF ReadTimestamp, Scalars
<1>2. pos' \in Nat /\ elem = 0 BY <1>1, ReadsOn, ItemLaid
<1> QED BY <1>1, <1>2, ScalarHere, LayNext, GotIs

\* A control is read as what was written.
LEMMA ControlIs ==
  ASSUME Server, NEW it \in NextItems, it.kind \in Controls, NEW v \in Values(it)
  PROVE  v = job.value[it.name] /\ Reads(it.width) /\ Where(it.width) = Offset(it, Layout(job)[item])
<1>1. /\ pos = Offset(it, Layout(job)[item]) /\ Reads(it.width)
      /\ <<it.name, 0>> \in DOMAIN job.place /\ job.place[<<it.name, 0>>] = pos
  BY ScalarHere DEF Controls, Scalars
<1> QED BY <1>1 DEF Values, Controls, Where

LEMMA LayControl == ASSUME Server, NEW it \in NextItems, ReadControl(it) PROVE Laying'
<1>1. PICK v \in Values(it) :
        got' = [n \in DOMAIN got \cup {it.name} |-> IF n = it.name THEN v ELSE got[n]]
  BY DEF ReadControl
<1>2. /\ it.kind \in Controls /\ it.kind \in Scalars /\ pos' = AfterRead(it.width)
      /\ item' = item + 1
      /\ job' = job /\ elem' = elem /\ it.kind # "array"
  BY DEF ReadControl, Scalars, Controls
<1>3. pos' \in Nat /\ elem = 0 BY <1>2, ReadsOn, ItemLaid
<1>4. v = job.value[it.name] BY <1>2, ControlIs
<1>5. \A n \in DOMAIN got' : got'[n] = job.value[n] BY <1>1, <1>4, GotIs
<1> QED BY <1>2, <1>3, <1>5, ScalarHere, LayNext

LEMMA LaySkip == ASSUME Server, NEW it \in NextItems, Skip(it) PROVE Laying'
<1> DEFINE k == item + 1
           next == ProgramOf(job)[k]
           t == Marks(job)[item]
           u == Marks(job)[k]
<1>1. /\ it.kind = "skip" /\ pos' = skip_to(it.width) /\ item' = k /\ job' = job
      /\ elem' = elem /\ got' = got
  BY DEF Skip
<1>2. /\ job \in Jobs /\ Regular(job) /\ ProgramOf(job) # <<>> /\ Parser = ProgramOf(job)
      /\ item \in 1 .. Len(Parser) /\ Len(Parser) \in Nat /\ it = ProgramOf(job)[item]
      /\ elem = 0 /\ Here(job, item, pos) /\ t.mode # "never" /\ Fit(it, t, u)
      /\ Layout(job)[item] \in Spot /\ item > Layout(job)[item].without
      /\ t.o \in Nat /\ t.w \in Nat /\ it.width \in Nat /\ pos \in Nat /\ job.len \in Nat
  <2>1. Past(it) = 0 /\ pos \in Nat BY <1>1, ItemLaid
  <2>2. pos - 0 = pos BY <2>1
  <2> QED BY <1>1, <2>1, <2>2, ItemLaid DEF Server, Step
<1>3. /\ t.mode = "struct" /\ u.mode = "struct" /\ u.o = t.o + it.width /\ u.w = t.w
  BY <1>1, <1>2 DEF Fit, Scalars
<1>4. Layout(job)[k] = Layout(job)[item] BY <1>1, <1>2, SpotAfter
<1>5. ~Layout(job)[item].packed /\ Layout(job)[item].at = t.w /\ pos = t.o BY <1>2, <1>3 DEF Here
<1>6. Here(job, k, u.o)
  <2>1. k > Layout(job)[k].without BY <1>2, <1>4 DEF Spot
  <2> QED BY <1>3, <1>4, <1>5, <2>1 DEF Here
<1>7. /\ k \in 1 .. Len(Parser) /\ next.kind \in Scalars \cup {"array"} /\ Form(next)
      /\ Fit(next, u, Marks(job)[k + 1]) /\ job.len \in 0 .. (Usize - 1)
      /\ Layout(job)[Len(Parser) + 1].at <= job.len
  <2>1. Fits(ProgramOf(job), Marks(job)) /\ job.len \in 0 .. (Usize - 1)
        /\ Layout(job)[Len(Parser) + 1].at <= job.len
    BY <1>2, ServerWrites, LenIs
  <2>2. item < Len(Parser) /\ next.kind \in Scalars \cup {"array"} BY <1>1, <1>2, <2>1 DEF Fits
  <2>3. k \in 1 .. Len(Parser) BY <1>2, <2>2
  <2> QED BY <1>2, <2>1, <2>2, <2>3 DEF Fits
<1>8. u.o <= job.len
  <2>1. k \in Written(ProgramOf(job), Layout(job)) BY <1>2, <1>6, <1>7 DEF Written, Here, Scalars
  <2>2. /\ Layout(job)[k + 1].at = Offset(next, Layout(job)[k]) + Bytes(next, job.value)
        /\ Offset(next, Layout(job)[k]) \in Nat /\ Bytes(next, job.value) \in Nat
    BY <1>2, <1>4, <1>7, <2>1, SpotAfter, BytesWritten
  <2>3. Layout(job)[k + 1].at <= job.len
    <3>1. /\ \A a, b \in 1 .. Len(Parser) + 1 : a <= b => Layout(job)[a].at <= Layout(job)[b].at
      BY <1>2, SpotsGrow
    <3>2. /\ k + 1 \in 1 .. Len(Parser) + 1 /\ Len(Parser) + 1 \in 1 .. Len(Parser) + 1
          /\ k + 1 <= Len(Parser) + 1
      BY <1>2, <1>7
    <3>3. /\ Layout(job)[k + 1].at <= Layout(job)[Len(Parser) + 1].at
          /\ Layout(job)[k + 1].at \in Nat /\ Layout(job)[Len(Parser) + 1].at \in Nat
      BY <1>2, <3>1, <3>2, SpotsGrow DEF Spot
    <3> QED BY <1>2, <1>7, <3>3
  <2>4. Offset(next, Layout(job)[k]) = Aligned(t.w, next.width)
    BY <1>4, <1>5, <1>7 DEF Offset, Scalars, ByteKinds
  <2>5. u.o = Aligned(t.w, next.width) BY <1>3, <1>7 DEF Fit, FitScalar, FitArray, Scalars
  <2> HIDE DEF u, t, next, k
  <2> QED BY <1>2, <2>2, <2>3, <2>4, <2>5
<1>9. pos' = u.o /\ pos' \in Nat
  <2>1. /\ u.o = pos + it.width /\ u.o \in 0 .. job.len /\ job.len < Usize
        /\ Usize \in Nat \ {0} /\ job.len \in Nat
    <3>1. Usize \in Nat \ {0} BY DescribeAssumption
    <3> HIDE DEF u, t, k, next
    <3>2. u.o = t.o + it.width /\ pos = t.o /\ t.o \in Nat /\ it.width \in Nat BY <1>2, <1>3, <1>5
    <3>3. job.len \in 0 .. (Usize - 1) /\ u.o <= job.len BY <1>7, <1>8
    <3> QED BY ONLY <3>1, <3>2, <3>3
  <2> HIDE DEF u
  <2>2. Unsigned(pos + it.width) = u.o
    <3>1. \A a \in Nat, b \in Nat \ {0} : a < b => a % b = a OBVIOUS
    <3> QED BY <2>1, <3>1 DEF Unsigned
  <2> QED BY <1>1, <2>1, <2>2 DEF skip_to, Least
<1> QED BY <1>1, <1>2, <1>6, <1>9, LayNext, GotIs

LEMMA StepOn ==
  ASSUME NEW j \in Jobs, Regular(j), ProgramOf(j) # <<>>, NEW m \in 1 .. Len(ProgramOf(j)),
         m > Layout(j)[m].without, ProgramOf(j)[m].kind # "if"
  PROVE  /\ Layout(j)[m] \in Spot /\ Layout(j)[m + 1] \in Spot
         /\ Layout(j)[m + 1].without = Layout(j)[m].without
         /\ Layout(j)[m].at <= Layout(j)[m + 1].at
         /\ ProgramOf(j)[m].kind \in Scalars =>
              ProgramOf(j)[m].width \in Nat /\ Layout(j)[m].at + ProgramOf(j)[m].width <= Layout(j)[m + 1].at
<1> DEFINE it == ProgramOf(j)[m]
           s == Layout(j)[m]
           t == Layout(j)[m + 1]
<1>1. s \in Spot /\ t \in Spot
  <2>1. Len(ProgramOf(j)) \in Nat BY SpotsGrow
  <2>2. m \in 1 .. Len(ProgramOf(j)) + 1 /\ m + 1 \in 1 .. Len(ProgramOf(j)) + 1 BY <2>1
  <2> QED BY <2>2, SpotsGrow
<1>2. CASE it.kind = "skip"
  <2>1. t = s BY <1>1, <1>2, SpotAfter
  <2> QED BY <1>1, <1>2, <2>1 DEF Scalars, Spot
<1>3. CASE it.kind # "skip"
  <2>1. m \in Written(ProgramOf(j), Layout(j)) BY <1>3 DEF Written
  <2>2. /\ t.at = Offset(it, s) + Bytes(it, j.value) /\ s.at <= Offset(it, s)
        /\ Offset(it, s) \in Nat /\ t.without = s.without /\ s.at <= t.at
    BY <1>1, <2>1, SpotAfter
  <2>3. it.kind \in Scalars => Bytes(it, j.value) = it.width BY <2>1, BytesWritten
  <2>5. it.kind \in Scalars => it.width \in Nat BY ServerWrites DEF Step
  <2>6. s.at \in Nat BY <1>1 DEF Spot
  <2>7. it.kind \in Scalars => Bytes(it, j.value) \in Nat /\ it.width <= Bytes(it, j.value)
    BY <2>3, <2>5
  <2> HIDE DEF it, s, t
  <2>8. it.kind \in Scalars => s.at + it.width <= t.at BY <2>2, <2>5, <2>6, <2>7
  <2> QED BY <1>1, <2>2, <2>5, <2>8 DEF it, s, t
<1> QED BY <1>2, <1>3

\* Before a part whose room the parser asks for.
LEMMA RoomIs ==
  ASSUME NEW j \in Jobs, Regular(j), ProgramOf(j) # <<>>, NEW k \in 1 .. Len(ProgramOf(j)),
         k > Layout(j)[k].without, ProgramOf(j)[k].kind = "if",
         Has(ProgramOf(j)[k].cond, j.info, j.value), Roomy(ProgramOf(j), k)
  PROVE  Layout(j)[k].at + ProgramOf(j)[k].cond.bytes <= j.len
<1> DEFINE p == ProgramOf(j)
           w == Layout(j)
           n == Len(p)
<1>1. /\ n \in Nat /\ w[k] \in Spot /\ \A m \in 1 .. n + 1 : w[m] \in Spot
      /\ \A a, b \in 1 .. n + 1 : a <= b => w[a].at <= w[b].at
      /\ k \in 1 .. n + 1
  <2>1. n \in Nat /\ \A m \in 1 .. n + 1 : w[m] \in Spot
        /\ \A a, b \in 1 .. n + 1 : a <= b => w[a].at <= w[b].at
    BY SpotsGrow
  <2> QED BY <2>1
<1>2. PICK z \in {k + 3, k + 4} :
        /\ z <= k + p[k].jump /\ {p[k + 1].kind, p[k + 2].kind, p[z].kind} \subseteq Scalars
        /\ p[k].cond.bytes \in Nat
        /\ p[k].cond.bytes <= p[k + 1].width + p[k + 2].width + p[z].width
        /\ \A i \in k + 1 .. z : p[i].kind # "if"
  BY DEF Roomy
<1>3. /\ k + p[k].jump <= n /\ p[k].jump \in Nat /\ w[n + 1].at <= j.len /\ j.len \in Nat
  BY ServerWrites, LenIs DEF Step
<1>4. w[k].at <= w[k + 1].at /\ w[k + 1].without = w[k].without BY <1>1, SpotAfter
<1>5. \A m \in 1 .. n : m > w[m].without /\ p[m].kind # "if" =>
         /\ w[m + 1].without = w[m].without
         /\ p[m].kind \in Scalars => p[m].width \in Nat /\ w[m].at + p[m].width <= w[m + 1].at
  <2> SUFFICES ASSUME NEW m \in 1 .. n, m > w[m].without, p[m].kind # "if"
               PROVE  /\ w[m + 1].without = w[m].without
                      /\ p[m].kind \in Scalars => p[m].width \in Nat /\ w[m].at + p[m].width <= w[m + 1].at
    OBVIOUS
  <2> QED BY StepOn
<1>6. k > w[k].without /\ w[k].without \in Nat /\ k \in Nat /\ \A m \in 1 .. n + 1 : w[m].at \in Nat
  BY <1>1 DEF Spot
<1> HIDE DEF p, w, n
<1>7. /\ k + 1 \in 1 .. n /\ k + 2 \in 1 .. n /\ k + 3 \in 1 .. n /\ z \in 1 .. n
      /\ z + 1 \in 1 .. n + 1
  BY SMTT(30), <1>1, <1>2, <1>3, <1>6
<1>8. /\ w[k + 2].without = w[k].without
      /\ p[k + 1].width \in Nat /\ w[k + 1].at + p[k + 1].width <= w[k + 2].at
  <2>1. k + 1 \in k + 1 .. z /\ (k + 1) + 1 = k + 2 /\ k + 1 > w[k + 1].without
    BY SMTT(30), <1>2, <1>4, <1>6
  <2> QED BY <1>2, <1>4, <1>5, <1>7, <2>1
<1>9. /\ w[k + 3].without = w[k].without
      /\ p[k + 2].width \in Nat /\ w[k + 2].at + p[k + 2].width <= w[k + 3].at
  <2>1. k + 2 \in k + 1 .. z /\ (k + 2) + 1 = k + 3 /\ k + 2 > w[k + 2].without
    BY SMTT(30), <1>2, <1>6, <1>8
  <2> QED BY <1>2, <1>5, <1>7, <1>8, <2>1
<1>10. w[z].without = w[k].without
  <2>1. CASE z = k + 3 BY <1>9, <2>1
  <2>2. CASE z = k + 4
    <3>1. k + 3 \in k + 1 .. z /\ (k + 3) + 1 = z /\ k + 3 > w[k + 3].without BY <1>6, <1>9, <2>2
    <3>2. w[(k + 3) + 1].without = w[k + 3].without BY <1>2, <1>5, <1>7, <3>1
    <3> QED BY <1>9, <3>1, <3>2
  <2> QED BY <1>2, <2>1, <2>2
<1>11. p[z].width \in Nat /\ w[z].at + p[z].width <= w[z + 1].at
  <2>1. z \in k + 1 .. z /\ z > w[z].without BY <1>2, <1>6, <1>10
  <2> QED BY <1>2, <1>5, <1>7, <2>1
<1>12. w[k + 3].at <= w[z].at /\ w[z + 1].at <= w[n + 1].at BY <1>1, <1>2, <1>6, <1>7
<1>13. /\ w[k].at \in Nat /\ w[k + 1].at \in Nat /\ w[k + 2].at \in Nat /\ w[k + 3].at \in Nat
       /\ w[z].at \in Nat /\ w[z + 1].at \in Nat /\ w[n + 1].at \in Nat
  <2>1. /\ k \in 1 .. n + 1 /\ k + 1 \in 1 .. n + 1 /\ k + 2 \in 1 .. n + 1 /\ k + 3 \in 1 .. n + 1
        /\ z \in 1 .. n + 1 /\ n + 1 \in 1 .. n + 1
    BY SMTT(30), <1>1, <1>7
  <2> QED BY <1>6, <1>7, <2>1
<1>14. p[k].cond.bytes \in Nat /\ p[k].cond.bytes <= p[k + 1].width + p[k + 2].width + p[z].width
  BY <1>2
<1> DEFINE a0 == w[k].at
           a1 == w[k + 1].at
           a2 == w[k + 2].at
           a3 == w[k + 3].at
           a4 == w[z].at
           a5 == w[z + 1].at
           w1 == p[k + 1].width
           w2 == p[k + 2].width
           w3 == p[z].width
<1>15. w1 + w2 + w3 + a0 <= j.len
  <2>1. /\ a0 \in Nat /\ a1 \in Nat /\ a0 <= a1 /\ a2 \in Nat /\ a3 \in Nat /\ a4 \in Nat /\ a5 \in Nat
        /\ j.len \in Nat
        /\ w1 \in Nat /\ w2 \in Nat /\ w3 \in Nat /\ a1 + w1 <= a2 /\ a2 + w2 <= a3 /\ a3 <= a4
        /\ a4 + w3 <= a5 /\ a5 <= j.len
    <3>1. a5 <= j.len
      <4>1. a5 <= w[n + 1].at /\ w[n + 1].at <= j.len BY <1>3, <1>12
      <4>2. a5 \in Nat /\ w[n + 1].at \in Nat /\ j.len \in Nat BY <1>3, <1>13
      <4> HIDE DEF a5
      <4> QED BY <4>1, <4>2
    <3> QED BY <1>3, <1>4, <1>8, <1>9, <1>11, <1>12, <1>13, <3>1
  <2> HIDE DEF a0, a1, a2, a3, a4, a5, w1, w2, w3
  <2> QED BY SMTT(30), <2>1
<1>16. a0 + p[k].cond.bytes <= j.len
  <2> DEFINE b == p[k].cond.bytes
  <2>1. /\ b \in Nat /\ b <= w1 + w2 + w3 /\ w1 + w2 + w3 + a0 <= j.len /\ a0 \in Nat
        /\ j.len \in Nat
        /\ w1 \in Nat /\ w2 \in Nat /\ w3 \in Nat
    BY <1>3, <1>8, <1>9, <1>11, <1>13, <1>14, <1>15
  <2> HIDE DEF a0, b, w1, w2, w3
  <2>2. a0 + b <= j.len BY <2>1
  <2> QED BY <2>2 DEF b
<1> QED BY <1>16 DEF p, w

\* The parser takes a part for there exactly if the server wrote it.
LEMMA HoldsIs ==
  ASSUME Server, NEW it \in NextItems, it.kind = "if"
  PROVE  Holds(it.cond) <=> Has(it.cond, job.info, job.value)
<1> DEFINE p == ProgramOf(job)
           n == Len(p)
           t == Marks(job)[item]
           u == Marks(job)[item + 1]
           s == Layout(job)[item]
<1>1. /\ job \in Jobs /\ Regular(job) /\ p # <<>> /\ Parser = p /\ item \in 1 .. n /\ n \in Nat
      /\ it = p[item] /\ s \in Spot /\ item > s.without
      /\ Step(it, Known(job)[item], Known(job)[item + 1])
      /\ Here(job, item, pos) /\ Fit(it, t, u) /\ t.mode # "never"
      /\ pos \in Nat /\ remaining \in Nat /\ pos + remaining = job.len
  <2>1. Past(it) = 0 /\ pos \in Nat BY ItemLaid
  <2>2. pos - 0 = pos BY <2>1
  <2> QED BY <2>1, <2>2, ItemLaid DEF Server
<1>2. FitPart(it, t, u) BY <1>1 DEF Fit, Scalars
<1>3. Jumps(p, item, t, Marks(job)[item + 1 + it.jump])
  <2>1. Fits(p, Marks(job)) BY <1>1, ServerWrites
  <2> QED BY <1>1, <2>1 DEF Fits
<1>4. CASE it.cond.on = "bits"
  <2>1. it.cond.field \in DOMAIN got
    <3>1. it.cond.field \in Known(job)[item] BY <1>1, <1>4 DEF Step
    <3> QED BY <3>1 DEF Server, Describing, Counted
  <2>2. got[it.cond.field] = job.value[it.cond.field] BY <2>1, GotIs
  <2> QED BY <1>4, <2>2 DEF Holds, Has
<1>5. CASE it.cond.on = "info" BY <1>5 DEF Holds, Has
<1>6. CASE it.cond.on = "room" /\ it.cond.bytes = Metadata
  <2>1. ~Has(it.cond, job.info, job.value) BY <1>6 DEF Has
  <2>2. t.mode = "struct" /\ t.o = t.w BY <1>2, <1>6 DEF FitPart
  <2>3. item + it.jump = n BY <1>1, <1>3, <1>6 DEF Jumps
  <2>4. Layout(job)[n + 1] = Layout(job)[item + 1]
    <3>1. \A m \in item + 1 .. (item + it.jump) + 1 : Layout(job)[m] = Layout(job)[item + 1]
      BY <1>1, <2>1, PartSkipped
    <3>2. n + 1 \in item + 1 .. n + 1 BY <1>1
    <3> QED BY <2>3, <3>1, <3>2
  <2>5. Layout(job)[item + 1].at = s.at /\ Layout(job)[n + 1].at = job.len
    <3>1. Layout(job)[n + 1].at = job.len BY <1>1, <1>6, LenIs
    <3>2. /\ Layout(job)[item + 1].at = s.at + Gap(job, item) /\ Gap(job, item) \in Nat
          /\ Gap(job, item) # 0 => Unsure(it.cond)
      BY <1>1, SpotAfter
    <3>3. ~Unsure(it.cond) /\ s.at \in Nat BY <1>1, <1>6 DEF Unsure, Spot
    <3> QED BY <3>1, <3>2, <3>3
  <2>6. s.at = pos BY <1>1, <2>2 DEF Here
  <2>7. remaining = 0 BY <1>1, <2>4, <2>5, <2>6
  <2> QED BY <1>6, <2>1, <2>7 DEF Holds, Metadata
<1>7. CASE it.cond.on = "room" /\ it.cond.bytes # Metadata
  <2>1. Has(it.cond, job.info, job.value) BY <1>7 DEF Has
  <2>2. Roomy(p, item) BY <1>1, <1>3, <1>7 DEF Jumps
  <2>3. s.at + it.cond.bytes <= job.len BY <1>1, <2>1, <2>2, RoomIs
  <2>4. s.at = pos
    <3>1. t.mode = "packed" \/ (t.mode = "struct" /\ t.o = t.w) BY <1>2, <1>7 DEF FitPart
    <3> QED BY <1>1, <3>1 DEF Here
  <2>5. it.cond.bytes \in Nat BY <1>1, <2>2 DEF Roomy
  <2>6. remaining >= it.cond.bytes BY <1>1, <2>3, <2>4, <2>5
  <2> QED BY <1>7, <2>1, <2>6 DEF Holds
<1> QED BY <1>2, <1>4, <1>5, <1>6, <1>7 DEF FitPart

LEMMA LayBranch == ASSUME Server, NEW it \in NextItems, Branch(it) PROVE Laying'
<1> DEFINE p == ProgramOf(job)
           n == Len(p)
           t == Marks(job)[item]
           s == Layout(job)[item]
           Later == Written(p, Layout(job))
<1>1. /\ it.kind = "if" /\ item' = (IF Holds(it.cond) THEN item + 1 ELSE item + 1 + it.jump)
      /\ job' = job /\ elem' = elem /\ got' = got /\ pos' = pos
  BY DEF Branch
<1>2. /\ job \in Jobs /\ Regular(job) /\ p # <<>> /\ Parser = p /\ item \in 1 .. n /\ n \in Nat
      /\ it = p[item] /\ s \in Spot /\ item > s.without /\ elem = 0
      /\ Here(job, item, pos) /\ Fit(it, t, Marks(job)[item + 1]) /\ t.mode # "never"
      /\ pos \in Nat /\ it.jump \in Nat
  <2>1. Past(it) = 0 /\ pos \in Nat /\ elem = 0 BY <1>1, ItemLaid
  <2>2. pos - 0 = pos BY <2>1
  <2> QED BY <1>1, <2>1, <2>2, ItemLaid DEF Server, Step
<1>3. /\ Layout(job)[item + 1].at = s.at + Gap(job, item) /\ Gap(job, item) \in Nat
      /\ Gap(job, item) # 0 => Unsure(it.cond)
      /\ Layout(job)[item + 1].packed = (s.packed \/ it.cond.on = "bits")
      /\ Layout(job)[item + 1].without = IF Has(it.cond, job.info, job.value) THEN s.without
                                         ELSE item + it.jump
  BY <1>1, <1>2, SpotAfter
<1>4. FitPart(it, t, Marks(job)[item + 1]) BY <1>1, <1>2 DEF Fit, Scalars
<1>5. Jumps(p, item, t, Marks(job)[item + 1 + it.jump])
  <2>1. Fits(p, Marks(job)) BY <1>2, ServerWrites
  <2> QED BY <1>1, <1>2, <2>1 DEF Fits
<1>6. /\ t.mode = "struct" => ~s.packed /\ s.at = t.w /\ pos = t.o
      /\ t.mode = "packed" => s.packed /\ pos = s.at
      /\ t.mode = "tail" => s.packed /\ (GapsLast(job) => pos = s.at \/ \A m \in Later : m < item)
  BY <1>2 DEF Here
<1>7. \A m \in Later : m \in Nat BY DEF Written
<1>10. /\ s.at \in Nat /\ (GapsLast(job) /\ Gap(job, item) # 0 => \A m \in Later : m < item)
       /\ it.cond.on # "bits" => Gap(job, item) = 0
  BY <1>1, <1>2, <1>3 DEF GapsLast, Spot, Unsure
<1>8. CASE Holds(it.cond)
  <2> DEFINE u == Marks(job)[item + 1]
             r == Layout(job)[item + 1]
  <2>1. Has(it.cond, job.info, job.value) BY <1>1, <1>8, HoldsIs
  <2>2. r.without = s.without /\ item + 1 > r.without BY <1>2, <1>3, <2>1 DEF Spot
  <2>3. CASE it.cond.on = "bits"
    <3>1. /\ Packs(t, u) /\ r.packed /\ r.at = s.at + Gap(job, item)
          /\ Gap(job, item) # 0 => u.mode \in {"tail", "end"}
      BY <1>3, <1>4, <2>3 DEF FitPart, PastBits
    <3>2. ASSUME GapsLast(job), u.mode = "tail"
          PROVE  pos = r.at \/ \A m \in Later : m < item + 1
      <4>1. CASE \A m \in Later : m < item BY <1>2, <1>7, <4>1
      <4>2. CASE pos = s.at /\ Gap(job, item) = 0 BY <1>10, <3>1, <4>2
      <4>3. pos = s.at \/ \A m \in Later : m < item BY <1>6, <3>1, <3>2 DEF Packs
      <4> QED BY <1>10, <3>2, <4>1, <4>2, <4>3
    <3>3. u.mode = "packed" => pos = r.at BY <1>6, <1>10, <3>1 DEF Packs
    <3>4. Here(job, item + 1, pos) BY <2>2, <3>1, <3>2, <3>3 DEF Here, Packs
    <3> QED BY <1>1, <1>2, <1>8, <3>4, LayNext, GotIs
  <2>4. CASE it.cond.on # "bits"
    <3>1. u = t /\ (t.mode = "packed" \/ (t.mode = "struct" /\ t.o = t.w))
      BY <1>4, <2>1, <2>4 DEF FitPart, Has
    <3>2. r.packed = s.packed /\ r.at = s.at BY <1>2, <1>3, <1>10, <2>4 DEF Spot
    <3>3. Here(job, item + 1, pos) BY <1>6, <2>2, <3>1, <3>2 DEF Here
    <3> QED BY <1>1, <1>2, <1>8, <3>3, LayNext, GotIs
  <2> QED BY <2>3, <2>4
<1>9. CASE ~Holds(it.cond)
  <2> DEFINE e == item + it.jump
             u == Marks(job)[e + 1]
             r == Layout(job)[e + 1]
  <2>1. ~Has(it.cond, job.info, job.value) BY <1>1, <1>9, HoldsIs
  <2>2. r = Layout(job)[item + 1] /\ e + 1 = item + 1 + it.jump /\ e \in Nat /\ item <= e
    <3>1. \A m \in item + 1 .. e + 1 : Layout(job)[m] = Layout(job)[item + 1]
      BY <1>1, <1>2, <2>1, PartSkipped
    <3>2. e + 1 \in item + 1 .. e + 1 /\ e + 1 = item + 1 + it.jump /\ e \in Nat /\ item <= e
      BY <1>2
    <3> QED BY <3>1, <3>2
  <2>3. e + 1 > r.without /\ r.at = s.at + Gap(job, item) BY <1>3, <2>1, <2>2
  <2>4. CASE it.cond.on = "bits"
    <3>1. /\ Packs(t, u) /\ r.packed
          /\ Gap(job, item) # 0 => u.mode \in {"tail", "end"}
      BY <1>3, <1>5, <1>2, <2>2, <2>4 DEF Jumps, PastBits
    <3>2. ASSUME GapsLast(job), u.mode = "tail"
          PROVE  pos = r.at \/ \A m \in Later : m < e + 1
      <4>1. CASE \A m \in Later : m < item BY <1>2, <1>7, <2>2, <4>1
      <4>2. CASE pos = s.at /\ Gap(job, item) = 0 BY <1>10, <2>3, <4>2
      <4>3. pos = s.at \/ \A m \in Later : m < item BY <1>6, <3>1, <3>2 DEF Packs
      <4> QED BY <1>10, <3>2, <4>1, <4>2, <4>3
    <3>3. u.mode = "packed" => pos = r.at BY <1>6, <1>10, <2>3, <3>1 DEF Packs
    <3>4. Here(job, e + 1, pos) BY <2>3, <3>1, <3>2, <3>3 DEF Here, Packs
    <3> QED BY <1>1, <1>2, <1>9, <2>2, <3>4, LayNext, GotIs
  <2>5. CASE it.cond.on # "bits"
    <3>1. u.mode = "end" BY <1>2, <1>4, <1>5, <2>1, <2>2, <2>5 DEF Jumps, FitPart, Has
    <3>2. Here(job, e + 1, pos) BY <2>3, <3>1 DEF Here
    <3> QED BY <1>1, <1>2, <1>9, <2>2, <3>2, LayNext, GotIs
  <2> QED BY <2>4, <2>5
<1> QED BY <1>8, <1>9

LEMMA SumIs ==
  ASSUME Server, NEW it \in NextItems, it.kind = "array"
  PROVE  CountOf(it, got) = CountOf(it, job.value)
<1>1. \/ \E c \in Known(job)[item] : it.of = {c}
      \/ it.of = {"xcnt", "subxcnt"} /\ {"xcnt", "subxcnt"} \subseteq Known(job)[item]
  BY ItemLaid DEF Step
<1>2. \A n \in Known(job)[item] : got[n] = job.value[n]
  <2>1. Known(job)[item] \subseteq DOMAIN got BY DEF Server, Describing, Counted
  <2> QED BY <2>1, GotIs
<1>3. CASE \E c \in Known(job)[item] : it.of = {c}
  <2>1. PICK c \in Known(job)[item] : it.of = {c} BY <1>3
  <2>2. Cardinality(it.of) = 1 BY <2>1, FS_Singleton
  <2>3. (CHOOSE x \in it.of : TRUE) = c BY <2>1
  <2> QED BY SMTT(30), <1>2, <2>1, <2>2, <2>3 DEF CountOf
<1>4. CASE it.of = {"xcnt", "subxcnt"} /\ {"xcnt", "subxcnt"} \subseteq Known(job)[item]
  <2>1. Cardinality(it.of) # 1
    <3>1. IsFiniteSet({"xcnt"}) /\ Cardinality({"xcnt"}) = 1 BY FS_Singleton
    <3>2. Cardinality({"xcnt"} \cup {"subxcnt"}) = 2 BY <3>1, FS_AddElement
    <3>3. it.of = {"xcnt"} \cup {"subxcnt"} BY <1>4
    <3> QED BY <3>2, <3>3
  <2>2. got["xcnt"] = job.value["xcnt"] /\ got["subxcnt"] = job.value["subxcnt"] BY <1>2, <1>4
  <2> QED BY <2>1, <2>2 DEF CountOf
<1> QED BY <1>1, <1>3, <1>4

LEMMA Multiples == \A a, b, n \in Nat : a <= b => a * n <= b * n /\ a * n \in Nat
OBVIOUS
LEMMA OneMore == \A a, n \in Nat : (a + 1) * n = a * n + n
OBVIOUS

\* The reader stands at the next element of an array.
LEMMA ArrayHere ==
  ASSUME Server, NEW it \in NextItems, it.kind = "array"
  PROVE  LET tally == CountOf(it, job.value)
             o == Offset(it, Layout(job)[item])
         IN  /\ Total(it) = tally /\ tally \in Nat /\ tally < Usize /\ tally < I32 \div 2
             /\ Elements(it, job.value) = tally
             /\ Shown(it) = Least(tally, it.cap)
             /\ it.width \in {1, 2, 4, 8} /\ it.numbers \in Nat \ {0} /\ it.cap \in Nat
             /\ Stride(it) = it.width * it.numbers /\ Stride(it) \in Nat \ {0}
             /\ elem <= Shown(it) /\ elem \in Nat
             /\ pos = o + elem * Stride(it) /\ o \in Nat
             /\ o + tally * Stride(it) <= job.len
             /\ Layout(job)[item + 1].at = o + tally * Stride(it)
             /\ Marks(job)[item].mode \in {"struct", "packed"}
<1> DEFINE tally == CountOf(it, job.value)
           t == Marks(job)[item]
           s == Layout(job)[item]
           o == Offset(it, s)
           st == Stride(it)
<1>1. /\ Fit(it, t, Marks(job)[item + 1]) /\ t.mode # "never" /\ Form(it) /\ s \in Spot
      /\ Here(job, item, pos - Past(it)) /\ pos \in Nat /\ job.len \in Nat
      /\ Layout(job)[item + 1].at <= job.len /\ it = Parser[item]
      /\ it.numbers \in Nat \ {0} /\ it.cap \in Nat
  BY ItemLaid DEF Step
<1>2. /\ Layout(job)[item + 1].at = o + Bytes(it, job.value) /\ o \in Nat
      /\ tally \in 0 .. (I32 \div 2 - 1)
  BY ItemWritten
<1>3. it.width \in {1, 2, 4, 8} BY <1>1 DEF Form, Scalars
<1>4. FitArray(it, t, Marks(job)[item + 1]) BY <1>1 DEF Fit, Scalars
<1>5. /\ Elements(it, job.value) = tally /\ Bytes(it, job.value) = st * tally
      /\ st = it.width * it.numbers
  BY DEF Elements, Bytes, Stride
<1>6. elem \in Nat /\ (elem > 0 => elem <= Shown(it)) BY <1>1 DEF Server, Describing, Laying
<1>7. I32 \in Nat \ {0} /\ Usize \in Nat \ {0} /\ I32 \div 2 \in Nat /\ 2 * (I32 \div 2) <= I32
  BY DescribeAssumption
<1>8. job.len \in 0 .. (Usize - 1) BY ServerWrites, ItemLaid DEF Server
<1> HIDE DEF tally, t, s, o, st
<1>9. tally \in Nat /\ tally < I32 \div 2 BY <1>2, <1>7
<1>10. st \in Nat \ {0} /\ tally * st \in Nat /\ st * tally = tally * st /\ tally <= tally * st
  <2>1. st \in Nat \ {0}
    <3>1. \A a \in {1, 2, 4, 8}, b \in Nat \ {0} : a * b \in Nat \ {0} OBVIOUS
    <3> QED BY <1>1, <1>3, <1>5, <3>1
  <2>2. \A a \in Nat, b \in Nat \ {0} : a * b \in Nat /\ b * a = a * b /\ a <= a * b OBVIOUS
  <2> QED BY <1>9, <2>1, <2>2
<1>11. Layout(job)[item + 1].at = o + tally * st /\ o + tally * st <= job.len
  BY <1>1, <1>2, <1>5, <1>10
<1>12. tally < Usize BY <1>2, <1>7, <1>8, <1>9, <1>10, <1>11
<1>13. Total(it) = tally
  <2>1. Total(it) = Signed(tally) BY SumIs DEF Total, tally
  <2> DEFINE h == I32 \div 2
  <2>2. \A a, b \in Nat : a < b => a % b = a OBVIOUS
  <2>3. tally + h \in Nat /\ tally + h < I32 /\ h \in Nat BY <1>7, <1>9
  <2> HIDE DEF h
  <2>4. (tally + h) % I32 = tally + h BY <1>7, <2>2, <2>3
  <2>5. (tally + h) - h = tally BY <1>9, <2>3
  <2> QED BY <2>1, <2>4, <2>5 DEF Signed, h
<1>14. Shown(it) = Least(tally, it.cap) /\ Shown(it) \in Nat
  BY <1>1, <1>9, <1>13 DEF Shown, AtLeast0, Least
<1>15. elem <= Shown(it) BY <1>6, <1>14
<1>16. Past(it) = elem * st
  <2>1. 0 * st = 0 BY <1>10
  <2> QED BY <2>1 DEF Past, st
<1>17. pos - Past(it) = o
  <2>1. o = IF s.packed THEN s.at ELSE Aligned(s.at, it.width) BY DEF Offset, ByteKinds, o
  <2>2. CASE t.mode = "struct"
    <3>1. ~s.packed /\ s.at = t.w /\ pos - Past(it) = t.o /\ t.o = Aligned(t.w, it.width)
      BY <1>1, <1>4, <2>2 DEF Here, FitArray, s, t
    <3> QED BY <2>1, <3>1
  <2>3. CASE t.mode = "packed"
    <3>1. s.packed /\ pos - Past(it) = s.at BY <1>1, <2>3 DEF Here, s, t
    <3> QED BY <2>1, <3>1
  <2> QED BY <1>4, <2>2, <2>3 DEF FitArray
<1>18. pos = o + elem * st
  <2>1. elem * st \in Nat BY <1>6, <1>10, Products
  <2> QED BY <1>1, <1>2, <1>16, <1>17, <2>1
<1>19. t.mode \in {"struct", "packed"} BY <1>4 DEF FitArray
<1> QED BY <1>1, <1>2, <1>3, <1>5, <1>6, <1>9, <1>10, <1>11, <1>12, <1>13, <1>14, <1>15, <1>18,
    <1>19
        DEF tally, t, s, o, st

\* All of the element is there.
LEMMA ElementThere ==
  ASSUME Server, NEW it \in NextItems, it.kind = "array", elem < Shown(it)
  PROVE  /\ Reads(it.width * it.numbers)
         /\ it.width * Least(it.numbers, remaining \div it.width) = Stride(it)
         /\ elem < CountOf(it, job.value)
<1> DEFINE tally == CountOf(it, job.value)
           o == Offset(it, Layout(job)[item])
           st == Stride(it)
           w == it.width
           m == it.numbers
<1>1. /\ tally \in Nat /\ Shown(it) = Least(tally, it.cap) /\ it.cap \in Nat
      /\ w \in {1, 2, 4, 8} /\ m \in Nat \ {0} /\ st = w * m /\ st \in Nat \ {0}
      /\ elem \in Nat /\ pos = o + elem * st /\ o \in Nat /\ o + tally * st <= job.len
  BY ArrayHere
<1>2. /\ remaining \in Nat /\ pos + remaining = job.len /\ pos \in Nat /\ job.len \in Nat
  BY ItemLaid
<1> HIDE DEF tally, o, st, w, m
<1>3. elem < tally BY <1>1 DEF Least
<1>4. elem * st + st <= tally * st /\ elem * st \in Nat /\ tally * st \in Nat
  <2>1. elem + 1 \in Nat /\ elem + 1 <= tally BY <1>1, <1>3
  <2>2. (elem + 1) * st <= tally * st /\ (elem + 1) * st = elem * st + st
    BY <1>1, <2>1, Multiples, OneMore
  <2> QED BY <1>1, <2>2, Products
<1>5. st <= remaining BY <1>1, <1>2, <1>4
<1>6. m <= remaining \div w
  <2> DEFINE r == remaining
  <2>1. r \in Nat /\ w * m <= r BY <1>1, <1>2, <1>5
  <2> HIDE DEF r
  <2>2. CASE w = 1 BY <1>1, <2>1, <2>2 DEF r
  <2>3. CASE w = 2 BY <1>1, <2>1, <2>3 DEF r
  <2>4. CASE w = 4 BY <1>1, <2>1, <2>4 DEF r
  <2>5. CASE w = 8 BY <1>1, <2>1, <2>5 DEF r
  <2> QED BY <1>1, <2>2, <2>3, <2>4, <2>5
<1>7. Least(m, remaining \div w) = m
  <2>1. remaining \div w \in Int BY <1>1, <1>2
  <2> QED BY <1>1, <1>6, <2>1 DEF Least
<1> QED BY <1>1, <1>3, <1>5, <1>7 DEF Reads, tally, o, st, w, m

LEMMA LayElement == ASSUME Server, NEW it \in NextItems, ReadElement(it) PROVE Laying'
<1> DEFINE st == Stride(it)
           o == Offset(it, Layout(job)[item])
<1>1. /\ it.kind = "array" /\ elem < Shown(it) /\ elem' = elem + 1
      /\ pos' = pos + it.width * Least(it.numbers, remaining \div it.width)
      /\ job' = job /\ item' = item /\ got' = got
  BY DEF ReadElement
<1>2. pos' = pos + st BY <1>1, ElementThere
<1>3. /\ elem \in Nat /\ pos = o + elem * st /\ o \in Nat /\ st \in Nat \ {0} /\ Shown(it) \in Nat
  BY <1>1, ArrayHere DEF Least
<1>4. Here(job, item, pos - Past(it)) /\ Past(it) = elem * st /\ it = Parser[item]
      /\ item <= Len(Parser)
  <2>1. 0 * st = 0 BY <1>3
  <2> QED BY <2>1, ItemLaid DEF Past
<1>5. Parser' = Parser /\ Shown(it)' = Shown(it) /\ Stride(it)' = Stride(it)
  BY <1>1 DEF Parser, Shown, Total
<1>6. Past(it)' = (elem + 1) * st /\ (elem + 1) * st = elem * st + st /\ elem * st \in Nat
  <2>1. elem' # 0 /\ elem' = elem + 1 BY <1>1, <1>3
  <2> QED BY <1>3, <2>1, Products, OneMore DEF Past
<1> HIDE DEF st, o
<1>7. pos' - Past(it)' = pos - Past(it) BY <1>2, <1>3, <1>4, <1>6
<1>8. Here(job, item, pos - Past(it))' BY <1>1, <1>4, <1>7 DEF Here
<1>9. elem' <= Shown(it) BY <1>1, <1>3
<1> QED BY <1>1, <1>4, <1>5, <1>8, <1>9, GotIs DEF Laying

LEMMA Casts ==
  /\ \A n \in Nat : n < I32 \div 2 => Signed(n) = n
  /\ \A n \in Nat : n < Usize => Unsigned(n) = n
<1>1. I32 \in Nat \ {0} /\ Usize \in Nat \ {0} /\ I32 \div 2 \in Nat /\ 2 * (I32 \div 2) <= I32
  BY DescribeAssumption
<1>2. \A a, b \in Nat : a < b => a % b = a OBVIOUS
<1>3. ASSUME NEW n \in Nat, n < I32 \div 2 PROVE Signed(n) = n
  <2> DEFINE h == I32 \div 2
  <2>1. n + h \in Nat /\ n + h < I32 /\ h \in Nat BY <1>1, <1>3
  <2> HIDE DEF h
  <2>2. (n + h) % I32 = n + h BY <1>1, <1>2, <2>1
  <2>3. (n + h) - h = n BY <2>1
  <2> QED BY <2>2, <2>3 DEF Signed, h
<1>4. ASSUME NEW n \in Nat, n < Usize PROVE Unsigned(n) = n BY <1>1, <1>2, <1>4 DEF Unsigned
<1> QED BY <1>3, <1>4

\* What is left out of an array whose rest is announced.
LEMMA LeftIs ==
  ASSUME Server, NEW it \in NextItems, it.kind = "array"
  PROVE  LET tally == CountOf(it, job.value)
         IN  Left(it) = IF it.note \in {"clamped", "cast"} /\ tally > it.cap THEN tally - it.cap
                        ELSE 0
<1> DEFINE tally == CountOf(it, job.value)
<1>1. Total(it) = tally /\ tally \in Nat /\ tally < Usize /\ tally < I32 \div 2 /\ it.cap \in Nat
  BY ArrayHere
<1> HIDE DEF tally
<1>2. Unsigned(tally) = tally BY <1>1, Casts
<1>3. tally > it.cap => Signed(tally - it.cap) = tally - it.cap
  <2> SUFFICES ASSUME tally > it.cap PROVE Signed(tally - it.cap) = tally - it.cap OBVIOUS
  <2>1. tally - it.cap \in Nat /\ tally - it.cap < I32 \div 2
    <3>1. I32 \div 2 \in Int BY DescribeAssumption
    <3> QED BY <1>1, <3>1
  <2> QED BY <2>1, Casts
<1>4. AtLeast0(tally - it.cap) = IF tally > it.cap THEN tally - it.cap ELSE 0 BY <1>1 DEF AtLeast0
<1>5. CASE it.note = "clamped" BY <1>1, <1>4, <1>5 DEF Left, tally
<1>6. CASE it.note = "cast" BY <1>1, <1>2, <1>3, <1>6 DEF Left, tally
<1>7. CASE it.note = "none" BY <1>7 DEF Left
<1>8. it.note \in {"none", "clamped", "cast"} BY ItemLaid DEF Form
<1> QED BY <1>5, <1>6, <1>7, <1>8 DEF tally

LEMMA LayEnd == ASSUME Server, NEW it \in NextItems, EndArray(it) PROVE Laying'
<1> DEFINE st == Stride(it)
           s == Layout(job)[item]
           r == Layout(job)[item + 1]
           u == Marks(job)[item + 1]
           t == Marks(job)[item]
           o == Offset(it, s)
           tally == CountOf(it, job.value)
<1>1. /\ it.kind = "array" /\ elem >= Shown(it) /\ elem' = 0
      /\ pos' = IF it.over /\ Left(it) # 0
                THEN skip_to((Unsigned(Total(it)) - it.cap) * it.width * it.numbers) ELSE pos
      /\ job' = job /\ item' = item + 1 /\ got' = got
  BY DEF EndArray
<1>2. /\ elem = Shown(it) /\ pos = o + elem * st /\ o \in Nat /\ tally \in Nat /\ tally < Usize
      /\ Total(it) = tally /\ elem \in Nat
      /\ Shown(it) = Least(tally, it.cap) /\ it.width \in {1, 2, 4, 8} /\ it.numbers \in Nat \ {0}
      /\ it.cap \in Nat /\ st = it.width * it.numbers /\ st \in Nat \ {0}
      /\ o + tally * st <= job.len /\ r.at = o + tally * st /\ t.mode \in {"struct", "packed"}
  <2>1. /\ elem <= Shown(it) /\ elem \in Nat /\ Shown(it) = Least(tally, it.cap)
        /\ tally \in Nat /\ it.cap \in Nat
    BY <1>1, ArrayHere
  <2>2. elem = Shown(it) BY <1>1, <2>1 DEF Least
  <2> QED BY <1>1, <2>2, ArrayHere
<1>3. /\ r.packed = s.packed /\ item + 1 > r.without /\ Fit(it, t, u) /\ job.len \in Nat
      /\ pos \in Nat /\ job.len < Usize
  <2>1. /\ r.packed = s.packed /\ r.without = s.without BY <1>1, ItemWritten
  <2>2. /\ s \in Spot /\ item > s.without /\ Fit(it, t, u) /\ job.len \in Nat /\ pos \in Nat
        /\ item \in Nat
    BY ItemLaid
  <2>3. job.len \in 0 .. (Usize - 1) BY ServerWrites, ItemLaid DEF Server
  <2>4. Usize \in Nat BY DescribeAssumption
  <2> HIDE DEF s, r, t, u
  <2> QED BY <2>1, <2>2, <2>3, <2>4 DEF Spot
<1>4. FitArray(it, t, u) BY <1>1, <1>2, <1>3 DEF Fit, Scalars
<1>5. pos' \in Nat
  <2>1. Describing' BY <1>1, ArrayEnded DEF Server
  <2>2. pos' \in 0 .. job.len BY <1>1, <2>1 DEF Describing
  <2> QED BY <1>3, <2>2
<1>6. s.packed \/ t.mode = "struct"
  <2>1. Here(job, item, pos - Past(it)) BY ItemLaid
  <2> QED BY <1>2, <2>1 DEF Here
<1> HIDE DEF st, s, r, u, t, o, tally
<1>7. CASE t.mode = "struct"
  <2>1. u.mode = "end" BY <1>4, <1>7 DEF FitArray
  <2>2. Here(job, item + 1, pos') BY <1>3, <2>1 DEF Here, u, r
  <2> QED BY <1>1, <1>5, <2>2, LayNext, GotIs
<1>8. CASE t.mode = "packed"
  <2>1. it.over /\ it.note = "cast" /\ Packs(t, u) BY <1>4, <1>8 DEF FitArray
  <2>2. Left(it) = IF tally > it.cap THEN tally - it.cap ELSE 0 BY <1>1, <2>1, LeftIs DEF tally
  <2>3. pos' = o + tally * st
    <3>1. CASE tally > it.cap
      <4>1. elem = it.cap /\ tally - it.cap \in Nat /\ Left(it) # 0 BY <1>2, <2>2, <3>1 DEF Least
      <4>2. Unsigned(Total(it)) = tally BY <1>2, Casts
      <4>3. (tally - it.cap) * it.width * it.numbers = (tally - it.cap) * st
        <5>1. \A a, b, c \in Nat : a * b * c = a * (b * c) OBVIOUS
        <5>2. it.width \in Nat /\ it.numbers \in Nat BY <1>2
        <5> QED BY <1>2, <4>1, <5>1, <5>2
      <4>4. (tally - it.cap) * st + it.cap * st = tally * st
        <5>1. \A a, b, c \in Nat : a * c + b * c = (a + b) * c OBVIOUS
        <5>2. (tally - it.cap) + it.cap = tally BY <1>2
        <5> QED BY <1>2, <4>1, <5>1, <5>2
      <4>5. pos' = skip_to((tally - it.cap) * st) BY <1>1, <2>1, <4>1, <4>2, <4>3
      <4> DEFINE a == (tally - it.cap) * st
                 b == it.cap * st
      <4>6. a \in Nat /\ b \in Nat BY <1>2, <4>1, Products
      <4>7. pos = o + b BY <1>2, <4>1
      <4>8. a + b = tally * st BY <4>4
      <4>9. pos' = skip_to(a) BY <4>5
      <4> HIDE DEF a, b
      <4>10. pos + a = o + tally * st /\ pos + a \in Nat
        <5> DEFINE c == tally * st
        <5>1. a + b = c /\ o \in Nat /\ c \in Nat BY <1>2, <4>6, <4>8
        <5> HIDE DEF c
        <5>2. pos + a = o + c /\ pos + a \in Nat BY <4>6, <4>7, <5>1
        <5> QED BY <5>2 DEF c
      <4>11. pos + a <= job.len /\ pos + a < Usize
        <5>1. Usize \in Nat BY DescribeAssumption
        <5> QED BY <1>2, <1>3, <4>10, <5>1
      <4>12. Unsigned(pos + a) = pos + a BY <4>10, <4>11, Casts
      <4> QED BY <1>3, <4>9, <4>10, <4>11, <4>12 DEF skip_to, Least
    <3>2. CASE ~(tally > it.cap)
      <4>1. elem = tally /\ Left(it) = 0
        <5>1. elem = Least(tally, it.cap) BY <1>2
        <5>2. tally \in Nat /\ it.cap \in Nat BY <1>2
        <5>3. Least(tally, it.cap) = tally BY <3>2, <5>2 DEF Least
        <5> QED BY <2>2, <3>2, <5>1, <5>3
      <4> QED BY <1>1, <1>2, <4>1
    <3> QED BY <3>1, <3>2
  <2>4. Here(job, item + 1, pos')
    <3>1. r.packed /\ r.at = pos' BY <1>2, <1>3, <1>6, <1>8, <2>3
    <3>2. u.mode \in {"packed", "tail", "end"} BY <1>8, <2>1 DEF Packs
    <3> QED BY <1>3, <3>1, <3>2 DEF Here, u, r
  <2> QED BY <1>1, <1>5, <2>4, LayNext, GotIs
<1> QED BY <1>2, <1>7, <1>8

LEMMA LayStays == ASSUME Laying, UNCHANGED <<job, item, elem, pos, got>> PROVE Laying'
<1>1. Parser' = Parser BY DEF Parser
<1> QED BY <1>1 DEF Laying, Here, Past, Shown, Total

\* Anywhere at the end.
LEMMA LayEnds ==
  ASSUME Server, NEW it \in NextItems, it.kind \notin {"if", "skip", "array"}, job' = job, elem' = elem,
         got' = got, item' = item + 1, pos' \in Nat, Marks(job)[item + 1].mode = "end"
  PROVE  Laying'
<1>1. elem = 0 /\ item > Layout(job)[item].without /\ item \in Nat /\ Layout(job)[item] \in Spot
  BY ItemLaid
<1>2. Layout(job)[item + 1].without = Layout(job)[item].without BY ItemWritten
<1>3. item + 1 > Layout(job)[item + 1].without BY <1>1, <1>2 DEF Spot
<1>4. Here(job, item + 1, pos') BY <1>3 DEF Here
<1> QED BY <1>1, <1>4, LayNext, GotIs

LEMMA LaySized == ASSUME Server, NEW it \in NextItems, ShowSized(it) PROVE Laying'
<1>1. /\ it.kind = "sized" /\ item' = item + 1 /\ job' = job /\ elem' = elem /\ got' = got
      /\ pos' = pos
  BY DEF ShowSized
<1>2. /\ Fit(it, Marks(job)[item], Marks(job)[item + 1]) /\ Marks(job)[item].mode # "never"
      /\ pos \in Nat
  BY ItemLaid
<1>3. Marks(job)[item + 1].mode = "end" BY <1>1, <1>2 DEF Fit, Ends, Scalars
<1> QED BY <1>1, <1>2, <1>3, LayEnds

LEMMA LayRest == ASSUME Server, NEW it \in NextItems, ShowRest(it) PROVE Laying'
<1>1. /\ it.kind = "rest" /\ item' = item + 1 /\ job' = job /\ elem' = elem /\ got' = got
      /\ pos' = pos
  BY DEF ShowRest
<1>2. /\ Fit(it, Marks(job)[item], Marks(job)[item + 1]) /\ Marks(job)[item].mode # "never"
      /\ pos \in Nat
  BY ItemLaid
<1>3. Marks(job)[item + 1].mode = "end" BY <1>1, <1>2 DEF Fit, Scalars
<1> QED BY <1>1, <1>2, <1>3, LayEnds

LEMMA LayName == ASSUME Server, NEW it \in NextItems, ShowName(it) PROVE Laying'
<1>1. /\ it.kind = "name" /\ job' = job /\ elem' = elem /\ got' = got /\ pos' = pos
      /\ item' = item + 1 \/ item' = item
  BY DEF ShowName
<1>2. /\ Fit(it, Marks(job)[item], Marks(job)[item + 1]) /\ Marks(job)[item].mode # "never"
      /\ pos \in Nat
  BY ItemLaid
<1>3. Marks(job)[item + 1].mode = "end" BY <1>1, <1>2 DEF Fit, Ends, Scalars
<1>4. CASE item' = item + 1 BY <1>1, <1>2, <1>3, <1>4, LayEnds
<1>5. CASE item' = item BY <1>1, <1>5, LayStays DEF Server
<1> QED BY <1>1, <1>4, <1>5

\* The reader stands where the bytes are.
LEMMA BytesHere ==
  ASSUME Server, NEW it \in NextItems, it.kind \in {"indexed", "cstr", "name", "sized"},
         Marks(job)[item].mode # "tail" \/ GapsLast(job)
  PROVE  /\ pos = Offset(it, Layout(job)[item])
         /\ it.kind # "sized" => <<it.name, 0>> \in DOMAIN job.place /\ job.place[<<it.name, 0>>] = pos
<1> DEFINE t == Marks(job)[item]
           s == Layout(job)[item]
<1>1. /\ Fit(it, t, Marks(job)[item + 1]) /\ t.mode # "never" /\ Here(job, item, pos - Past(it))
      /\ Past(it) = 0 /\ pos \in Nat /\ item \in Nat
  BY ItemLaid
<1>2. pos - 0 = pos BY <1>1
<1>3. \/ t.mode = "struct" /\ t.o = t.w
      \/ t.mode = "packed"
      \/ t.mode = "tail"
  BY <1>1 DEF Fit, Packs, Ends, Scalars
<1>4. pos = s.at
  <2>1. item \in Written(ProgramOf(job), Layout(job)) BY ItemWritten
  <2>2. CASE t.mode = "tail"
    <3>1. pos = s.at \/ item < item BY <1>1, <1>2, <2>1, <2>2 DEF Here
    <3> QED BY <1>1, <3>1
  <2>3. CASE t.mode # "tail" BY <1>1, <1>2, <1>3, <2>3 DEF Here
  <2> QED BY <2>2, <2>3
<1>5. pos = Offset(it, s) BY <1>4 DEF Offset, ByteKinds
<1>6. ASSUME it.kind # "sized" PROVE <<it.name, 0>> \in DOMAIN job.place /\ job.place[<<it.name, 0>>] = pos
  <2>1. /\ \A i \in 0 .. (Elements(it, job.value) - 1) :
             /\ <<it.name, i>> \in DOMAIN job.place
             /\ job.place[<<it.name, i>>] = Offset(it, s) + i * Stride(it)
        /\ Offset(it, s) \in Nat
    BY ItemWritten
  <2>2. Elements(it, job.value) = 1 /\ Stride(it) = it.width BY <1>6 DEF Elements, Stride
  <2>3. it.width \in Nat BY ItemLaid DEF Step
  <2>4. 0 \in 0 .. (Elements(it, job.value) - 1) BY <2>2
  <2>5. Offset(it, s) + 0 * it.width = Offset(it, s) BY <2>1, <2>3
  <2> QED BY <1>5, <2>1, <2>2, <2>4, <2>5
<1> QED BY <1>5, <1>6

LEMMA LayIndexed == ASSUME Server, NEW it \in NextItems, ReadIndexed(it) PROVE Laying'
<1> DEFINE t == Marks(job)[item]
           u == Marks(job)[item + 1]
           s == Layout(job)[item]
           r == Layout(job)[item + 1]
<1>1. /\ it.kind = "indexed" /\ job' = job /\ elem' = elem /\ got' = got
      /\ \/ item' = item + 1 /\ pos' = pos + it.width
         \/ item' = item /\ pos' = pos
  BY DEF ReadIndexed
<1>2. /\ Fit(it, t, u) /\ t.mode # "never" /\ pos \in Nat /\ s \in Spot /\ item \in Nat
      /\ it.width \in Nat /\ elem = 0 /\ item > s.without /\ Here(job, item, pos - Past(it))
  BY <1>1, ItemLaid DEF Step
<1>3. t.mode = "packed" /\ Packs(t, u) BY <1>1, <1>2 DEF Fit, Scalars
<1>4. /\ pos = Offset(it, s) /\ r.at = Offset(it, s) + it.width /\ r.packed = s.packed
      /\ r.without = s.without
  BY <1>1, <1>3, BytesHere, ItemWritten DEF Bytes
<1>5. s.packed BY <1>2, <1>3 DEF Here
<1>6. Here(job, item + 1, pos + it.width)
  <2>1. u.mode \in {"packed", "tail", "end"} BY <1>3 DEF Packs
  <2>2. item + 1 > r.without /\ r.packed /\ r.at = pos + it.width BY <1>2, <1>4, <1>5 DEF Spot
  <2> QED BY <2>1, <2>2 DEF Here
<1>7. CASE item' = item + 1 /\ pos' = pos + it.width
  <2>1. pos' \in Nat BY <1>2, <1>7
  <2> QED BY <1>1, <1>2, <1>6, <1>7, <2>1, LayNext, GotIs
<1>8. CASE item' = item /\ pos' = pos BY <1>1, <1>8, LayStays DEF Server
<1> QED BY <1>1, <1>7, <1>8

LEMMA LayCstr == ASSUME Server, NEW it \in NextItems, ReadCstr(it) PROVE Laying'
<1> DEFINE t == Marks(job)[item]
           u == Marks(job)[item + 1]
           s == Layout(job)[item]
           r == Layout(job)[item + 1]
<1>1. /\ it.kind = "cstr" /\ job' = job /\ elem' = elem /\ got' = got /\ item' = item + 1
      /\ pos' \in IF <<it.name, 0>> \in DOMAIN job.place /\ job.place[<<it.name, 0>>] = pos
                  THEN {pos + job.value[it.name]} ELSE (pos + 1)..job.len \cup {job.len}
  BY DEF ReadCstr
<1>2. /\ Fit(it, t, u) /\ t.mode # "never" /\ pos \in Nat /\ s \in Spot /\ item \in Nat
      /\ job.len \in Nat
      /\ elem = 0 /\ item > s.without /\ Here(job, item, pos - Past(it))
  BY <1>1, ItemLaid
<1>3. Packs(t, u) /\ (t.mode = "struct" => u.mode = "end") BY <1>1, <1>2 DEF Fit, Scalars
<1>4. /\ r.at = Offset(it, s) + job.value[it.name] /\ r.packed = s.packed /\ r.without = s.without
      /\ job.value[it.name] \in Nat \ {0}
  BY <1>1, ItemWritten DEF Bytes
<1>5. item + 1 > r.without BY <1>2, <1>4 DEF Spot
<1>6. pos' \in Nat
  <2>1. CASE <<it.name, 0>> \in DOMAIN job.place /\ job.place[<<it.name, 0>>] = pos
    BY <1>1, <1>2, <1>4, <2>1
  <2>2. CASE ~(<<it.name, 0>> \in DOMAIN job.place /\ job.place[<<it.name, 0>>] = pos)
    BY <1>1, <1>2, <2>2
  <2> QED BY <2>1, <2>2
<1>7. t.mode # "tail" \/ GapsLast(job) => pos' = r.at BY <1>1, <1>4, BytesHere
<1>8. Here(job, item + 1, pos')
  <2>1. CASE u.mode = "end" BY <1>5, <2>1 DEF Here
  <2>2. CASE u.mode # "end"
    <3>1. s.packed /\ u.mode \in {"packed", "tail"} /\ (u.mode = "packed" => t.mode # "tail")
      BY <1>2, <1>3, <2>2 DEF Here, Packs
    <3>2. GapsLast(job) => pos' = r.at BY <1>7
    <3>3. u.mode = "packed" => pos' = r.at BY <1>7, <3>1
    <3> QED BY <1>4, <1>5, <3>1, <3>2, <3>3 DEF Here
  <2> QED BY <2>1, <2>2
<1> QED BY <1>1, <1>2, <1>6, <1>8, LayNext, GotIs

LEMMA LayingInit == Init => Laying
<1> SUFFICES ASSUME Init, Regular(job), Parser # <<>>
             PROVE  /\ Here(job, item, pos - Past(Parser[item]))
                    /\ elem > 0 => /\ item <= Len(Parser) /\ Parser[item].kind = "array"
                                   /\ elem <= Shown(Parser[item])
                    /\ \A n \in DOMAIN got : got[n] = job.value[n]
  BY DEF Laying
<1>1. /\ job \in Jobs /\ item = 1 /\ elem = 0 /\ pos = 0
      /\ got = IF job.block = MAIN THEN <<>> ELSE [flags |-> job.main_flags]
  BY DEF Init
<1>2. ProgramOf(job) # <<>> BY MostIs
<1>3. /\ Layout(job)[1] = Spot0
      /\ Starts(ProgramOf(job), Marks(job))
      /\ (job.block # MAIN => job.value["flags"] = job.main_flags)
  BY <1>1, <1>2, ServerWrites
<1>4. Here(job, 1, 0) BY <1>3 DEF Here, Starts, Spot0, At
<1>5. pos - Past(Parser[item]) = 0 BY <1>1 DEF Past
<1>6. \A n \in DOMAIN got : got[n] = job.value[n]
  <2>1. CASE job.block = MAIN BY <1>1, <2>1
  <2>2. CASE job.block # MAIN BY <1>1, <1>3, <2>2
  <2> QED BY <2>1, <2>2
<1> QED BY <1>1, <1>4, <1>5, <1>6

LEMMA LayingStep == Describing /\ Laying /\ [Next]_vars => Laying'
<1> SUFFICES ASSUME Describing, Laying, [Next]_vars PROVE Laying' OBVIOUS
<1>1. CASE Begin BY <1>1, LayStays DEF Begin
<1>2. CASE \E it \in NextItems : ReadItem(it)
  <2>1. PICK it \in NextItems : ReadItem(it) BY <1>2
  <2>2. CASE Server
    BY <2>1, <2>2, LayNumber, LayTimestamp, LayControl, LaySkip, LayBranch, LayElement, LayEnd,
        LayCstr, LaySized, LayName, LayIndexed, LayRest DEF ReadItem
  <2>3. CASE ~Server
    <3>1. job' = job
      BY <2>1 DEF ReadItem, ReadNumber, ReadTimestamp, ReadControl, Skip, Branch, ReadElement,
          EndArray, ReadCstr, ShowSized, ShowName, ReadIndexed, ShowRest
    <3>2. ~(Regular(job) /\ Parser # <<>> /\ job.len # 0) /\ Parser' = Parser BY <2>3, <3>1 DEF Server, Parser
    <3> QED BY <3>1, <3>2 DEF Laying
  <2> QED BY <2>2, <2>3
<1>3. CASE Finish BY <1>3, LayStays DEF Finish
<1>4. CASE Stop BY <1>4, LayStays DEF Stop, vars
<1>5. CASE UNCHANGED vars BY <1>5, LayStays DEF vars
<1> QED BY <1>1, <1>2, <1>3, <1>4, <1>5 DEF Next

\* Line l is about item k.
Told(j, l, k) ==
  LET it == ProgramOf(j)[k]
      sure == GapsLast(j) \/ Marks(j)[k].mode # "tail"
  IN  /\ l.name = it.name
      /\ l.names = IF it.kind = "flags" THEN Named(it.table, j.value[it.name]) ELSE {}
      /\ l.more = 0 /\ it.kind # "rest" =>
           /\ l.index \in 0 .. (Elements(it, j.value) - 1)
           /\ sure => l.at = Offset(it, Layout(j)[k]) + l.index * Stride(it)
      /\ it.kind = "time" /\ sure => l.moment = j.value[it.name]

\* The items that always have a line, wherever they are read.
Telling == {"int", "time", "flags", "count", "size", "cstr", "indexed", "name"}

\* The lines about array k when n of its elements have been read, at its end or before.
Element(j, k, i) ==
  LET it == ProgramOf(j)[k] IN Line(it.name, i, Offset(it, Layout(j)[k]) + i * Stride(it), {})
LeftOut(j, k) ==
  LET it == ProgramOf(j)[k]
      tally == CountOf(it, j.value)
  IN  IF it.note # "none" /\ tally > it.cap THEN {More(it.name, tally - it.cap)} ELSE {}
ReadOf(j, k, m, e) ==
  IF k < m THEN Least(CountOf(ProgramOf(j)[k], j.value), ProgramOf(j)[k].cap)
  ELSE IF k = m THEN e ELSE 0
ArrayLines(j, k, m, e) ==
  {Element(j, k, i) : i \in 0 .. (ReadOf(j, k, m, e) - 1)} \cup (IF k < m THEN LeftOut(j, k) ELSE {})

\* R are the lines before item m, or before the element that follows e elements of it.
Tells(j, m, e, R) ==
  LET p == ProgramOf(j)
      written == Written(p, Layout(j))
  IN  /\ \A l \in R : \E k \in written : Told(j, l, k)
      /\ \A k \in written :
           /\ k < m /\ p[k].kind \in Telling =>
                \E l \in R : l.name = p[k].name /\ (p[k].kind = "flags" => Told(j, l, k))
           /\ p[k].kind = "array" => {l \in R : l.name = p[k].name} = ArrayLines(j, k, m, e)

(***************************************************************************)
(* ... and its lines are those of the items behind it.                     *)
(***************************************************************************)
ToldSoFar ==
  Regular(job) /\ Parser # <<>> /\ job.len # 0 =>
    /\ Tells(job, item, elem, Range(lines))
    /\ pc = "start" => lines = <<>>
    /\ pc = "done" => item = Len(Parser) + 1
LEMMA RangeGrows ==
  ASSUME NEW s, IsSeq(s), NEW e
  PROVE  Range(Append(s, e)) = Range(s) \cup {e}
<1>1. PICK V : s \in Seq(V) BY DEF IsSeq
<1>2. s \in Seq(V \cup {e}) /\ e \in V \cup {e} BY <1>1
<1>3. /\ DOMAIN Append(s, e) = 1 .. Len(s) + 1 /\ DOMAIN s = 1 .. Len(s) /\ Len(s) \in Nat
      /\ Append(s, e)[Len(s) + 1] = e /\ \A k \in 1 .. Len(s) : Append(s, e)[k] = s[k]
  BY <1>2, AppendProperties, LenProperties
<1> QED BY <1>3 DEF Range

\* The programs name an array by a name of its own.
LEMMA OwnName ==
  ASSUME NEW j \in Jobs, Regular(j), ProgramOf(j) # <<>>, NEW k \in 1 .. Len(ProgramOf(j)),
         ProgramOf(j)[k].kind = "array", NEW i \in 1 .. Len(ProgramOf(j)), i # k
  PROVE  ProgramOf(j)[i].name # ProgramOf(j)[k].name
BY ServerWrites DEF Fits

\* Past an item that is no array, with a line about it or none.
LEMMA TellNext ==
  ASSUME Server, ToldSoFar, NEW it \in NextItems, it.kind # "array", NEW R,
         NEW l, R = Range(lines) \cup {l}, Told(job, l, item), item \in Written(ProgramOf(job), Layout(job))
  PROVE  Tells(job, item + 1, 0, R)
<1> DEFINE p == ProgramOf(job)
           written == Written(p, Layout(job))
           R0 == Range(lines)
<1>1. /\ job \in Jobs /\ Regular(job) /\ p # <<>> /\ it = p[item] /\ item \in 1 .. Len(p) /\ elem = 0
      /\ item \in Nat
  BY ItemLaid DEF Server
<1>2. Tells(job, item, 0, R0) BY <1>1 DEF Server, ToldSoFar
<1>3. \A k \in written : k \in Nat /\ k \in 1 .. Len(p) BY DEF Written
<1>4. ASSUME NEW x \in R PROVE \E k \in written : Told(job, x, k) BY <1>2 DEF Tells
<1>5. ASSUME NEW k \in written, k < item + 1, p[k].kind \in Telling
      PROVE  \E x \in R : x.name = p[k].name /\ (p[k].kind = "flags" => Told(job, x, k))
  <2>1. CASE k = item
    <3>1. l.name = p[k].name /\ l \in R BY <2>1 DEF Told
    <3> QED BY <2>1, <3>1
  <2>2. CASE k < item
    <3>1. PICK x \in R0 : x.name = p[k].name /\ (p[k].kind = "flags" => Told(job, x, k))
      BY <1>2, <1>5, <2>2 DEF Tells
    <3> QED BY <3>1
  <2>3. k = item \/ k < item
    <3>1. k \in Nat BY <1>3
    <3> QED BY <1>1, <1>5, <3>1
  <2> QED BY <2>1, <2>2, <2>3
<1>6. ASSUME NEW k \in written, p[k].kind = "array"
      PROVE  {x \in R : x.name = p[k].name} = ArrayLines(job, k, item + 1, 0)
  <2>1. k # item /\ p[item].name # p[k].name BY <1>1, <1>3, <1>6, OwnName
  <2>2. l.name # p[k].name BY <2>1 DEF Told
  <2>3. {x \in R : x.name = p[k].name} = {x \in R0 : x.name = p[k].name} BY <2>2
  <2>4. {x \in R0 : x.name = p[k].name} = ArrayLines(job, k, item, 0) BY <1>2, <1>6 DEF Tells
  <2>5. (k < item + 1) = (k < item) /\ ReadOf(job, k, item + 1, 0) = ReadOf(job, k, item, 0)
    BY <1>1, <1>3, <2>1 DEF ReadOf
  <2>6. ArrayLines(job, k, item, 0) = ArrayLines(job, k, item + 1, 0) BY <2>5 DEF ArrayLines
  <2> QED BY <2>3, <2>4, <2>6
<1> QED BY <1>4, <1>5, <1>6 DEF Tells

\* ... without a line, and past items that are not written.
LEMMA TellPast ==
  ASSUME Server, ToldSoFar, NEW it \in NextItems, it.kind # "array", NEW m \in item + 1 .. Len(Parser) + 1,
         \A k \in Written(ProgramOf(job), Layout(job)) :
            k \in item .. m - 1 => k = item /\ it.kind \notin Telling
  PROVE  Tells(job, m, 0, Range(lines))
<1> DEFINE p == ProgramOf(job)
           written == Written(p, Layout(job))
           R0 == Range(lines)
<1>1. /\ job \in Jobs /\ Regular(job) /\ p # <<>> /\ it = p[item] /\ item \in 1 .. Len(p) /\ elem = 0
      /\ item \in Nat /\ m \in Nat /\ m > item
  BY ItemLaid DEF Server
<1>2. Tells(job, item, 0, R0) BY <1>1 DEF Server, ToldSoFar
<1>3. \A k \in written : k \in Nat /\ k \in 1 .. Len(p) BY DEF Written
<1>4. \A l \in R0 : \E k \in written : Told(job, l, k) BY <1>2 DEF Tells
<1>5. ASSUME NEW k \in written, k < m, p[k].kind \in Telling
      PROVE  \E l \in R0 : l.name = p[k].name /\ (p[k].kind = "flags" => Told(job, l, k))
  <2>1. k < item
    <3>1. ~(k \in item .. m - 1) BY <1>1, <1>5
    <3> QED BY <1>1, <1>3, <1>5, <3>1
  <2> QED BY <1>2, <1>5, <2>1 DEF Tells
<1>6. ASSUME NEW k \in written, p[k].kind = "array"
      PROVE  {l \in R0 : l.name = p[k].name} = ArrayLines(job, k, m, 0)
  <2>1. ~(k \in item .. m - 1) BY <1>1, <1>6
  <2>2. {l \in R0 : l.name = p[k].name} = ArrayLines(job, k, item, 0) BY <1>2, <1>6 DEF Tells
  <2>3. (k < m) = (k < item) /\ ReadOf(job, k, m, 0) = ReadOf(job, k, item, 0)
    BY <1>1, <1>3, <2>1 DEF ReadOf
  <2>4. ArrayLines(job, k, item, 0) = ArrayLines(job, k, m, 0) BY <2>3 DEF ArrayLines
  <2> QED BY <2>2, <2>4
<1> QED BY <1>4, <1>5, <1>6 DEF Tells

\* A line about a number or a text.
LEMMA LineTold ==
  ASSUME Server, NEW it \in NextItems, it.kind \notin {"if", "skip", "array"},
         it.kind = "sized" => job.value[it.of] > 0,
         NEW l, l.name = it.name, l.index = 0,
         l.names = IF it.kind = "flags" THEN Named(it.table, job.value[it.name]) ELSE {},
         Marks(job)[item].mode # "tail" \/ GapsLast(job) =>
               /\ it.kind # "rest" => l.at = IF it.kind \in Scalars THEN Where(it.width) ELSE pos
               /\ it.kind = "time" => l.moment = job.value[it.name]
  PROVE  item \in Written(ProgramOf(job), Layout(job)) /\ Told(job, l, item)
<1> DEFINE o == Offset(it, Layout(job)[item])
           sure == GapsLast(job) \/ Marks(job)[item].mode # "tail"
<1>1. item \in Written(ProgramOf(job), Layout(job)) /\ it = ProgramOf(job)[item] /\ o \in Nat
  BY ItemWritten, ItemLaid
<1>2. Elements(it, job.value) = 1 /\ Stride(it) = it.width /\ it.width \in Nat
  <2>1. it.width \in Nat BY ItemLaid DEF Step
  <2> QED BY <2>1 DEF Elements, Stride
<1>3. l.index \in 0 .. (Elements(it, job.value) - 1) BY <1>2
<1>4. ASSUME sure, it.kind # "rest" PROVE l.at = o
  <2>1. CASE it.kind \in Scalars
    <3>1. pos = o /\ Reads(it.width) BY <1>4, <2>1, ScalarHere
    <3> QED BY <1>4, <2>1, <3>1 DEF Where
  <2>2. CASE it.kind \notin Scalars
    <3>1. it.kind \in {"indexed", "cstr", "name", "sized"}
      <4>1. Fit(it, Marks(job)[item], Marks(job)[item + 1]) /\ Marks(job)[item].mode # "never"
        BY ItemLaid
      <4> QED BY <1>4, <2>2, <4>1 DEF Fit
    <3>2. pos = o BY <1>4, <3>1, BytesHere
    <3> QED BY <1>4, <2>2, <3>2
  <2> QED BY <2>1, <2>2
<1>5. l.index * Stride(it) = 0 /\ \A x \in Nat : x + 0 = x BY <1>2
<1>6. o + l.index * Stride(it) = o BY <1>1, <1>5
<1> HIDE DEF o
<1> QED BY <1>1, <1>3, <1>4, <1>6 DEF Told, o

LEMMA LinesSeq == Describing => IsSeq(lines)
BY DEF Describing, IsSeq

\* An action on an item that goes on to item m.
LEMMA TellGoes ==
  ASSUME Server, NEW it \in NextItems, job' = job, pc' # "done", pc' # "start",
         Tells(job, item', elem', Range(lines'))
  PROVE  ToldSoFar'
<1>1. Parser' = Parser BY DEF Parser
<1> QED BY <1>1 DEF ToldSoFar

LEMMA TellStays ==
  ASSUME ToldSoFar, UNCHANGED <<job, item, elem, lines>>,
         pc' = "start" => pc = "start", pc' = "done" => item = Len(Parser) + 1
  PROVE  ToldSoFar'
<1>1. Parser' = Parser BY DEF Parser
<1> QED BY <1>1 DEF ToldSoFar

\* To the next item, with a line about this one.
LEMMA TellLine ==
  ASSUME Server, ToldSoFar, NEW it \in NextItems, it.kind \notin {"if", "skip", "array"},
         it.kind = "sized" => job.value[it.of] > 0,
         NEW l, l.name = it.name, l.index = 0,
         l.names = IF it.kind = "flags" THEN Named(it.table, job.value[it.name]) ELSE {},
         Marks(job)[item].mode # "tail" \/ GapsLast(job) =>
               /\ it.kind # "rest" => l.at = IF it.kind \in Scalars THEN Where(it.width) ELSE pos
               /\ it.kind = "time" => l.moment = job.value[it.name],
         lines' = Append(lines, l), job' = job, item' = item + 1, elem' = elem, pc' = pc
  PROVE  ToldSoFar'
<1>1. item \in Written(ProgramOf(job), Layout(job)) /\ Told(job, l, item) BY LineTold
<1>2. Range(lines') = Range(lines) \cup {l} BY LinesSeq, RangeGrows DEF Server
<1>3. Tells(job, item + 1, 0, Range(lines')) BY <1>1, <1>2, TellNext
<1>4. elem = 0 /\ pc = "reading" BY ItemLaid DEF NextItems
<1> QED BY <1>3, <1>4, TellGoes

\* ... without one.
LEMMA TellSilent ==
  ASSUME Server, ToldSoFar, NEW it \in NextItems, it.kind # "array", it.kind \notin Telling,
         lines' = lines, job' = job, item' = item + 1, elem' = elem, pc' = pc
  PROVE  ToldSoFar'
<1>1. item \in 1 .. Len(Parser) /\ Len(Parser) \in Nat BY ItemLaid
<1>2. item + 1 \in item + 1 .. Len(Parser) + 1 BY <1>1
<1>3. \A k \in Written(ProgramOf(job), Layout(job)) :
        k \in item .. (item + 1) - 1 => k = item /\ it.kind \notin Telling
  BY <1>1
<1>4. Tells(job, item + 1, 0, Range(lines)) BY <1>2, <1>3, TellPast
<1>5. elem = 0 /\ pc = "reading" BY ItemLaid DEF NextItems
<1> QED BY <1>4, <1>5, TellGoes

LEMMA TellNumber == ASSUME Server, ToldSoFar, NEW it \in NextItems, ReadNumber(it) PROVE ToldSoFar'
<1>1. /\ it.kind \in {"int", "unshown"} /\ item' = item + 1 /\ job' = job /\ elem' = elem
      /\ pc' = pc
      /\ lines' = IF it.kind = "int" THEN Append(lines, Line(it.name, 0, Where(it.width), {})) ELSE lines
  BY DEF ReadNumber
<1>2. CASE it.kind = "int"
  <2> DEFINE l == Line(it.name, 0, Where(it.width), {})
  <2>1. l.name = it.name /\ l.index = 0 /\ l.names = {} /\ l.at = Where(it.width) BY DEF Line
  <2>2. lines' = Append(lines, l) BY <1>1, <1>2
  <2> HIDE DEF l
  <2> QED BY <1>1, <1>2, <2>1, <2>2, TellLine DEF Scalars
<1>3. CASE it.kind = "unshown" BY <1>1, <1>3, TellSilent DEF Telling
<1> QED BY <1>1, <1>2, <1>3

LEMMA TellTimestamp == ASSUME Server, ToldSoFar, NEW it \in NextItems, ReadTimestamp(it) PROVE ToldSoFar'
<1>1. PICK us \in Values(it) :
        lines' = Append(lines, [Line(it.name, 0, Where(it.width), {}) EXCEPT !.moment = fmt_pg_ts(us)])
  BY DEF ReadTimestamp
<1>2. it.kind = "time" /\ item' = item + 1 /\ job' = job /\ elem' = elem /\ pc' = pc
  BY DEF ReadTimestamp
<1> DEFINE l == [Line(it.name, 0, Where(it.width), {}) EXCEPT !.moment = fmt_pg_ts(us)]
<1>3. /\ l.name = it.name /\ l.index = 0 /\ l.names = {} /\ l.at = Where(it.width)
      /\ l.moment = fmt_pg_ts(us)
  BY DEF Line
<1>4. lines' = Append(lines, l) BY <1>1
<1> HIDE DEF l
<1>5. ASSUME Marks(job)[item].mode # "tail" \/ GapsLast(job) PROVE fmt_pg_ts(us) = job.value[it.name]
  <2>1. Reads(it.width) /\ <<it.name, 0>> \in DOMAIN job.place /\ job.place[<<it.name, 0>>] = pos
    BY <1>2, <1>5, ScalarHere DEF Scalars
  <2>2. us = TimestampTz(job.value[it.name]) BY <1>2, <2>1 DEF Values
  <2>3. IsMoment(job.value[it.name]) BY <1>2, ItemWritten
  <2> QED BY <2>2, <2>3, TimestampsInvert
<1> QED BY <1>2, <1>3, <1>4, <1>5, TellLine DEF Scalars

LEMMA TellControl == ASSUME Server, ToldSoFar, NEW it \in NextItems, ReadControl(it) PROVE ToldSoFar'
<1>1. PICK v \in Values(it) :
        lines' = IF it.kind = "flags" /\ it.optional /\ ~Reads(it.width) THEN lines
                 ELSE Append(lines, Line(it.name, 0, Where(it.width),
                                         IF it.kind = "flags" THEN Named(it.table, v) ELSE {}))
  BY DEF ReadControl
<1>2. /\ it.kind \in Controls /\ it.kind \in Scalars /\ item' = item + 1 /\ job' = job
      /\ elem' = elem /\ pc' = pc
  BY DEF ReadControl, Controls, Scalars
<1>3. v = job.value[it.name] /\ Reads(it.width) BY <1>2, ControlIs
<1> DEFINE l == Line(it.name, 0, Where(it.width), IF it.kind = "flags" THEN Named(it.table, v) ELSE {})
<1>4. /\ l.name = it.name /\ l.index = 0 /\ l.at = Where(it.width)
      /\ l.names = IF it.kind = "flags" THEN Named(it.table, job.value[it.name]) ELSE {}
  BY <1>3 DEF Line
<1>5. lines' = Append(lines, l) BY <1>1, <1>3
<1> HIDE DEF l
<1> QED BY <1>2, <1>4, <1>5, TellLine DEF Controls

LEMMA TellSkip == ASSUME Server, ToldSoFar, NEW it \in NextItems, Skip(it) PROVE ToldSoFar'
BY TellSilent DEF Skip, Telling

LEMMA TellBranch == ASSUME Server, ToldSoFar, NEW it \in NextItems, Branch(it) PROVE ToldSoFar'
<1>1. /\ it.kind = "if" /\ item' = (IF Holds(it.cond) THEN item + 1 ELSE item + 1 + it.jump)
      /\ job' = job /\ elem' = elem /\ lines' = lines /\ pc' = pc
  BY DEF Branch
<1>2. CASE Holds(it.cond) BY <1>1, <1>2, TellSilent DEF Telling
<1>3. CASE ~Holds(it.cond)
  <2> DEFINE e == item + it.jump
  <2>1. /\ job \in Jobs /\ Regular(job) /\ ProgramOf(job) # <<>> /\ Parser = ProgramOf(job)
        /\ item \in 1 .. Len(Parser) /\ Len(Parser) \in Nat /\ it = ProgramOf(job)[item]
        /\ Layout(job)[item] \in Spot /\ item > Layout(job)[item].without /\ elem = 0
        /\ it.jump \in Nat /\ pc = "reading"
    BY <1>1, ItemLaid DEF Server, Step, NextItems
  <2>2. ~Has(it.cond, job.info, job.value) BY <1>1, <1>3, HoldsIs
  <2>3. \A k \in item + 1 .. e + 1 : Layout(job)[k] = Layout(job)[item + 1]
    BY <1>1, <2>1, <2>2, PartSkipped
  <2>4. Layout(job)[item + 1].without = e BY <1>1, <2>1, <2>2, SpotAfter
  <2>5. e + 1 \in item + 1 .. Len(Parser) + 1
    <3>1. item + it.jump <= Len(ProgramOf(job)) BY <1>1, <2>1, ServerWrites
    <3> QED BY <2>1, <3>1
  <2>6. \A k \in Written(ProgramOf(job), Layout(job)) : k \notin item .. (e + 1) - 1
    <3> SUFFICES ASSUME NEW k \in Written(ProgramOf(job), Layout(job)), k \in item .. (e + 1) - 1 PROVE FALSE
      OBVIOUS
    <3>1. k # item /\ k > Layout(job)[k].without BY <1>1, <2>1 DEF Written
    <3>2. k \in item + 1 .. e + 1 BY <2>1, <3>1
    <3> QED BY <2>1, <2>3, <2>4, <3>1, <3>2
  <2>7. Tells(job, e + 1, 0, Range(lines)) BY <1>1, <2>5, <2>6, TellPast
  <2>8. e + 1 = item'
    <3>1. item' = item + 1 + it.jump BY <1>1, <1>3
    <3>2. item \in Nat /\ it.jump \in Nat BY <2>1
    <3> DEFINE n == it.jump
    <3> HIDE DEF n
    <3> QED BY ONLY <3>1, <3>2 DEF n, e
  <2> QED BY <1>1, <2>1, <2>7, <2>8, TellGoes
<1> QED BY <1>2, <1>3

LEMMA TellElement == ASSUME Server, ToldSoFar, NEW it \in NextItems, ReadElement(it) PROVE ToldSoFar'
<1> DEFINE p == ProgramOf(job)
           written == Written(p, Layout(job))
           R0 == Range(lines)
           bytes == it.width * it.numbers
           l == Line(it.name, elem, Where(bytes), {})
           o == Offset(it, Layout(job)[item])
           st == Stride(it)
           tally == CountOf(it, job.value)
<1>1. /\ it.kind = "array" /\ elem < Shown(it) /\ elem' = elem + 1 /\ job' = job
      /\ item' = item /\ pc' = pc
      /\ lines' = IF it.numbers = 1 /\ ~Reads(bytes) THEN lines ELSE Append(lines, l)
  BY DEF ReadElement
<1>2. Reads(bytes) /\ elem < tally BY <1>1, ElementThere
<1>3. /\ elem \in Nat /\ pos = o + elem * st /\ o \in Nat /\ tally \in Nat
      /\ Elements(it, job.value) = tally
      /\ it.width \in Nat /\ it.numbers \in Nat
  <2>1. it.width \in {1, 2, 4, 8} /\ it.numbers \in Nat \ {0} BY <1>1, ArrayHere
  <2>2. /\ elem \in Nat /\ pos = o + elem * st /\ o \in Nat /\ tally \in Nat
        /\ Elements(it, job.value) = tally
    BY <1>1, ArrayHere
  <2> QED BY <2>1, <2>2
<1>4. /\ job \in Jobs /\ Regular(job) /\ p # <<>> /\ it = p[item] /\ item \in 1 .. Len(p)
      /\ item \in Nat
      /\ pc = "reading"
  BY ItemLaid DEF Server, NextItems
<1>5. item \in written
  <2>1. it.kind \notin {"if", "skip"} BY <1>1
  <2> QED BY <2>1, ItemWritten
<1>6. Range(lines') = R0 \cup {l}
  <2>1. lines' = Append(lines, l) BY <1>1, <1>2
  <2> HIDE DEF l
  <2> QED BY <2>1, LinesSeq, RangeGrows DEF Server
<1>7. l = Element(job, item, elem)
  <2>1. Where(bytes) = o + elem * st BY <1>2, <1>3 DEF Where
  <2> QED BY <1>4, <2>1 DEF Element
<1>8. l.name = it.name /\ l.index = elem /\ l.names = {} /\ l.at = o + elem * st /\ l.more = 0
  BY <1>4, <1>7 DEF Element, Line
<1> HIDE DEF l
<1>9. Told(job, l, item)
  <2>1. elem \in 0 .. (Elements(it, job.value) - 1) BY <1>2, <1>3
  <2> QED BY <1>1, <1>4, <1>8, <2>1 DEF Told
<1>10. Tells(job, item, elem, R0) BY DEF Server, ToldSoFar
<1>11. \A k \in written : k \in Nat /\ k \in 1 .. Len(p) BY DEF Written
<1> DEFINE R == R0 \cup {l}
<1>12. \A x \in R : \E k \in written : Told(job, x, k) BY <1>5, <1>9, <1>10 DEF Tells
<1>13. ASSUME NEW k \in written, k < item, p[k].kind \in Telling
       PROVE  \E x \in R : x.name = p[k].name /\ (p[k].kind = "flags" => Told(job, x, k))
  <2>1. PICK x \in R0 : x.name = p[k].name /\ (p[k].kind = "flags" => Told(job, x, k))
    BY <1>10, <1>13 DEF Tells
  <2> QED BY <2>1
<1>14. ASSUME NEW k \in written, p[k].kind = "array"
       PROVE  {x \in R : x.name = p[k].name} = ArrayLines(job, k, item, elem + 1)
  <2>1. {x \in R0 : x.name = p[k].name} = ArrayLines(job, k, item, elem) BY <1>10, <1>14 DEF Tells
  <2>2. CASE k = item
    <3>1. {x \in R : x.name = p[k].name} = ArrayLines(job, k, item, elem) \cup {l}
      BY <1>4, <1>8, <2>1, <2>2
    <3>2. ReadOf(job, k, item, elem) = elem /\ ReadOf(job, k, item, elem + 1) = elem + 1 /\ ~(k < item)
      BY <1>4, <2>2 DEF ReadOf
    <3>3. 0 .. ((elem + 1) - 1) = (0 .. (elem - 1)) \cup {elem} BY <1>3
    <3>4. ArrayLines(job, k, item, elem + 1)
            = {Element(job, k, i) : i \in (0 .. (elem - 1)) \cup {elem}}
      BY <3>2, <3>3 DEF ArrayLines
    <3>5. ArrayLines(job, k, item, elem) = {Element(job, k, i) : i \in 0 .. (elem - 1)}
      BY <3>2 DEF ArrayLines
    <3>6. {Element(job, k, i) : i \in (0 .. (elem - 1)) \cup {elem}}
            = {Element(job, k, i) : i \in 0 .. (elem - 1)} \cup {Element(job, k, elem)}
      OBVIOUS
    <3> QED BY <1>7, <2>2, <3>1, <3>4, <3>5, <3>6
  <2>3. CASE k # item
    <3>1. p[item].name # p[k].name BY <1>4, <1>11, <1>14, <2>3, OwnName
    <3>2. {x \in R : x.name = p[k].name} = {x \in R0 : x.name = p[k].name} BY <1>4, <1>8, <3>1
    <3>3. ReadOf(job, k, item, elem + 1) = ReadOf(job, k, item, elem) BY <2>3 DEF ReadOf
    <3>4. ArrayLines(job, k, item, elem) = ArrayLines(job, k, item, elem + 1) BY <3>3 DEF ArrayLines
    <3> QED BY <2>1, <3>2, <3>4
  <2> QED BY <2>2, <2>3
<1>15. Tells(job, item, elem + 1, R) BY <1>12, <1>13, <1>14 DEF Tells
<1> QED BY <1>1, <1>4, <1>6, <1>15, TellGoes

LEMMA TellEnd == ASSUME Server, ToldSoFar, NEW it \in NextItems, EndArray(it) PROVE ToldSoFar'
<1> DEFINE p == ProgramOf(job)
           written == Written(p, Layout(job))
           R0 == Range(lines)
           R == Range(lines')
           l == More(it.name, Left(it))
           tally == CountOf(it, job.value)
           more == IF Left(it) # 0 THEN {l} ELSE {}
<1>1. /\ it.kind = "array" /\ elem >= Shown(it) /\ elem' = 0 /\ job' = job /\ item' = item + 1
      /\ pc' = pc
      /\ lines' = IF Left(it) # 0 THEN Append(lines, l) ELSE lines
  BY DEF EndArray
<1>2. /\ elem = Shown(it) /\ elem = Least(tally, it.cap) /\ tally \in Nat /\ it.cap \in Nat
      /\ elem \in Nat
  <2>1. /\ elem <= Shown(it) /\ elem \in Nat /\ Shown(it) = Least(tally, it.cap)
        /\ tally \in Nat /\ it.cap \in Nat
    BY <1>1, ArrayHere
  <2>2. elem = Shown(it) BY <1>1, <2>1 DEF Least
  <2> QED BY <2>1, <2>2
<1>3. Left(it) = IF it.note # "none" /\ tally > it.cap THEN tally - it.cap ELSE 0
  <2>1. it.note \in {"none", "clamped", "cast"} BY <1>1, ItemLaid DEF Form
  <2> QED BY <1>1, <2>1, LeftIs
<1>4. /\ job \in Jobs /\ Regular(job) /\ p # <<>> /\ it = p[item] /\ item \in 1 .. Len(p)
      /\ item \in Nat
      /\ pc = "reading"
  BY ItemLaid DEF Server, NextItems
<1>5. item \in written
  <2>1. it.kind \notin {"if", "skip"} BY <1>1
  <2> QED BY <2>1, ItemWritten
<1>6. R = R0 \cup more
  <2>1. CASE Left(it) # 0
    <3>1. lines' = Append(lines, l) /\ more = {l} BY <1>1, <2>1
    <3> HIDE DEF l, more
    <3> QED BY <3>1, LinesSeq, RangeGrows DEF Server
  <2>2. CASE Left(it) = 0 BY <1>1, <2>2
  <2> QED BY <2>1, <2>2
<1>7. more = LeftOut(job, item)
  <2>1. CASE it.note # "none" /\ tally > it.cap
    <3>1. Left(it) = tally - it.cap /\ Left(it) # 0 BY <1>2, <1>3, <2>1
    <3>2. LeftOut(job, item) = {More(it.name, tally - it.cap)} BY <1>4, <2>1 DEF LeftOut
    <3> QED BY <3>1, <3>2
  <2>2. CASE ~(it.note # "none" /\ tally > it.cap) BY <1>3, <1>4, <2>2 DEF LeftOut
  <2> QED BY <2>1, <2>2
<1>8. l.name = it.name /\ l.names = {} /\ l.more = Left(it) BY DEF More, Line
<1> HIDE DEF l
<1>9. Left(it) # 0 => Told(job, l, item) BY <1>1, <1>4, <1>8 DEF Told
<1>10. Tells(job, item, elem, R0) BY DEF Server, ToldSoFar
<1>11. \A k \in written : k \in Nat /\ k \in 1 .. Len(p) BY DEF Written
<1>12. \A x \in R : \E k \in written : Told(job, x, k) BY <1>5, <1>6, <1>9, <1>10 DEF Tells
<1>13. ASSUME NEW k \in written, k < item + 1, p[k].kind \in Telling
       PROVE  \E x \in R : x.name = p[k].name /\ (p[k].kind = "flags" => Told(job, x, k))
  <2>1. k < item
    <3>1. k # item BY <1>1, <1>4, <1>13 DEF Telling
    <3>2. k \in Nat BY <1>11
    <3> QED BY <1>4, <1>13, <3>1, <3>2
  <2>2. PICK x \in R0 : x.name = p[k].name /\ (p[k].kind = "flags" => Told(job, x, k))
    BY <1>10, <1>13, <2>1 DEF Tells
  <2> QED BY <1>6, <2>2
<1>14. ASSUME NEW k \in written, p[k].kind = "array"
       PROVE  {x \in R : x.name = p[k].name} = ArrayLines(job, k, item + 1, 0)
  <2>1. {x \in R0 : x.name = p[k].name} = ArrayLines(job, k, item, elem) BY <1>10, <1>14 DEF Tells
  <2>2. CASE k = item
    <3>1. {x \in R : x.name = p[k].name} = ArrayLines(job, k, item, elem) \cup LeftOut(job, item)
      BY <1>4, <1>6, <1>7, <1>8, <2>1, <2>2
    <3>2. ReadOf(job, k, item, elem) = elem /\ ReadOf(job, k, item + 1, 0) = elem /\ ~(k < item) /\ k < item + 1
      BY <1>2, <1>4, <2>2 DEF ReadOf
    <3> QED BY <2>2, <3>1, <3>2 DEF ArrayLines
  <2>3. CASE k # item
    <3>1. p[item].name # p[k].name BY <1>4, <1>11, <1>14, <2>3, OwnName
    <3>2. {x \in R : x.name = p[k].name} = {x \in R0 : x.name = p[k].name} BY <1>4, <1>6, <1>8, <3>1
    <3>3. (k < item + 1) = (k < item) /\ ReadOf(job, k, item + 1, 0) = ReadOf(job, k, item, elem)
      BY <1>4, <1>11, <2>3 DEF ReadOf
    <3>4. ArrayLines(job, k, item, elem) = ArrayLines(job, k, item + 1, 0) BY <3>3 DEF ArrayLines
    <3> QED BY <2>1, <3>2, <3>4
  <2> QED BY <2>2, <2>3
<1>15. Tells(job, item + 1, 0, R) BY <1>12, <1>13, <1>14 DEF Tells
<1> QED BY <1>1, <1>4, <1>15, TellGoes

LEMMA TellCstr == ASSUME Server, ToldSoFar, NEW it \in NextItems, ReadCstr(it) PROVE ToldSoFar'
<1>1. /\ it.kind = "cstr" /\ item' = item + 1 /\ job' = job /\ elem' = elem /\ pc' = pc
      /\ lines' = Append(lines, Line(it.name, 0, pos, {}))
  BY DEF ReadCstr
<1> DEFINE l == Line(it.name, 0, pos, {})
<1>2. l.name = it.name /\ l.index = 0 /\ l.names = {} /\ l.at = pos BY DEF Line
<1>3. lines' = Append(lines, l) BY <1>1
<1> HIDE DEF l
<1> QED BY <1>1, <1>2, <1>3, TellLine DEF Scalars

LEMMA TellSized == ASSUME Server, ToldSoFar, NEW it \in NextItems, ShowSized(it) PROVE ToldSoFar'
<1>1. /\ it.kind = "sized" /\ item' = item + 1 /\ job' = job /\ elem' = elem /\ pc' = pc
      /\ lines' = IF got[it.of] > 0 /\ remaining >= got[it.of]
                  THEN Append(lines, Line(it.name, 0, pos, {})) ELSE lines
  BY DEF ShowSized
<1>2. it.of \in DOMAIN got /\ got[it.of] = job.value[it.of]
  <2>1. it.of \in Known(job)[item] BY <1>1, ItemLaid DEF Step
  <2>2. it.of \in DOMAIN got BY <2>1 DEF Server, Describing, Counted
  <2> QED BY <2>2, GotIs
<1>3. CASE got[it.of] > 0 /\ remaining >= got[it.of]
  <2> DEFINE l == Line(it.name, 0, pos, {})
  <2>1. l.name = it.name /\ l.index = 0 /\ l.names = {} /\ l.at = pos BY DEF Line
  <2>2. lines' = Append(lines, l) BY <1>1, <1>3
  <2> HIDE DEF l
  <2> QED BY <1>1, <1>2, <1>3, <2>1, <2>2, TellLine DEF Scalars
<1>4. CASE ~(got[it.of] > 0 /\ remaining >= got[it.of]) BY <1>1, <1>4, TellSilent DEF Telling
<1> QED BY <1>3, <1>4

LEMMA TellName == ASSUME Server, ToldSoFar, NEW it \in NextItems, ShowName(it) PROVE ToldSoFar'
<1>1. /\ it.kind = "name" /\ job' = job /\ elem' = elem
      /\ \/ lines' = Append(lines, Line(it.name, 0, pos, {})) /\ item' = item + 1 /\ pc' = pc
         \/ pc' = "panicked" /\ lines' = lines /\ item' = item
  BY DEF ShowName
<1>2. CASE lines' = Append(lines, Line(it.name, 0, pos, {})) /\ item' = item + 1 /\ pc' = pc
  <2> DEFINE l == Line(it.name, 0, pos, {})
  <2>1. l.name = it.name /\ l.index = 0 /\ l.names = {} /\ l.at = pos BY DEF Line
  <2>2. lines' = Append(lines, l) BY <1>2
  <2> HIDE DEF l
  <2> QED BY <1>1, <1>2, <2>1, <2>2, TellLine DEF Scalars
<1>3. CASE pc' = "panicked" /\ lines' = lines /\ item' = item BY <1>1, <1>3, TellStays
<1> QED BY <1>1, <1>2, <1>3

LEMMA TellIndexed == ASSUME Server, ToldSoFar, NEW it \in NextItems, ReadIndexed(it) PROVE ToldSoFar'
<1>1. /\ it.kind = "indexed" /\ job' = job /\ elem' = elem
      /\ \/ lines' = Append(lines, Line(it.name, 0, pos, {})) /\ item' = item + 1 /\ pc' = pc
         \/ pc' = "panicked" /\ lines' = lines /\ item' = item
  BY DEF ReadIndexed
<1>2. CASE lines' = Append(lines, Line(it.name, 0, pos, {})) /\ item' = item + 1 /\ pc' = pc
  <2> DEFINE l == Line(it.name, 0, pos, {})
  <2>1. l.name = it.name /\ l.index = 0 /\ l.names = {} /\ l.at = pos BY DEF Line
  <2>2. lines' = Append(lines, l) BY <1>2
  <2> HIDE DEF l
  <2> QED BY <1>1, <1>2, <2>1, <2>2, TellLine DEF Scalars
<1>3. CASE pc' = "panicked" /\ lines' = lines /\ item' = item BY <1>1, <1>3, TellStays
<1> QED BY <1>1, <1>2, <1>3

LEMMA TellRest == ASSUME Server, ToldSoFar, NEW it \in NextItems, ShowRest(it) PROVE ToldSoFar'
<1>1. /\ it.kind = "rest" /\ item' = item + 1 /\ job' = job /\ elem' = elem /\ pc' = pc
      /\ \/ lines' = Append(lines, Line(it.name, 0, pos, {}))
         \/ lines' = lines
  BY DEF ShowRest
<1>2. CASE lines' = Append(lines, Line(it.name, 0, pos, {}))
  <2> DEFINE l == Line(it.name, 0, pos, {})
  <2>1. l.name = it.name /\ l.index = 0 /\ l.names = {} /\ l.at = pos BY DEF Line
  <2>2. lines' = Append(lines, l) BY <1>2
  <2> HIDE DEF l
  <2> QED BY <1>1, <1>2, <2>1, <2>2, TellLine DEF Scalars
<1>3. CASE lines' = lines BY <1>1, <1>3, TellSilent DEF Telling
<1> QED BY <1>1, <1>2, <1>3

LEMMA TellInit == Init => ToldSoFar
<1> SUFFICES ASSUME Init, Regular(job), Parser # <<>>
             PROVE  Tells(job, item, elem, Range(lines)) /\ pc # "done" /\ lines = <<>>
  BY DEF ToldSoFar
<1>1. job \in Jobs /\ item = 1 /\ elem = 0 /\ lines = <<>> /\ pc = "start" BY DEF Init
<1>2. Range(lines) = {} BY <1>1 DEF Range
<1>3. \A k \in Written(ProgramOf(job), Layout(job)) : k \in Nat /\ k >= 1 /\ ~(k < item)
  BY <1>1 DEF Written
<1>4. ASSUME NEW k \in Written(ProgramOf(job), Layout(job)) PROVE ArrayLines(job, k, 1, 0) = {}
  <2>1. ReadOf(job, k, 1, 0) = 0 /\ ~(k < 1) BY <1>1, <1>3 DEF ReadOf
  <2>2. 0 .. (0 - 1) = {} OBVIOUS
  <2> QED BY <2>1, <2>2 DEF ArrayLines
<1> QED BY <1>1, <1>2, <1>3, <1>4 DEF Tells

LEMMA DoneStays == ASSUME ToldSoFar, UNCHANGED <<job, pc, item, elem, lines>> PROVE ToldSoFar'
<1>1. Parser' = Parser BY DEF Parser
<1> QED BY <1>1 DEF ToldSoFar

LEMMA TellStep == Describing /\ Laying /\ ToldSoFar /\ [Next]_vars => ToldSoFar'
<1> SUFFICES ASSUME Describing, Laying, ToldSoFar, [Next]_vars PROVE ToldSoFar' OBVIOUS
<1>1. CASE Begin
  <2>1. CASE Regular(job) /\ Parser # <<>> /\ job.len # 0
    <3>2. pc' = "reading" /\ lines' = <<>> /\ UNCHANGED <<job, item, elem>> /\ pc = "start"
      BY <1>1, <2>1 DEF Begin
    <3>3. lines' = lines BY <2>1, <3>2 DEF ToldSoFar
    <3> QED BY <3>2, <3>3, TellStays
  <2>2. CASE ~(Regular(job) /\ Parser # <<>> /\ job.len # 0)
    <3>1. job' = job BY <1>1 DEF Begin
    <3>2. ~(Regular(job) /\ Parser # <<>> /\ job.len # 0)' BY <2>2, <3>1 DEF Parser
    <3> QED BY <3>2 DEF ToldSoFar
  <2> QED BY <2>1, <2>2
<1>2. CASE \E it \in NextItems : ReadItem(it)
  <2>1. PICK it \in NextItems : ReadItem(it) BY <1>2
  <2>2. CASE Server
    BY <2>1, <2>2, TellNumber, TellTimestamp, TellControl, TellSkip, TellBranch, TellElement,
        TellEnd, TellCstr, TellSized, TellName, TellIndexed, TellRest DEF ReadItem
  <2>3. CASE ~Server
    <3>1. job' = job
      BY <2>1 DEF ReadItem, ReadNumber, ReadTimestamp, ReadControl, Skip, Branch, ReadElement,
          EndArray, ReadCstr, ShowSized, ShowName, ReadIndexed, ShowRest
    <3>2. ~(Regular(job) /\ Parser # <<>> /\ job.len # 0) /\ Parser' = Parser BY <2>3, <3>1 DEF Server, Parser
    <3> QED BY <3>1, <3>2 DEF ToldSoFar
  <2> QED BY <2>2, <2>3
<1>3. CASE Finish
  <2>1. item = Len(Parser) + 1
    <3>1. item > Len(Parser) /\ item \in 1 .. Len(Parser) + 1 /\ Len(Parser) \in Nat
      BY <1>3 DEF Finish, Describing
    <3> QED BY <3>1
  <2> QED BY <1>3, <2>1, TellStays DEF Finish
<1>4. CASE Stop BY <1>4, DoneStays DEF Stop, vars
<1>5. CASE UNCHANGED vars BY <1>5, DoneStays DEF vars
<1> QED BY <1>1, <1>2, <1>3, <1>4, <1>5 DEF Next

\* Of the items before the next, those of a part that is not there are not written.
LEMMA PartPast ==
  ASSUME Server, NEW it \in NextItems, Branch(it), ~Holds(it.cond),
         NEW k \in Written(ProgramOf(job), Layout(job)), k < item'
  PROVE  k < item
<1> DEFINE e == item + it.jump
<1>1. it.kind = "if" /\ item' = item + 1 + it.jump BY DEF Branch
<1>2. /\ job \in Jobs /\ Regular(job) /\ ProgramOf(job) # <<>> /\ Parser = ProgramOf(job)
      /\ item \in 1 .. Len(Parser) /\ Len(Parser) \in Nat /\ it = ProgramOf(job)[item]
      /\ Layout(job)[item] \in Spot /\ item > Layout(job)[item].without /\ it.jump \in Nat
  BY <1>1, ItemLaid DEF Server, Step
<1>3. ~Has(it.cond, job.info, job.value) BY <1>1, HoldsIs
<1>4. \A m \in item + 1 .. e + 1 : Layout(job)[m] = Layout(job)[item + 1]
  BY <1>1, <1>2, <1>3, PartSkipped
<1>5. Layout(job)[item + 1].without = e BY <1>1, <1>2, <1>3, SpotAfter
<1>6. k # item /\ k > Layout(job)[k].without /\ k \in Nat BY <1>1, <1>2 DEF Written
<1> SUFFICES ASSUME ~(k < item) PROVE FALSE OBVIOUS
<1>7. k \in item + 1 .. e + 1 /\ k <= e BY <1>1, <1>2, <1>6
<1> QED BY <1>4, <1>5, <1>6, <1>7, <1>2

\* What the arrays so far were counted by is known to the end.
Kept ==
  Regular(job) /\ Parser # <<>> /\ job.len # 0 =>
    \A k \in Written(ProgramOf(job), Layout(job)) :
      k < item /\ ProgramOf(job)[k].kind = "array" => ProgramOf(job)[k].of \subseteq DOMAIN got

LEMMA KeptInit == Init => Kept
<1> SUFFICES ASSUME Init, NEW k \in Written(ProgramOf(job), Layout(job)), k < item PROVE FALSE
  BY DEF Kept
<1>1. item = 1 /\ k \in Nat /\ k >= 1 BY DEF Init, Written
<1> QED BY <1>1

LEMMA KeptStays == ASSUME Kept, UNCHANGED <<job, item, got>> PROVE Kept'
<1>1. Parser' = Parser BY DEF Parser
<1> QED BY <1>1 DEF Kept

LEMMA KeptStep == Describing /\ Laying /\ Kept /\ [Next]_vars => Kept'
<1> SUFFICES ASSUME Describing, Laying, Kept, [Next]_vars PROVE Kept' OBVIOUS
<1>1. CASE Begin BY <1>1, KeptStays DEF Begin
<1>2. CASE \E it \in NextItems : ReadItem(it)
  <2>1. PICK it \in NextItems : ReadItem(it) BY <1>2
  <2>2. CASE Server
    <3>1. job' = job /\ DOMAIN got \subseteq DOMAIN got'
      <4>1. CASE ReadControl(it)
        <5>1. PICK v \in Values(it) :
                got' = [n \in DOMAIN got \cup {it.name} |-> IF n = it.name THEN v ELSE got[n]]
          BY <4>1 DEF ReadControl
        <5>2. job' = job BY <4>1 DEF ReadControl
        <5> QED BY <5>1, <5>2
      <4>2. CASE ~ReadControl(it)
        <5>1. job' = job /\ got' = got
          BY <2>1, <4>2 DEF ReadItem, ReadNumber, ReadTimestamp, Skip, Branch, ReadElement,
              EndArray, ReadCstr, ShowSized, ShowName, ReadIndexed, ShowRest
        <5> QED BY <5>1
      <4> QED BY <4>1, <4>2
    <3>2. /\ item \in Nat /\ item \in 1 .. Len(Parser) /\ it = ProgramOf(job)[item]
      BY ItemLaid, <2>2
    <3>3. ASSUME NEW k \in Written(ProgramOf(job), Layout(job)), k < item'
          PROVE  k < item \/ (k = item /\ it.kind # "if")
      <4>1. k \in Nat /\ (k = item => it.kind # "if") BY <3>2 DEF Written
      <4>2. CASE Branch(it) /\ ~Holds(it.cond) BY <2>2, <3>3, <4>2, PartPast
      <4>3. CASE ~(Branch(it) /\ ~Holds(it.cond))
        <5>1. item' = item \/ item' = item + 1
          BY <2>1, <4>3 DEF ReadItem, ReadNumber, ReadTimestamp, ReadControl, Skip, Branch,
              ReadElement, EndArray, ReadCstr, ShowSized, ShowName, ReadIndexed, ShowRest
        <5> QED BY <3>2, <3>3, <4>1, <5>1
      <4> QED BY <4>2, <4>3
    <3>4. it.kind = "array" => it.of \subseteq DOMAIN got
      <4> SUFFICES ASSUME it.kind = "array" PROVE it.of \subseteq DOMAIN got OBVIOUS
      <4>1. \/ \E c \in Known(job)[item] : it.of = {c}
            \/ it.of = {"xcnt", "subxcnt"} /\ {"xcnt", "subxcnt"} \subseteq Known(job)[item]
        BY <2>2, ItemLaid DEF Step
      <4>2. Known(job)[item] \subseteq DOMAIN got BY <2>2 DEF Server, Describing, Counted
      <4> QED BY <4>1, <4>2
    <3>5. Parser' = Parser BY <3>1 DEF Parser
    <3>6. \A k \in Written(ProgramOf(job), Layout(job)) :
             k < item /\ ProgramOf(job)[k].kind = "array" => ProgramOf(job)[k].of \subseteq DOMAIN got
      BY <2>2 DEF Kept, Server
    <3>7. ASSUME NEW k \in Written(ProgramOf(job), Layout(job)), k < item', ProgramOf(job)[k].kind = "array"
          PROVE  ProgramOf(job)[k].of \subseteq DOMAIN got'
      <4>1. CASE k < item
        <5>1. ProgramOf(job)[k].of \subseteq DOMAIN got BY <3>6, <3>7, <4>1
        <5> QED BY <3>1, <5>1
      <4>2. CASE k = item BY <3>1, <3>2, <3>4, <3>7, <4>2
      <4> QED BY <3>3, <3>7, <4>1, <4>2
    <3> QED BY <3>1, <3>5, <3>7 DEF Kept
  <2>3. CASE ~Server
    <3>1. job' = job
      BY <2>1 DEF ReadItem, ReadNumber, ReadTimestamp, ReadControl, Skip, Branch, ReadElement,
          EndArray, ReadCstr, ShowSized, ShowName, ReadIndexed, ShowRest
    <3>2. ~(Regular(job) /\ Parser # <<>> /\ job.len # 0) /\ Parser' = Parser BY <2>3, <3>1 DEF Server, Parser
    <3> QED BY <3>1, <3>2 DEF Kept
  <2> QED BY <2>2, <2>3
<1>3. CASE Finish BY <1>3, KeptStays DEF Finish
<1>4. CASE Stop BY <1>4, KeptStays DEF Stop, vars
<1>5. CASE UNCHANGED vars BY <1>5, KeptStays DEF vars
<1> QED BY <1>1, <1>2, <1>3, <1>4, <1>5 DEF Next

\* Without a parser, and of an empty payload, there are only notes.
Untold ==
  /\ pc = "reading" => Parser # <<>> /\ job.len # 0
  /\ (Parser = <<>> \/ job.len = 0) /\ pc = "done" =>
       \A i \in DOMAIN lines : lines[i] \in {Note("no main data"), Note("bytes")}

LEMMA UntoldStep == Untold /\ [Next]_vars => Untold'
<1> SUFFICES ASSUME Untold, [Next]_vars PROVE Untold' OBVIOUS
<1>1. job' = job /\ Parser' = Parser
  <2>1. job' = job
    BY DEF Next, vars, Begin, Finish, Stop, ReadItem, ReadNumber, ReadTimestamp, ReadControl,
        Skip, Branch, ReadElement, EndArray, ReadCstr, ShowSized, ShowName, ReadIndexed, ShowRest
  <2> QED BY <2>1 DEF Parser
<1>2. CASE Begin
  <2>1. CASE job.len = 0 \/ Parser = <<>>
    <3>1. pc' = "done" /\ lines' \in {<<>>, <<Note("no main data")>>, <<Note("bytes")>>}
      BY <1>2, <2>1 DEF Begin
    <3>2. \A i \in DOMAIN lines' : lines'[i] \in {Note("no main data"), Note("bytes")}
      <4> DEFINE a == Note("no main data")
                 b == Note("bytes")
      <4>1. lines' \in {<<>>, <<a>>, <<b>>} BY <3>1
      <4> HIDE DEF a, b
      <4>2. \A i \in DOMAIN lines' : lines'[i] \in {a, b}
        <5>1. CASE lines' = <<>> BY <5>1
        <5>2. CASE lines' = <<a>> BY <5>2
        <5>3. CASE lines' = <<b>> BY <5>3
        <5> QED BY <4>1, <5>1, <5>2, <5>3
      <4> QED BY <4>2 DEF a, b
    <3>3. Note("no main data")' = Note("no main data") /\ Note("bytes")' = Note("bytes")
      BY DEF Note, Line, NOWHERE
    <3> QED BY <3>1, <3>2, <3>3 DEF Untold
  <2>2. CASE ~(job.len = 0 \/ Parser = <<>>) BY <1>1, <1>2, <2>2 DEF Begin, Untold
  <2> QED BY <2>1, <2>2
<1>3. CASE \E it \in NextItems : ReadItem(it)
  <2>1. pc = "reading" BY <1>3 DEF NextItems
  <2>2. Parser # <<>> /\ job.len # 0 BY <2>1 DEF Untold
  <2> QED BY <1>1, <2>2 DEF Untold
<1>4. CASE Finish BY <1>1, <1>4 DEF Finish, Untold
<1>5. CASE Stop BY <1>1, <1>5 DEF Stop, vars, Untold, Note, Line, NOWHERE
<1>6. CASE UNCHANGED vars BY <1>1, <1>6 DEF vars, Untold, Note, Line, NOWHERE
<1> QED BY <1>2, <1>3, <1>4, <1>5, <1>6 DEF Next

Shows == Describing /\ Laying /\ ToldSoFar /\ Kept /\ Untold

LEMMA AlwaysShows == Spec => []Shows
<1>1. Init => Shows
  <2>1. Init => Untold BY DEF Init, Untold
  <2> QED BY <2>1, DescribingInit, LayingInit, TellInit, KeptInit DEF Shows
<1>2. Shows /\ [Next]_vars => Shows'
  BY DescribingStep, LayingStep, TellStep, KeptStep, UntoldStep DEF Shows
<1> QED BY <1>1, <1>2, PTL DEF Spec

\* The line of a finished description is about an item that was written.
LEMMA ToldAtEnd ==
  ASSUME Shows, Regular(job), Parser # <<>>, job.len # 0, pc = "done", NEW i \in DOMAIN lines
  PROVE  \E k \in Written(ProgramOf(job), Layout(job)) : Told(job, lines[i], k)
<1>1. lines[i] \in Range(lines) BY DEF Range
<1>2. Tells(job, item, elem, Range(lines)) BY DEF Shows, ToldSoFar
<1> QED BY <1>1, <1>2 DEF Tells

LEMMA ReadPast == ASSUME NEW j, Regular(j), ProgramOf(j) # <<>>, ReadThrough(j) PROVE GapsLast(j)
<1> DEFINE p == ProgramOf(j)
           s == MembersOf(j)
           w == Layout(j)
<1>1. UnreadLast(s, j.value, w) BY DEF ReadThrough, MembersOf, Layout
<1>2. /\ Len(p) \in Nat /\ Len(s) \in {Len(p), Len(p) + 1, Len(p) + 2}
      /\ \A k \in 1 .. Len(p) : s[k].kind = "if" <=> p[k].kind = "if"
      /\ \A k \in 1 .. Len(p) : p[k].kind # "if" => Pair(s[k], p[k])
  BY LayoutTurns
<1> HIDE DEF p, s, w
<1>3. ASSUME NEW m \in Written(p, w) PROVE m \in Written(s, w)
  <2>1. m \in 1 .. Len(p) /\ p[m].kind \notin {"if", "skip"} /\ m > w[m].without BY DEF Written
  <2>2. s[m].kind \notin {"if", "skip"} BY <1>2, <2>1, PairIs
  <2>3. m \in 1 .. Len(s) BY <1>2, <2>1
  <2> QED BY <2>1, <2>2, <2>3 DEF Written
<1>4. ASSUME NEW k \in 1 .. Len(p), p[k].kind = "if", k > w[k].without, Gap(j, k) # 0,
             NEW m \in Written(p, w)
      PROVE  m < k
  <2>1. s[k].kind = "if" /\ k \in 1 .. Len(s) /\ InFront(s[k], j.value) # 0
    BY <1>2, <1>4 DEF Gap, s
  <2> QED BY <1>1, <1>3, <1>4, <2>1 DEF UnreadLast
<1> QED BY <1>4 DEF GapsLast, p, w

LEMMA SeqDomain == ASSUME NEW s, IsSeq(s) PROVE DOMAIN s = 1 .. Len(s)
<1>1. PICK V : s \in Seq(V) BY DEF IsSeq
<1> QED BY <1>1, LenProperties

(***************************************************************************)
(* Of whatever payload that a server wrote and that is read through, every *)
(* line of a finished description carries the byte where the structure of  *)
(* the record has the field it names, and every element of an array its    *)
(* own: the parsers read what Structures says that is written.             *)
(***************************************************************************)
THEOREM LinesPointAtFields == Spec => [](ReadThrough(job) => FieldsAreWritten)
<1>1. ASSUME Shows, ReadThrough(job) PROVE FieldsAreWritten
  <2> DEFINE rests == {it.name : it \in {it \in Range(Parser) : it.kind = "rest"}}
  <2> SUFFICES ASSUME job.intact, pc = "done", NEW i \in DOMAIN lines,
                      lines[i].more = 0, lines[i].name \notin rests \cup {"bytes", "no main data"}
               PROVE  /\ <<lines[i].name, lines[i].index>> \in DOMAIN job.place
                      /\ lines[i].at = job.place[<<lines[i].name, lines[i].index>>]
    BY DEF FieldsAreWritten
  <2>1. Parser # <<>> /\ job.len # 0
    <3> SUFFICES ASSUME Parser = <<>> \/ job.len = 0 PROVE FALSE OBVIOUS
    <3>1. lines[i] \in {Note("no main data"), Note("bytes")} BY <1>1 DEF Shows, Untold
    <3>2. Note("no main data").name = "no main data" /\ Note("bytes").name = "bytes"
      BY DEF Note, Line
    <3>3. lines[i].name \in {"bytes", "no main data"} BY <3>1, <3>2
    <3> QED BY <3>3
  <2>10. Regular(job) BY <1>1 DEF ReadThrough, Regular
  <2>2. PICK k \in Written(ProgramOf(job), Layout(job)) : Told(job, lines[i], k)
    BY <1>1, <2>1, <2>10, ToldAtEnd
  <2> DEFINE it == ProgramOf(job)[k]
             l == lines[i]
  <2>3. job \in Jobs /\ Parser = ProgramOf(job) /\ ProgramOf(job) # <<>>
    BY <1>1, <2>1, MostIs DEF Shows, Describing
  <2>4. IsSeq(ProgramOf(job)) /\ PlacesAre(ProgramOf(job), job.value, Layout(job), job.place)
    BY <2>3, <2>10, ServerWrites
  <2>5. k \in DOMAIN ProgramOf(job)
    <3>1. DOMAIN ProgramOf(job) = 1 .. Len(ProgramOf(job)) BY <2>4, SeqDomain
    <3>2. k \in 1 .. Len(ProgramOf(job)) BY DEF Written
    <3> QED BY <3>1, <3>2
  <2>6. it.kind # "rest"
    <3>1. l.name = it.name BY <2>2 DEF Told
    <3> QED BY <2>3, <2>5, <3>1 DEF Range
  <2>7. GapsLast(job) BY <1>1, <2>3, <2>10, ReadPast
  <2>8. /\ l.name = it.name /\ l.index \in 0 .. (Elements(it, job.value) - 1)
        /\ l.at = Offset(it, Layout(job)[k]) + l.index * Stride(it)
    BY <2>2, <2>6, <2>7 DEF Told
  <2>9. /\ <<it.name, l.index>> \in DOMAIN job.place
        /\ job.place[<<it.name, l.index>>] = Offset(it, Layout(job)[k]) + l.index * Stride(it)
    BY <2>4, <2>6, <2>8 DEF PlacesAre
  <2> QED BY <2>8, <2>9
<1> QED BY <1>1, AlwaysShows, PTL

(***************************************************************************)
(* The date and time that a line shows (read_timestamp of the commit, the  *)
(* prepared transaction, the restore point) is the one the server wrote in *)
(* a payload that is read through.                                         *)
(***************************************************************************)
THEOREM TimestampsAreRight == Spec => [](ReadThrough(job) => TimestampIsRight)
<1>1. ASSUME Shows, ReadThrough(job) PROVE TimestampIsRight
  <2> DEFINE times == {it.name : it \in {it \in Range(Parser) : it.kind = "time"}}
  <2> SUFFICES ASSUME job.intact, pc = "done", NEW i \in DOMAIN lines, lines[i].name \in times
               PROVE  lines[i].moment = job.value[lines[i].name]
    BY DEF TimestampIsRight
  <2>1. PICK m \in DOMAIN Parser : Parser[m].kind = "time" /\ Parser[m].name = lines[i].name
    BY DEF Range
  <2>11. Regular(job) BY <1>1 DEF ReadThrough, Regular
  <2>2. Parser # <<>> BY <2>1
  <2>12. job.len # 0
    <3> SUFFICES ASSUME job.len = 0 PROVE FALSE OBVIOUS
    <3>1. lines[i] \in {Note("no main data"), Note("bytes")} BY <1>1 DEF Shows, Untold
    <3>2. lines[i].name \in {"no main data", "bytes"}
      <4>1. Note("no main data").name = "no main data" /\ Note("bytes").name = "bytes" BY DEF Note, Line
      <4>2. lines[i] = Note("no main data") \/ lines[i] = Note("bytes") BY <3>1
      <4> HIDE DEF Note
      <4> QED BY <4>1, <4>2
    <3>3. IsSeq(Parser) /\ Fits(Parser, Marks(job)) BY <1>1, ProgramFlows, MostIs, MarksFit DEF Shows, Describing
    <3>4. Form(Parser[m]) BY <2>1, <3>3 DEF Fits, IsSeq
    <3>5. Parser[m].name \in TimeNames BY <2>1, <3>4 DEF Form
    <3> QED BY <2>1, <3>2, <3>5 DEF TimeNames
  <2>3. PICK k \in Written(ProgramOf(job), Layout(job)) : Told(job, lines[i], k)
    BY <1>1, <2>2, <2>11, <2>12, ToldAtEnd
  <2>4. job \in Jobs /\ Parser = ProgramOf(job) /\ ProgramOf(job) # <<>>
    BY <1>1, <2>2, MostIs DEF Shows, Describing
  <2>5. IsSeq(ProgramOf(job)) /\ Fits(ProgramOf(job), Marks(job)) BY <2>4, <2>11, ServerWrites
  <2>6. m \in 1 .. Len(ProgramOf(job)) /\ k \in 1 .. Len(ProgramOf(job))
    BY <2>4, <2>5 DEF Written, IsSeq
  <2>7. Form(ProgramOf(job)[m]) /\ Form(ProgramOf(job)[k]) BY <2>5, <2>6 DEF Fits
  <2>8. lines[i].name = ProgramOf(job)[k].name BY <2>3 DEF Told
  <2>9. ProgramOf(job)[k].kind = "time" BY <2>1, <2>4, <2>7, <2>8 DEF Form
  <2>10. GapsLast(job) BY <1>1, <2>4, <2>11, ReadPast
  <2> QED BY <2>3, <2>8, <2>9, <2>10 DEF Told
<1> QED BY <1>1, AlwaysShows, PTL

\* The programs that are mistaken for a structure have no arrays and no flags.
Lone(p) ==
  /\ IsSeq(p)
  /\ \A k \in 1 .. Len(p) : p[k].kind # "array" /\ (p[k].kind = "if" => p[k].cond.on # "bits")

LEMMA LonePlain == ASSUME NEW p, NEW n, Plain(p, n) PROVE Lone(p)
<1>1. n \in Nat /\ IsSeq(p) /\ Len(p) = n BY SeqIs DEF Plain
<1>2. \A k \in 1 .. n : p[k].kind # "array" /\ p[k].kind # "if" BY DEF Plain, Simple
<1> QED BY <1>1, <1>2 DEF Lone

LEMMA LoneJoin == ASSUME NEW p, NEW q, Lone(p), Lone(q) PROVE Lone(p \o q)
<1> DEFINE r == p \o q
           l == Len(p)
           m == Len(q)
           Ok(x) == x.kind # "array" /\ (x.kind = "if" => x.cond.on # "bits")
<1>1. /\ IsSeq(r) /\ Len(r) = l + m /\ l \in Nat /\ m \in Nat
      /\ \A k \in 1 .. l : r[k] = p[k]
      /\ \A k \in 1 .. m : r[l + k] = q[k]
  BY SeqJoin, SeqLen DEF Lone
<1>2. (\A k \in 1 .. l : Ok(p[k])) /\ \A k \in 1 .. m : Ok(q[k]) BY DEF Lone
<1> HIDE DEF r, l, m, Ok
<1>3. ASSUME NEW k \in 1 .. l + m PROVE Ok(r[k])
  <2>1. CASE k \in 1 .. l BY <1>1, <1>2, <2>1
  <2>2. CASE k \notin 1 .. l
    <3>1. k - l \in 1 .. m /\ k = l + (k - l) BY <1>1, <2>2
    <3>2. PICK i \in 1 .. m : k = l + i BY <3>1
    <3> QED BY <1>1, <1>2, <3>2
  <2> QED BY <2>1, <2>2
<1>4. Lone(r) BY <1>1, <1>3 DEF Lone, Ok
<1> QED BY <1>4 DEF r

LEMMA LoneIf == ASSUME NEW c, c.on # "bits", NEW p, Lone(p) PROVE Lone(If(c, p))
<1> DEFINE it == [kind |-> "if", name |-> "part", width |-> 0, cond |-> c, jump |-> Len(p)]
<1>1. If(c, p) = <<it>> \o p /\ it.cond = c /\ it.kind = "if" BY DEF If
<1> HIDE DEF it
<1>2. Lone(<<it>>) BY <1>1, SeqOne DEF Lone
<1> QED BY <1>1, <1>2, LoneJoin

LEMMA MistakenIsLone ==
  ASSUME NEW j, <<j.rmgr, from_xl_info(j.rmgr, j.info)>> \in Mistaken
  PROVE  Lone(ProgramOf(j))
<1> DEFINE op == from_xl_info(j.rmgr, j.info)
           x == rest("subxids", 4, FALSE)
           p == <<time("timestamp"), u16("nodeid"), skip(2), u32("mainxid"), x>>
           c == Room(14)
<1>1. ProgramOf(j) = IF j.block = MAIN THEN describe_main_data(j.rmgr, op)
                     ELSE describe_block_data(j.rmgr, op, j.block)
  BY DEF ProgramOf, ParserOf
<1>2. \/ j.rmgr = "Xact" /\ op = "PREPARE"
      \/ j.rmgr = "Btree" /\ op \in {"UNLINK_PAGE_META", "META_CLEANUP"}
      \/ j.rmgr = "CommitTs" /\ op = "ZEROPAGE"
  BY DEF Mistaken
<1>3. Lone(<<>>)
  <2>1. <<>> \in Seq({}) /\ Len(<<>>) = 0 OBVIOUS
  <2> QED BY <2>1 DEF Lone, IsSeq
<1>4. Lone(describe_xact_main.PREPARE)
  <2>1. Flat(describe_xact_main.PREPARE, 17, describe_xact_main.PREPARE, 17)
    BY Echoes DEF Flat, Tuple, describe_xact_main
  <2>2. \A k \in 1 .. 17 : describe_xact_main.PREPARE[k].kind # "array"
    BY DEF describe_xact_main, u8, u32, u64, time, unshown, skip, size, sized, Item
  <2>3. /\ describe_xact_main.PREPARE = [k \in 1 .. 17 |-> describe_xact_main.PREPARE[k]]
        /\ \A k \in 1 .. 17 : describe_xact_main.PREPARE[k].kind # "if"
    BY <2>1 DEF Flat, Tuple, Echo
  <2>4. IsSeq(describe_xact_main.PREPARE) /\ Len(describe_xact_main.PREPARE) = 17 BY <2>3, SeqIs
  <2> QED BY <2>2, <2>3, <2>4 DEF Lone
<1>5. Lone(parse_btree_metadata) /\ Lone(btree_unlink \o parse_btree_metadata)
  <2>1. Plain(parse_btree_metadata, 7) /\ Plain(btree_unlink, 8)
    BY SimpleReads DEF Plain, parse_btree_metadata, btree_unlink
  <2> QED BY <2>1, LonePlain, LoneJoin
<1>6. Lone(If(c, p))
  <2>1. Simple(x) /\ c.on # "bits" BY DEF Simple, rest, Room
  <2> HIDE DEF c, x
  <2>2. Plain(p, 5) BY <2>1, SimpleReads DEF Plain
  <2> HIDE DEF p
  <2> QED BY <2>1, <2>2, LonePlain, LoneIf
<1>7. /\ describe_btree_main.UNLINK_PAGE_META = btree_unlink \o parse_btree_metadata
      /\ describe_btree_main.META_CLEANUP = parse_btree_metadata
      /\ describe_commit_ts_main.ZEROPAGE = If(c, p)
  BY DEF describe_btree_main, describe_commit_ts_main
<1> HIDE DEF c, p, x, op
<1>8. CASE j.rmgr = "Xact" /\ op = "PREPARE"
  <2>1. describe_main_data(j.rmgr, op) \in {<<>>, describe_xact_main.PREPARE}
    BY <1>8 DEF describe_main_data, Program
  <2>2. describe_block_data(j.rmgr, op, j.block) = <<>> BY <1>8 DEF describe_block_data
  <2> QED BY <1>1, <1>3, <1>4, <2>1, <2>2
<1>9. CASE j.rmgr = "Btree" /\ op \in {"UNLINK_PAGE_META", "META_CLEANUP"}
  <2>1. describe_main_data(j.rmgr, op) \in
          {<<>>, parse_btree_metadata, btree_unlink \o parse_btree_metadata}
    BY <1>7, <1>9 DEF describe_main_data, Program
  <2>2. describe_block_data(j.rmgr, op, j.block) = <<>> BY <1>9 DEF describe_block_data
  <2> QED BY <1>1, <1>3, <1>5, <2>1, <2>2
<1>10. CASE j.rmgr = "CommitTs" /\ op = "ZEROPAGE"
  <2>1. describe_main_data(j.rmgr, op) \in {<<>>, If(c, p)}
    BY <1>7, <1>10 DEF describe_main_data, Program
  <2>2. describe_block_data(j.rmgr, op, j.block) = <<>> BY <1>10 DEF describe_block_data
  <2> QED BY <1>1, <1>3, <1>6, <2>1, <2>2
<1> QED BY <1>2, <1>8, <1>9, <1>10

\* An empty payload holds no field.
LEMMA NothingInEmpty ==
  ASSUME NEW j \in Jobs, Regular(j), ProgramOf(j) # <<>>, j.len = 0
  PROVE  DOMAIN j.place = {}
BY PayloadAssumption DEF ProgramOf, Regular, LaidOut

LEMMA ElementsCounted ==
  ASSUME NEW j, NEW k, NEW n \in Nat
  PROVE  Cardinality({Element(j, k, i) : i \in 0 .. (n - 1)}) = n
<1> DEFINE S0 == 0 .. (n - 1)
           T == {Element(j, k, i) : i \in S0}
           f == [i \in S0 |-> Element(j, k, i)]
<1>1. \A i : Element(j, k, i).index = i BY DEF Element, Line
<1>2. f \in Bijection(S0, T)
  <2>1. f \in [S0 -> T] OBVIOUS
  <2>2. \A a, b \in S0 : f[a] = f[b] => a = b BY <1>1
  <2>3. \A t \in T : \E s \in S0 : f[s] = t OBVIOUS
  <2> HIDE DEF f, T, S0
  <2> QED BY <2>1, <2>2, <2>3, Fun_IsBij
<1>3. IsFiniteSet(S0) /\ Cardinality(S0) = n
  <2>1. 0 \in Int /\ n - 1 \in Int OBVIOUS
  <2>2. IsFiniteSet(S0) /\ Cardinality(S0) = IF 0 > n - 1 THEN 0 ELSE (n - 1) - 0 + 1
    BY <2>1, FS_Interval
  <2> QED BY <2>2
<1>4. ExistsBijection(S0, T) BY <1>2 DEF ExistsBijection
<1> HIDE DEF S0, T
<1>5. Cardinality(T) = Cardinality(S0) BY <1>3, <1>4, FS_Bijection
<1> QED BY <1>3, <1>5 DEF S0, T

LEMMA TwoCounts == Cardinality({"xcnt", "subxcnt"}) # 1
<1>1. IsFiniteSet({"xcnt"}) /\ Cardinality({"xcnt"}) = 1 BY FS_Singleton
<1>2. Cardinality({"xcnt"} \cup {"subxcnt"}) = 2 BY <1>1, FS_AddElement
<1>3. {"xcnt", "subxcnt"} = {"xcnt"} \cup {"subxcnt"} OBVIOUS
<1> QED BY <1>2, <1>3

(***************************************************************************)
(* The elements that an array shows and the "and n more" behind them are   *)
(* as many as the server wrote, whatever the cap of the parser.            *)
(***************************************************************************)
THEOREM ElementsAreCounted == Spec => []EveryElementCounted
<1>1. ASSUME Shows PROVE EveryElementCounted
  <2> SUFFICES ASSUME job.intact, pc = "done", NEW it \in Arrays, it.note # "none",
                      <<it.name, 0>> \in DOMAIN job.place
               PROVE  LET own  == {l \in Range(lines) : l.name = it.name}
                          more == {l \in own : l.more # 0}
                      IN  Total(it) = Cardinality(own \ more)
                                        + (IF more = {} THEN 0 ELSE (CHOOSE l \in more : TRUE).more)
    BY DEF EveryElementCounted
  <2> DEFINE own == {l \in Range(lines) : l.name = it.name}
             more == {l \in own : l.more # 0}
             p == ProgramOf(job)
             written == Written(p, Layout(job))
             tally == CountOf(it, job.value)
             n == Least(tally, it.cap)
  <2>1. PICK k \in DOMAIN Parser : Parser[k] = it /\ it.kind = "array" BY DEF Arrays, Range
  <2>2. Parser # <<>> BY <2>1
  <2>3. /\ job \in Jobs /\ Parser = p /\ p # <<>> /\ Regular(job) /\ job.len # 0
    <3>1. job \in Jobs /\ Parser = p /\ p # <<>> /\ IsSeq(p)
      BY <1>1, <2>2, MostIs, ProgramFlows DEF Shows, Describing
    <3>2. k \in 1 .. Len(p) /\ p[k].kind = "array" BY <2>1, <3>1 DEF IsSeq
    <3>3. ~Lone(p) BY <3>2 DEF Lone
    <3>4. Regular(job) BY <3>3, MistakenIsLone DEF Regular
    <3>5. job.len # 0 BY <3>1, <3>4, NothingInEmpty
    <3> QED BY <3>1, <3>4, <3>5
  <2>4. /\ IsSeq(p) /\ PlacesAre(p, job.value, Layout(job), job.place) /\ Len(p) \in Nat
        /\ \A m \in written : p[m].kind = "array" => CountOf(p[m], job.value) \in 0 .. (I32 \div 2 - 1)
        /\ \A m \in 1 .. Len(p) : Step(p[m], Known(job)[m], Known(job)[m + 1])
    BY <2>3, ServerWrites
  <2>5. k \in 1 .. Len(p) BY <2>1, <2>3, <2>4 DEF IsSeq
  <2>6. k \in written
    <3> DEFINE f == <<it.name, 0>>
    <3>1. PICK m \in written : p[m].name = f[1] BY <2>4 DEF PlacesAre
    <3>2. p[m].name = it.name /\ m \in 1 .. Len(p) BY <3>1 DEF Written
    <3>3. m = k BY <2>1, <2>3, <2>5, <3>2, OwnName
    <3> QED BY <3>3
  <2>7. tally \in Nat /\ tally < I32 \div 2 /\ it.cap \in Nat /\ n \in Nat
    <3>1. I32 \div 2 \in Int BY DescribeAssumption
    <3>2. tally \in 0 .. (I32 \div 2 - 1) BY <2>1, <2>3, <2>4, <2>6
    <3>3. it.cap \in Nat BY <2>1, <2>3, <2>4, <2>5 DEF Step
    <3> HIDE DEF tally
    <3> QED BY <3>1, <3>2, <3>3 DEF Least
  <2>8. item = Len(p) + 1 BY <1>1, <2>2, <2>3 DEF Shows, ToldSoFar
  <2>9. Total(it) = tally
    <3>1. it.of \subseteq DOMAIN got
      <4>1. k < item BY <2>4, <2>5, <2>8
      <4> QED BY <1>1, <2>1, <2>2, <2>3, <2>6, <4>1 DEF Shows, Kept
    <3>2. CountOf(it, got) = tally
      <4>1. \A x \in DOMAIN got : got[x] = job.value[x] BY <1>1, <2>2, <2>3 DEF Shows, Laying
      <4>2. \/ \E c \in Known(job)[k] : it.of = {c}
            \/ it.of = {"xcnt", "subxcnt"}
        BY <2>1, <2>3, <2>4, <2>5 DEF Step
      <4>3. CASE it.of = {"xcnt", "subxcnt"}
        <5>1. got["xcnt"] = job.value["xcnt"] /\ got["subxcnt"] = job.value["subxcnt"]
          BY <3>1, <4>1, <4>3
        <5>2. Cardinality(it.of) # 1 BY <4>3, TwoCounts
        <5> QED BY <5>1, <5>2 DEF CountOf
      <4>4. CASE \E c \in Known(job)[k] : it.of = {c}
        <5>1. PICK c : it.of = {c} BY <4>4
        <5>2. Cardinality(it.of) = 1 /\ (CHOOSE x \in it.of : TRUE) = c BY <5>1, FS_Singleton
        <5>3. got[c] = job.value[c] BY <3>1, <4>1, <5>1
        <5> QED BY <5>2, <5>3 DEF CountOf
      <4> QED BY <4>2, <4>3, <4>4
    <3>3. Signed(tally) = tally BY <2>7, Casts
    <3> QED BY <3>2, <3>3 DEF Total
  <2> DEFINE left == LeftOut(job, k)
             shown == {Element(job, k, i) : i \in 0 .. (n - 1)}
  <2>10. own = shown \cup left
    <3>1. Tells(job, item, elem, Range(lines)) BY <1>1, <2>2, <2>3 DEF Shows, ToldSoFar
    <3>2. {l \in Range(lines) : l.name = p[k].name} = ArrayLines(job, k, item, elem)
      BY <2>1, <2>3, <2>6, <3>1 DEF Tells
    <3>3. k < item BY <2>4, <2>5, <2>8
    <3>4. ReadOf(job, k, item, elem) = n BY <2>1, <2>3, <3>3 DEF ReadOf
    <3>5. ArrayLines(job, k, item, elem) = shown \cup left BY <3>3, <3>4 DEF ArrayLines
    <3> QED BY <2>1, <2>3, <3>2, <3>5
  <2>11. \A l \in shown : l.more = 0 BY DEF Element, Line
  <2>12. left = IF tally > it.cap THEN {More(it.name, tally - it.cap)} ELSE {}
    BY <2>1, <2>3 DEF LeftOut
  <2>13. \A l \in left : l.more # 0
    <3>1. \A x : More(it.name, x).more = x BY DEF More, Line
    <3> HIDE DEF tally
    <3> QED BY <2>7, <2>12, <3>1
  <2> HIDE DEF left, shown
  <2>14. more = left /\ own \ more = shown BY <2>10, <2>11, <2>13
  <2>15. Cardinality(shown) = n BY <2>7, ElementsCounted DEF shown
  <2> HIDE DEF more, own
  <2>16. CASE tally > it.cap
    <3> DEFINE last == More(it.name, tally - it.cap)
    <3>1. more = {last} /\ last.more = tally - it.cap BY <2>12, <2>14, <2>16 DEF More, Line
    <3> HIDE DEF last
    <3>2. (CHOOSE l \in more : TRUE) = last /\ more # {} BY <3>1
    <3>3. n = it.cap BY <2>7, <2>16 DEF Least
    <3> HIDE DEF n, tally
    <3>4. tally = n + (tally - it.cap) BY <2>7, <3>3
    <3> QED BY <2>9, <2>14, <2>15, <3>1, <3>2, <3>4 DEF more, own, tally
  <2>17. CASE ~(tally > it.cap)
    <3>1. n = tally /\ more = {} BY <2>7, <2>12, <2>14, <2>17 DEF Least
    <3> HIDE DEF n, tally
    <3>2. tally + 0 = tally BY <2>7
    <3> QED BY <2>9, <2>14, <2>15, <3>1, <3>2 DEF more, own, tally
  <2> QED BY <2>16, <2>17
<1> QED BY <1>1, AlwaysShows, PTL

-----------------------------------------------------------------------------
(* The flags and the parts they announce.                                  *)

(***************************************************************************)
(* What is written of a program, without where: all but what is in a part  *)
(* that is not there.                                                      *)
(***************************************************************************)
Lacks(p, j, info, value) == p[j].kind = "if" /\ ~Has(p[j].cond, info, value)
Held(p, k, info, value) ==
  \A j \in 1 .. Len(p) : k \in j + 1 .. j + p[j].jump => ~Lacks(p, j, info, value)

\* Parts are in the program, and the parts in them are in them as a whole.
Nested(p) ==
  \A j \in 1 .. Len(p) :
    p[j].kind = "if" =>
      /\ p[j].jump \in Nat /\ j + p[j].jump <= Len(p)
      /\ \A k \in j + 1 .. j + p[j].jump : p[k].kind = "if" => k + p[k].jump <= j + p[j].jump

\* Before item k: item m is in a part that is not there.
LeftOff(p, m, k, info, value) ==
  \E j \in 1 .. k - 1 : Lacks(p, j, info, value) /\ m <= j + p[j].jump
Skipping(p, w, k, info, value) ==
  /\ w[k].without \in Nat
  /\ \A m \in k .. Len(p) : m <= w[k].without <=> LeftOff(p, m, k, info, value)

\* One item further, what is left off is still what is in a part that is not there.
LEMMA SkippingStep ==
  ASSUME NEW p, NEW info, NEW value, NEW w, Nested(p), Len(p) \in Nat, NEW k \in 1 .. Len(p),
         Skipping(p, w, k, info, value),
         w[k + 1].without = IF k > w[k].without /\ Lacks(p, k, info, value) THEN k + p[k].jump
                            ELSE w[k].without
  PROVE  Skipping(p, w, k + 1, info, value)
<1> DEFINE a == Lacks(p, k, info, value)
           v == w[k].without
           e == k + p[k].jump
<1>1. w[k + 1].without = IF k > v /\ a THEN e ELSE v OBVIOUS
<1>2. a => p[k].jump \in Nat /\ e <= Len(p) BY DEF Nested, Lacks
<1>3. v \in Nat /\ \A m \in k .. Len(p) : m <= v <=> LeftOff(p, m, k, info, value) BY DEF Skipping
<1>4. \A m : LeftOff(p, m, k + 1, info, value) <=> LeftOff(p, m, k, info, value) \/ (a /\ m <= e)
  BY DEF LeftOff
<1>5. ASSUME NEW m \in k + 1 .. Len(p)
      PROVE  m <= w[k + 1].without <=> LeftOff(p, m, k + 1, info, value)
  <2>1. m <= v <=> LeftOff(p, m, k, info, value) BY <1>3
  <2>2. CASE ~a BY <1>1, <1>4, <2>1, <2>2
  <2>3. CASE a /\ k > v
    <3>1. ~(m <= v) BY <1>3, <2>3
    <3> QED BY <1>1, <1>4, <2>1, <2>3, <3>1
  <2>4. CASE a /\ ~(k > v)
    <3>1. k <= v BY <1>3, <2>4
    <3>2. PICK j \in 1 .. k - 1 : Lacks(p, j, info, value) /\ k <= j + p[j].jump
      BY <1>3, <3>1 DEF LeftOff
    <3>3. e <= j + p[j].jump BY <2>4, <3>2 DEF Nested, Lacks
    <3>4. p[j].jump \in Nat BY <3>2 DEF Nested, Lacks
    <3>5. a /\ m <= e => m <= j + p[j].jump BY <1>2, <3>3, <3>4
    <3>6. a /\ m <= e => LeftOff(p, m, k, info, value) BY <3>2, <3>5 DEF LeftOff
    <3> QED BY <1>1, <1>4, <2>1, <2>4, <3>6
  <2> QED BY <2>2, <2>3, <2>4
<1>6. w[k + 1].without \in Nat BY <1>1, <1>2, <1>3
<1> QED BY <1>1, <1>5, <1>6 DEF Skipping

\* ... at every item of the program.
LEMMA AlwaysSkipping ==
  ASSUME NEW j \in Jobs, Regular(j), ProgramOf(j) # <<>>, Nested(ProgramOf(j)),
         NEW n \in 1 .. Len(ProgramOf(j))
  PROVE  Skipping(ProgramOf(j), Layout(j), n, j.info, j.value)
<1> DEFINE p == ProgramOf(j)
           w == Layout(j)
           Ok(k) == Skipping(p, w, k, j.info, j.value)
           Bad == {k \in 1 .. Len(p) : ~Ok(k)}
<1>1. Len(p) \in Nat /\ w[1] = Spot0 /\ \A k \in 1 .. Len(p) + 1 : w[k] \in Spot
  BY ServerWrites, SpotsGrow
<1>2. Ok(1)
  <2>1. \A m : ~LeftOff(p, m, 1, j.info, j.value) BY DEF LeftOff
  <2>2. w[1].without = 0 BY <1>1 DEF Spot0
  <2> HIDE DEF w, p
  <2>3. \A m \in 1 .. Len(p) : ~(m <= 0) BY <1>1
  <2> QED BY <2>1, <2>2, <2>3 DEF Skipping
<1>3. ASSUME NEW k \in 1 .. Len(p), Ok(k) PROVE Ok(k + 1)
  <2>1. w[k] \in Spot /\ w[k].without \in Nat BY <1>1 DEF Spot
  <2>2. /\ k <= w[k].without => w[k + 1] = w[k]
        /\ k > w[k].without /\ p[k].kind = "skip" => w[k + 1] = w[k]
        /\ k > w[k].without /\ p[k].kind = "if" =>
             w[k + 1].without = IF Has(p[k].cond, j.info, j.value) THEN w[k].without
                                ELSE k + p[k].jump
        /\ k \in Written(p, w) => w[k + 1].without = w[k].without
    BY <2>1, SpotAfter
  <2>3. k \in Written(p, w) <=> k > w[k].without /\ p[k].kind \notin {"if", "skip"} BY DEF Written
  <2> HIDE DEF p, w
  <2>4. k <= w[k].without \/ k > w[k].without BY <1>1, <2>1
  <2>5. w[k + 1].without = IF k > w[k].without /\ Lacks(p, k, j.info, j.value) THEN k + p[k].jump
                           ELSE w[k].without
    BY <1>1, <2>1, <2>2, <2>3, <2>4 DEF Lacks
  <2> QED BY <1>1, <1>3, <2>5, SkippingStep DEF p
<1> SUFFICES ASSUME Bad # {} PROVE FALSE OBVIOUS
<1> HIDE DEF p, w, Ok
<1>4. PICK k \in Bad : \A l \in Bad : k <= l
  <2>1. Bad \subseteq Nat BY <1>1
  <2> HIDE DEF Bad
  <2> QED BY <2>1, LeastOf
<1>5. k # 1 /\ k \in 1 .. Len(p) /\ ~Ok(k) BY <1>2, <1>4
<1>6. k - 1 \in 1 .. Len(p) /\ (k - 1) + 1 = k /\ ~(k <= k - 1) BY <1>1, <1>5
<1>7. Ok(k - 1) BY <1>4, <1>6
<1>8. Ok((k - 1) + 1) BY <1>3, <1>6, <1>7
<1> QED BY <1>5, <1>6, <1>8

\* What the layout writes is what no condition around it leaves off.
LEMMA HeldIsWritten ==
  ASSUME NEW j \in Jobs, Regular(j), ProgramOf(j) # <<>>, Nested(ProgramOf(j))
  PROVE  Written(ProgramOf(j), Layout(j)) =
           {k \in 1 .. Len(ProgramOf(j)) : /\ ProgramOf(j)[k].kind \notin {"if", "skip"}
                                           /\ Held(ProgramOf(j), k, j.info, j.value)}
<1> DEFINE p == ProgramOf(j)
           w == Layout(j)
           info == j.info
           value == j.value
<1>1. ASSUME NEW k \in 1 .. Len(p) PROVE k > w[k].without <=> Held(p, k, info, value)
  <2>1. Len(p) \in Nat BY ServerWrites
  <2>2. Skipping(p, w, k, info, value) BY AlwaysSkipping
  <2>3. Nested(p) OBVIOUS
  <2> DEFINE v == w[k].without
  <2> HIDE DEF p, w, info, value
  <2>4. v \in Nat /\ (k <= v <=> LeftOff(p, k, k, info, value)) BY <2>1, <2>2 DEF Skipping
  <2> HIDE DEF v
  <2>5. k > v <=> ~LeftOff(p, k, k, info, value) BY <2>1, <2>4
  <2>6. ~LeftOff(p, k, k, info, value) <=> Held(p, k, info, value)
    <3>1. ASSUME NEW i \in 1 .. Len(p), Lacks(p, i, info, value)
          PROVE  k \in i + 1 .. i + p[i].jump <=> i \in 1 .. k - 1 /\ k <= i + p[i].jump
      <4>1. p[i].jump \in Nat BY <2>3, <3>1 DEF Nested, Lacks
      <4> QED BY <2>1, <4>1
    <3>2. \A i \in 1 .. k - 1 : i \in 1 .. Len(p) BY <2>1
    <3> QED BY <3>1, <3>2 DEF LeftOff, Held
  <2> QED BY <2>5, <2>6 DEF v
<1> HIDE DEF p, w, info, value
<1>2. Written(p, w) = {k \in 1 .. Len(p) : p[k].kind \notin {"if", "skip"} /\ Held(p, k, info, value)}
  BY <1>1 DEF Written
<1> QED BY <1>2 DEF p, w, info, value

\* In a concatenation, each of the two programs is held as it is alone.
LEMMA HeldJoin ==
  ASSUME NEW p, NEW q, NEW info, NEW value, IsSeq(p), IsSeq(q), Nested(p), Nested(q)
  PROVE  LET r == p \o q
         IN  /\ IsSeq(r) /\ Nested(r) /\ Len(r) = Len(p) + Len(q)
             /\ \A k \in 1 .. Len(p) : r[k] = p[k] /\ (Held(r, k, info, value) <=> Held(p, k, info, value))
             /\ \A k \in 1 .. Len(q) : /\ r[Len(p) + k] = q[k]
                                       /\ Held(r, Len(p) + k, info, value) <=> Held(q, k, info, value)
<1> DEFINE r == p \o q
           l == Len(p)
           n == Len(q)
<1>1. /\ IsSeq(r) /\ Len(r) = l + n /\ l \in Nat /\ n \in Nat
      /\ \A k \in 1 .. l : r[k] = p[k]
      /\ \A k \in 1 .. n : r[l + k] = q[k]
  BY SeqJoin, SeqLen
<1>2. \A j \in 1 .. l : p[j].kind = "if" => p[j].jump \in Nat /\ j + p[j].jump <= l BY DEF Nested
<1>3. \A j \in 1 .. n : q[j].kind = "if" => q[j].jump \in Nat /\ j + q[j].jump <= n BY DEF Nested
<1>4. \A j \in 1 .. l : /\ j \in 1 .. l + n
                        /\ Lacks(r, j, info, value) <=> Lacks(p, j, info, value)
  BY <1>1 DEF Lacks
<1>5. \A j \in 1 .. n : /\ l + j \in 1 .. l + n
                        /\ Lacks(r, l + j, info, value) <=> Lacks(q, j, info, value)
  BY <1>1 DEF Lacks
<1> HIDE DEF r, l, n
<1>6. \A j \in 1 .. l + n : j \in 1 .. l \/ \E i \in 1 .. n : j = l + i
  <2> SUFFICES ASSUME NEW j \in 1 .. l + n, j \notin 1 .. l PROVE j - l \in 1 .. n /\ j = l + (j - l)
    OBVIOUS
  <2> QED BY <1>1
<1>7. ASSUME NEW k \in 1 .. l PROVE Held(r, k, info, value) <=> Held(p, k, info, value)
  <2>1. \A j \in 1 .. n : k \notin l + j + 1 .. l + j + r[l + j].jump BY <1>1
  <2> QED BY <1>1, <1>4, <1>6, <2>1 DEF Held, l
<1>8. ASSUME NEW k \in 1 .. n PROVE Held(r, l + k, info, value) <=> Held(q, k, info, value)
  <2>1. ASSUME NEW j \in 1 .. l, Lacks(r, j, info, value)
        PROVE  l + k \notin j + 1 .. j + r[j].jump
    <3>1. p[j].jump \in Nat /\ j + p[j].jump <= l /\ r[j] = p[j] BY <1>1, <1>2, <1>4, <2>1 DEF Lacks
    <3> QED BY <1>1, <3>1
  <2>2. ASSUME NEW j \in 1 .. n, Lacks(r, l + j, info, value)
        PROVE  l + k \in l + j + 1 .. l + j + r[l + j].jump <=> k \in j + 1 .. j + q[j].jump
    <3> DEFINE d == q[j].jump
    <3>1. d \in Nat /\ r[l + j].jump = d BY <1>1, <1>3, <1>5, <2>2 DEF Lacks
    <3> HIDE DEF d
    <3>2. l + k \in l + j + 1 .. l + j + d <=> k \in j + 1 .. j + d BY <1>1, <3>1
    <3> QED BY <3>1, <3>2 DEF d
  <2>3. \A j \in 1 .. n : Lacks(r, l + j, info, value) <=> Lacks(q, j, info, value) BY <1>5
  <2>4. Held(r, l + k, info, value) <=>
          \A j \in 1 .. n : l + k \in l + j + 1 .. l + j + r[l + j].jump => ~Lacks(r, l + j, info, value)
    <3> DEFINE P(j) == l + k \in j + 1 .. j + r[j].jump => ~Lacks(r, j, info, value)
    <3>1. \A j \in 1 .. l : P(j) BY <2>1
    <3>2. Held(r, l + k, info, value) <=> \A j \in 1 .. l + n : P(j) BY <1>1 DEF Held
    <3>3. \A j \in 1 .. n : P(l + j) <=>
            (l + k \in l + j + 1 .. l + j + r[l + j].jump => ~Lacks(r, l + j, info, value))
      OBVIOUS
    <3> HIDE DEF P
    <3>4. (\A j \in 1 .. l + n : P(j)) <=> \A j \in 1 .. n : P(l + j) BY <1>5, <1>6, <3>1
    <3> QED BY <3>2, <3>3, <3>4
  <2>5. Held(q, k, info, value) <=>
          \A j \in 1 .. n : k \in j + 1 .. j + q[j].jump => ~Lacks(q, j, info, value)
    BY DEF Held, n
  <2> QED BY <2>2, <2>3, <2>4, <2>5
<1>9. Nested(r)
  <2> SUFFICES ASSUME NEW j \in 1 .. l + n, r[j].kind = "if"
               PROVE  /\ r[j].jump \in Nat /\ j + r[j].jump <= l + n
                      /\ \A k \in j + 1 .. j + r[j].jump :
                           r[k].kind = "if" => k + r[k].jump <= j + r[j].jump
    BY <1>1 DEF Nested
  <2>1. CASE j \in 1 .. l
    <3>1. /\ r[j] = p[j] /\ p[j].jump \in Nat /\ j + p[j].jump <= l
          /\ \A k \in j + 1 .. j + p[j].jump : p[k].kind = "if" => k + p[k].jump <= j + p[j].jump
      BY <1>1, <2>1 DEF Nested, l
    <3>2. \A k \in j + 1 .. j + p[j].jump : k \in 1 .. l BY <1>1, <2>1, <3>1
    <3> QED BY <1>1, <3>1, <3>2
  <2>2. CASE \E i \in 1 .. n : j = l + i
    <3>1. PICK i \in 1 .. n : j = l + i BY <2>2
    <3> DEFINE d == q[i].jump
    <3>2. /\ r[j] = q[i] /\ d \in Nat /\ i + d <= n
          /\ \A k \in i + 1 .. i + d : q[k].kind = "if" => k + q[k].jump <= i + d
      BY <1>1, <3>1 DEF Nested, n
    <3>3. ASSUME NEW k \in j + 1 .. j + d, r[k].kind = "if" PROVE k + r[k].jump <= j + d
      <4>1. k - l \in i + 1 .. i + d /\ k - l \in 1 .. n /\ k = l + (k - l) BY <1>1, <3>1, <3>2
      <4>2. PICK m \in i + 1 .. i + d : m \in 1 .. n /\ k = l + m BY <4>1
      <4>3. r[k] = q[m] BY <1>1, <4>2
      <4>4. m + q[m].jump <= i + d /\ q[m].jump \in Nat BY <1>3, <3>2, <3>3, <4>2, <4>3
      <4> DEFINE e == q[m].jump
      <4>5. m + e <= i + d /\ e \in Nat BY <4>4
      <4> HIDE DEF d, e
      <4>6. k + e <= j + d BY <1>1, <3>1, <3>2, <4>2, <4>5
      <4> QED BY <4>3, <4>6 DEF e
    <3> QED BY <1>1, <3>1, <3>2, <3>3
  <2> QED BY <1>6, <2>1, <2>2
<1> QED BY <1>1, <1>7, <1>8, <1>9 DEF r, l, n

\* In a part, the program is held as it is alone, if the part is there.
LEMMA HeldIf ==
  ASSUME NEW c, NEW p, NEW info, NEW value, IsSeq(p), Nested(p)
  PROVE  LET r == If(c, p)
         IN  /\ IsSeq(r) /\ Nested(r) /\ Len(r) = 1 + Len(p) /\ Len(p) \in Nat
             /\ r[1].kind = "if" /\ r[1].name = "part" /\ r[1].cond = c /\ r[1].jump = Len(p)
             /\ \A k \in 1 .. Len(p) :
                  /\ r[1 + k] = p[k]
                  /\ Held(r, 1 + k, info, value) <=> Has(c, info, value) /\ Held(p, k, info, value)
<1> DEFINE r == If(c, p)
           n == Len(p)
           it == [kind |-> "if", name |-> "part", width |-> 0, cond |-> c, jump |-> n]
<1>1. n \in Nat BY SeqLen
<1>2. IsSeq(<<it>>) /\ Len(<<it>>) = 1 /\ <<it>>[1] = it
  <2> HIDE DEF it
  <2>1. <<it>> \in Seq({it}) OBVIOUS
  <2> QED BY <2>1 DEF IsSeq
<1>3. r = <<it>> \o p BY DEF If
<1>4. it.kind = "if" /\ it.cond = c /\ it.jump = n /\ it.name = "part" OBVIOUS
<1> HIDE DEF it
<1>5. /\ IsSeq(<<it>> \o p) /\ Len(<<it>> \o p) = 1 + n
      /\ (<<it>> \o p)[1] = it
      /\ \A k \in 1 .. n : (<<it>> \o p)[1 + k] = p[k]
  BY <1>2, SeqJoin
<1> HIDE DEF n, r
<1>6. /\ IsSeq(r) /\ Len(r) = 1 + n /\ r[1] = it /\ \A k \in 1 .. n : r[1 + k] = p[k] BY <1>3, <1>5
<1>7. \A j \in 1 .. 1 + n : j = 1 \/ \E i \in 1 .. n : j = 1 + i
  <2> SUFFICES ASSUME NEW j \in 1 .. 1 + n, j # 1 PROVE j - 1 \in 1 .. n /\ j = 1 + (j - 1) OBVIOUS
  <2> QED BY <1>1
<1>8. \A j \in 1 .. n : p[j].kind = "if" => p[j].jump \in Nat /\ j + p[j].jump <= n BY DEF Nested, n
<1>9. ASSUME NEW k \in 1 .. n
      PROVE  Held(r, 1 + k, info, value) <=> Has(c, info, value) /\ Held(p, k, info, value)
  <2>1. ASSUME NEW j \in 1 .. n
        PROVE  /\ 1 + j \in 1 .. 1 + n
               /\ Lacks(r, 1 + j, info, value) <=> Lacks(p, j, info, value)
               /\ Lacks(p, j, info, value) =>
                    (1 + k \in 1 + j + 1 .. 1 + j + r[1 + j].jump <=> k \in j + 1 .. j + p[j].jump)
    <3>1. r[1 + j] = p[j] BY <1>6
    <3>2. Lacks(r, 1 + j, info, value) <=> Lacks(p, j, info, value) BY <3>1 DEF Lacks
    <3>3. Lacks(p, j, info, value) => p[j].jump \in Nat BY <1>8 DEF Lacks
    <3> QED BY <1>1, <3>1, <3>2, <3>3
  <2>2. /\ 1 \in 1 .. 1 + n /\ 1 + k \in 1 + 1 .. 1 + r[1].jump
        /\ Lacks(r, 1, info, value) <=> ~Has(c, info, value)
    BY <1>1, <1>4, <1>6 DEF Lacks
  <2>3. Held(r, 1 + k, info, value) <=>
          /\ Has(c, info, value)
          /\ \A j \in 1 .. n : 1 + k \in 1 + j + 1 .. 1 + j + r[1 + j].jump => ~Lacks(r, 1 + j, info, value)
    BY <1>6, <1>7, <2>1, <2>2 DEF Held
  <2>4. Held(p, k, info, value) <=>
          \A j \in 1 .. n : k \in j + 1 .. j + p[j].jump => ~Lacks(p, j, info, value)
    BY DEF Held, n
  <2> QED BY <2>1, <2>3, <2>4
<1>10. Nested(r)
  <2> SUFFICES ASSUME NEW j \in 1 .. 1 + n, r[j].kind = "if"
               PROVE  /\ r[j].jump \in Nat /\ j + r[j].jump <= 1 + n
                      /\ \A k \in j + 1 .. j + r[j].jump :
                           r[k].kind = "if" => k + r[k].jump <= j + r[j].jump
    BY <1>6 DEF Nested
  <2>1. CASE j = 1
    <3>1. ASSUME NEW k \in 2 .. 1 + n, r[k].kind = "if" PROVE k + r[k].jump <= 1 + n
      <4>1. PICK i \in 1 .. n : k = 1 + i BY <1>7, <1>1, <3>1
      <4> DEFINE d == p[i].jump
      <4>2. d \in Nat /\ i + d <= n /\ r[k].jump = d BY <1>6, <1>8, <3>1, <4>1
      <4> HIDE DEF d
      <4> QED BY <1>1, <4>1, <4>2
    <3> QED BY <1>1, <1>4, <1>6, <2>1, <3>1
  <2>2. CASE \E i \in 1 .. n : j = 1 + i
    <3>1. PICK i \in 1 .. n : j = 1 + i BY <2>2
    <3> DEFINE d == p[i].jump
    <3>2. /\ r[j] = p[i] /\ d \in Nat /\ i + d <= n
          /\ \A k \in i + 1 .. i + d : p[k].kind = "if" => k + p[k].jump <= i + d
      BY <1>6, <3>1 DEF Nested, n
    <3>3. ASSUME NEW k \in j + 1 .. j + d, r[k].kind = "if" PROVE k + r[k].jump <= j + d
      <4>1. k - 1 \in i + 1 .. i + d /\ k - 1 \in 1 .. n /\ k = 1 + (k - 1) BY <1>1, <3>1, <3>2
      <4>2. PICK m \in i + 1 .. i + d : m \in 1 .. n /\ k = 1 + m BY <4>1
      <4>3. r[k] = p[m] BY <1>6, <4>2
      <4> DEFINE e == p[m].jump
      <4>4. m + e <= i + d /\ e \in Nat BY <1>8, <3>2, <3>3, <4>2, <4>3
      <4> HIDE DEF d, e
      <4>5. k + e <= j + d BY <1>1, <3>1, <3>2, <4>2, <4>4
      <4> QED BY <4>3, <4>5 DEF e
    <3> QED BY <1>1, <3>1, <3>2, <3>3
  <2> QED BY <1>7, <2>1, <2>2
<1> QED BY <1>1, <1>4, <1>6, <1>9, <1>10 DEF r, n

\* The parts that a flag announces, and the flags that do.
Optional == {"2pc_xid", "dbId", "tsId", "nsubxacts", "nrels", "ninvals", "gid", "origin_lsn",
          "conflict_horizon", "t_hoff", "prefix_from_old", "suffix_from_old"}
Announcing == {"HAS_TWOPHASE", "HAS_DBINFO", "HAS_SUBXACTS", "HAS_RELFILELOCATORS", "HAS_INVALS",
          "HAS_GID", "HAS_ORIGIN", "HAS_CONFLICT_HORIZON", "CONTAINS_OLD_TUPLE",
          "CONTAINS_OLD_KEY", "PREFIX_FROM_OLD", "SUFFIX_FROM_OLD"}

\* What AnnouncedBy says of each of them.
LEMMA Announcements ==
  /\ DOMAIN AnnouncedBy = Optional
  /\ AnnouncedBy["2pc_xid"] = {"HAS_TWOPHASE"} /\ AnnouncedBy["dbId"] = {"HAS_DBINFO"}
  /\ AnnouncedBy["tsId"] = {"HAS_DBINFO"} /\ AnnouncedBy["nsubxacts"] = {"HAS_SUBXACTS"}
  /\ AnnouncedBy["nrels"] = {"HAS_RELFILELOCATORS"} /\ AnnouncedBy["ninvals"] = {"HAS_INVALS"}
  /\ AnnouncedBy["gid"] = {"HAS_GID"} /\ AnnouncedBy["origin_lsn"] = {"HAS_ORIGIN"}
  /\ AnnouncedBy["conflict_horizon"] = {"HAS_CONFLICT_HORIZON"}
  /\ AnnouncedBy["t_hoff"] = {"CONTAINS_OLD_TUPLE", "CONTAINS_OLD_KEY"}
  /\ AnnouncedBy["prefix_from_old"] = {"PREFIX_FROM_OLD"}
  /\ AnnouncedBy["suffix_from_old"] = {"SUFFIX_FROM_OLD"}
BY DEF AnnouncedBy, Optional

\* Part n is written, a line names flag w.
HasPart(p, n, info, value) ==
  \E k \in 1 .. Len(p) : /\ p[k].kind \notin {"if", "skip"} /\ p[k].name = n
                         /\ Held(p, k, info, value)
HasWord(p, w, info, value) ==
  \E k \in 1 .. Len(p) : /\ p[k].kind = "flags" /\ w \in Named(p[k].table, value[p[k].name])
                         /\ Held(p, k, info, value)
\* The parts are of kinds that always have a line.
AllTold(p) == \A k \in 1 .. Len(p) : p[k].name \in Optional => p[k].kind \in Telling
\* Part n is an item, in a part that depends on flags or in no matter which.
Mentions(p, n) == \E k \in 1 .. Len(p) : p[k].name = n
Flagged(p, n) ==
  \E j \in 1 .. Len(p) : /\ p[j].kind = "if" /\ p[j].cond.on = "bits"
                         /\ \E k \in j + 1 .. j + p[j].jump : p[k].name = n

(***************************************************************************)
(* What is written of program p are the parts S, what is named are the     *)
(* flags W; the parts that p has are among N, those under flags among U.   *)
(***************************************************************************)
Reveals(p, info, value, S, W, N, U) ==
  /\ IsSeq(p) /\ Nested(p)
  /\ \A n \in Optional :
       /\ HasPart(p, n, info, value) <=> n \in S
       /\ Mentions(p, n) => n \in N
       /\ Flagged(p, n) => n \in U
  /\ \A w \in Announcing : HasWord(p, w, info, value) <=> w \in W
  /\ AllTold(p)

\* What a concatenation reveals is what the two programs reveal.
LEMMA RevealsJoin ==
  ASSUME NEW p, NEW q, NEW info, NEW value, NEW S, NEW W, NEW N, NEW U, NEW T, NEW X, NEW M, NEW V,
         Reveals(p, info, value, S, W, N, U), Reveals(q, info, value, T, X, M, V)
  PROVE  Reveals(p \o q, info, value, S \cup T, W \cup X, N \cup M, U \cup V)
<1> DEFINE r == p \o q
           l == Len(p)
           m == Len(q)
<1>1. /\ IsSeq(r) /\ Nested(r) /\ Len(r) = l + m /\ l \in Nat /\ m \in Nat
      /\ \A k \in 1 .. l : r[k] = p[k] /\ (Held(r, k, info, value) <=> Held(p, k, info, value))
      /\ \A k \in 1 .. m : /\ r[l + k] = q[k]
                           /\ Held(r, l + k, info, value) <=> Held(q, k, info, value)
  BY HeldJoin, SeqLen DEF Reveals
<1> HIDE DEF r, l, m
<1>2. /\ \A k \in 1 .. l : k \in 1 .. l + m
      /\ \A k \in 1 .. m : l + k \in 1 .. l + m
      /\ \A k \in 1 .. l + m : k \in 1 .. l \/ \E i \in 1 .. m : k = l + i
  <2>1. ASSUME NEW k \in 1 .. l + m, k \notin 1 .. l PROVE k - l \in 1 .. m /\ k = l + (k - l)
    BY <1>1, <2>1
  <2> QED BY <1>1, <2>1
<1>3. ASSUME NEW n
      PROVE  HasPart(r, n, info, value) <=> HasPart(p, n, info, value) \/ HasPart(q, n, info, value)
  <2> DEFINE Q(k) == r[k].kind \notin {"if", "skip"} /\ r[k].name = n /\ Held(r, k, info, value)
  <2>1. HasPart(r, n, info, value) <=> \E k \in 1 .. l + m : Q(k) BY <1>1 DEF HasPart
  <2>2. HasPart(p, n, info, value) <=> \E k \in 1 .. l : Q(k) BY <1>1 DEF HasPart, l
  <2>3. HasPart(q, n, info, value) <=> \E k \in 1 .. m : Q(l + k) BY <1>1 DEF HasPart, m
  <2> HIDE DEF Q
  <2> QED BY <1>2, <2>1, <2>2, <2>3
<1>4. ASSUME NEW w
      PROVE  HasWord(r, w, info, value) <=> HasWord(p, w, info, value) \/ HasWord(q, w, info, value)
  <2> DEFINE Q(k) == r[k].kind = "flags" /\ w \in Named(r[k].table, value[r[k].name]) /\ Held(r, k, info, value)
  <2>1. HasWord(r, w, info, value) <=> \E k \in 1 .. l + m : Q(k) BY <1>1 DEF HasWord
  <2>2. HasWord(p, w, info, value) <=> \E k \in 1 .. l : Q(k) BY <1>1 DEF HasWord, l
  <2>3. HasWord(q, w, info, value) <=> \E k \in 1 .. m : Q(l + k) BY <1>1 DEF HasWord, m
  <2> HIDE DEF Q
  <2> QED BY <1>2, <2>1, <2>2, <2>3
<1>5. ASSUME NEW n, Mentions(r, n) PROVE Mentions(p, n) \/ Mentions(q, n)
  <2>1. PICK k \in 1 .. l + m : r[k].name = n BY <1>1, <1>5 DEF Mentions
  <2>2. k \in 1 .. l => Mentions(p, n) BY <1>1, <2>1 DEF Mentions, l
  <2>3. \A i \in 1 .. m : k = l + i => Mentions(q, n) BY <1>1, <2>1 DEF Mentions, m
  <2> QED BY <1>2, <2>2, <2>3
<1>6. ASSUME NEW n, Flagged(r, n) PROVE Flagged(p, n) \/ Flagged(q, n)
  <2>1. PICK j \in 1 .. l + m : /\ r[j].kind = "if" /\ r[j].cond.on = "bits"
                                /\ \E k \in j + 1 .. j + r[j].jump : r[k].name = n
    BY <1>1, <1>6 DEF Flagged
  <2>2. PICK k \in j + 1 .. j + r[j].jump : r[k].name = n BY <2>1
  <2>3. CASE j \in 1 .. l
    <3>1. r[j] = p[j] /\ p[j].jump \in Nat /\ j + p[j].jump <= l
      BY <1>1, <2>1, <2>3 DEF Nested, Reveals, l
    <3>2. k \in 1 .. l /\ k \in j + 1 .. j + p[j].jump BY <1>1, <2>2, <2>3, <3>1
    <3> QED BY <1>1, <2>1, <2>2, <2>3, <3>1, <3>2 DEF Flagged, l
  <2>4. CASE \E i \in 1 .. m : j = l + i
    <3>1. PICK i \in 1 .. m : j = l + i BY <2>4
    <3> DEFINE d == q[i].jump
    <3>2. r[j] = q[i] /\ d \in Nat /\ i + d <= m BY <1>1, <2>1, <3>1 DEF Nested, Reveals, m
    <3>3. k \in j + 1 .. j + d BY <2>2, <3>2
    <3> HIDE DEF d
    <3>4. k - l \in i + 1 .. i + d /\ k - l \in 1 .. m /\ k = l + (k - l)
      BY SMTT(30), <1>1, <3>1, <3>2, <3>3
    <3>5. q[k - l].name = n BY <1>1, <2>2, <3>4
    <3> QED BY <2>1, <3>1, <3>2, <3>4, <3>5 DEF Flagged, m, d
  <2> QED BY <1>2, <2>3, <2>4
<1>7. ASSUME NEW n \in Optional
      PROVE  /\ HasPart(r, n, info, value) <=> n \in S \cup T
             /\ Mentions(r, n) => n \in N \cup M
             /\ Flagged(r, n) => n \in U \cup V
  <2>1. /\ HasPart(p, n, info, value) <=> n \in S
        /\ Mentions(p, n) => n \in N
        /\ Flagged(p, n) => n \in U
    BY DEF Reveals
  <2>2. /\ HasPart(q, n, info, value) <=> n \in T
        /\ Mentions(q, n) => n \in M
        /\ Flagged(q, n) => n \in V
    BY DEF Reveals
  <2> QED BY <1>3, <1>5, <1>6, <2>1, <2>2
<1>8. ASSUME NEW w \in Announcing
      PROVE  HasWord(r, w, info, value) <=> w \in W \cup X
  <2>1. HasWord(p, w, info, value) <=> w \in W BY DEF Reveals
  <2>2. HasWord(q, w, info, value) <=> w \in X BY DEF Reveals
  <2> QED BY <1>4, <2>1, <2>2
<1>9. AllTold(r)
  <2>1. \A k \in 1 .. l : p[k].name \in Optional => p[k].kind \in Telling BY DEF Reveals, AllTold, l
  <2>2. \A k \in 1 .. m : q[k].name \in Optional => q[k].kind \in Telling BY DEF Reveals, AllTold, m
  <2> QED BY SMTT(30), <1>1, <1>2, <2>1, <2>2 DEF AllTold
<1>10. Reveals(r, info, value, S \cup T, W \cup X, N \cup M, U \cup V)
  BY <1>1, <1>7, <1>8, <1>9 DEF Reveals
<1> QED BY <1>10 DEF r

\* ... and two that name no flags name none.
LEMMA RevealsPlain ==
  ASSUME NEW p, NEW q, NEW info, NEW value, NEW S, NEW N, NEW U, NEW T, NEW M, NEW V,
         Reveals(p, info, value, S, {}, N, U), Reveals(q, info, value, T, {}, M, V)
  PROVE  Reveals(p \o q, info, value, S \cup T, {}, N \cup M, U \cup V)
<1>1. Reveals(p \o q, info, value, S \cup T, {} \cup {}, N \cup M, U \cup V) BY RevealsJoin
<1>2. {} \cup {} = {} OBVIOUS
<1> QED BY <1>1, <1>2

\* What a part reveals is what its program reveals, if the part is there.
LEMMA RevealsIf ==
  ASSUME NEW c, NEW p, NEW info, NEW value, NEW S, NEW W, NEW N, NEW U,
         Reveals(p, info, value, S, W, N, U)
  PROVE  Reveals(If(c, p), info, value, IF Has(c, info, value) THEN S ELSE {},
                 IF Has(c, info, value) THEN W ELSE {}, N, IF c.on = "bits" THEN N ELSE U)
<1> DEFINE r == If(c, p)
           m == Len(p)
<1>1. /\ IsSeq(r) /\ Nested(r) /\ Len(r) = 1 + m /\ m \in Nat
      /\ r[1].kind = "if" /\ r[1].name = "part" /\ r[1].cond = c /\ r[1].jump = m
      /\ \A k \in 1 .. m : /\ r[1 + k] = p[k]
                           /\ Held(r, 1 + k, info, value) <=> Has(c, info, value) /\ Held(p, k, info, value)
  BY HeldIf DEF Reveals
<1> HIDE DEF r, m
<1>2. /\ \A k \in 1 .. m : 1 + k \in 1 .. 1 + m
      /\ \A k \in 1 .. 1 + m : k = 1 \/ \E i \in 1 .. m : k = 1 + i
  <2>1. ASSUME NEW k \in 1 .. 1 + m, k # 1 PROVE k - 1 \in 1 .. m /\ k = 1 + (k - 1) BY <1>1, <2>1
  <2> QED BY <1>1, <2>1
<1>3. ASSUME NEW n
      PROVE  HasPart(r, n, info, value) <=> Has(c, info, value) /\ HasPart(p, n, info, value)
  <2> DEFINE Q(k) == r[k].kind \notin {"if", "skip"} /\ r[k].name = n /\ Held(r, k, info, value)
  <2>1. HasPart(r, n, info, value) <=> \E k \in 1 .. 1 + m : Q(k) BY <1>1 DEF HasPart
  <2>2. ~Q(1) BY <1>1
  <2>3. Has(c, info, value) /\ HasPart(p, n, info, value) <=> \E k \in 1 .. m : Q(1 + k)
    BY <1>1 DEF HasPart, m
  <2> HIDE DEF Q
  <2> QED BY <1>2, <2>1, <2>2, <2>3
<1>4. ASSUME NEW w
      PROVE  HasWord(r, w, info, value) <=> Has(c, info, value) /\ HasWord(p, w, info, value)
  <2> DEFINE Q(k) == r[k].kind = "flags" /\ w \in Named(r[k].table, value[r[k].name]) /\ Held(r, k, info, value)
  <2>1. HasWord(r, w, info, value) <=> \E k \in 1 .. 1 + m : Q(k) BY <1>1 DEF HasWord
  <2>2. ~Q(1) BY <1>1
  <2>3. Has(c, info, value) /\ HasWord(p, w, info, value) <=> \E k \in 1 .. m : Q(1 + k)
    BY <1>1 DEF HasWord, m
  <2> HIDE DEF Q
  <2> QED BY <1>2, <2>1, <2>2, <2>3
<1>5. \A n \in Optional : Mentions(r, n) => Mentions(p, n)
  <2>1. "part" \notin Optional BY DEF Optional
  <2> QED BY SMTT(30), <1>1, <1>2, <2>1 DEF Mentions, m
<1>6. ASSUME NEW n, Flagged(r, n)
      PROVE  IF c.on = "bits" THEN Mentions(p, n) ELSE Flagged(p, n)
  <2>1. PICK j \in 1 .. 1 + m : /\ r[j].kind = "if" /\ r[j].cond.on = "bits"
                                /\ \E k \in j + 1 .. j + r[j].jump : r[k].name = n
    BY <1>1, <1>6 DEF Flagged
  <2>2. PICK k \in j + 1 .. j + r[j].jump : r[k].name = n BY <2>1
  <2>3. CASE j = 1
    <3>1. k \in 2 .. 1 + m /\ k # 1 /\ k \in 1 .. 1 + m /\ c.on = "bits" BY <1>1, <2>1, <2>2, <2>3
    <3>2. PICK i \in 1 .. m : k = 1 + i BY <1>2, <3>1
    <3> QED BY <1>1, <2>2, <3>1, <3>2 DEF Mentions, m
  <2>4. CASE \E i \in 1 .. m : j = 1 + i
    <3>1. PICK i \in 1 .. m : j = 1 + i BY <2>4
    <3> DEFINE d == p[i].jump
    <3>2. r[j] = p[i] /\ d \in Nat /\ i + d <= m BY <1>1, <2>1, <3>1 DEF Nested, Reveals, m
    <3>3. k \in j + 1 .. j + d BY <2>2, <3>2
    <3> HIDE DEF d
    <3>4. k - 1 \in i + 1 .. i + d /\ k - 1 \in 1 .. m /\ k = 1 + (k - 1) BY <1>1, <3>1, <3>2, <3>3
    <3>5. p[k - 1].name = n BY <1>1, <2>2, <3>4
    <3> QED BY <2>1, <3>1, <3>2, <3>4, <3>5 DEF Flagged, Mentions, m, d
  <2> QED BY <1>2, <2>3, <2>4
<1>7. ASSUME NEW n \in Optional
      PROVE  /\ HasPart(r, n, info, value) <=> n \in (IF Has(c, info, value) THEN S ELSE {})
             /\ Mentions(r, n) => n \in N
             /\ Flagged(r, n) => n \in (IF c.on = "bits" THEN N ELSE U)
  <2>1. /\ HasPart(p, n, info, value) <=> n \in S
        /\ Mentions(p, n) => n \in N
        /\ Flagged(p, n) => n \in U
    BY DEF Reveals
  <2> QED BY <1>3, <1>5, <1>6, <2>1
<1>8. ASSUME NEW w \in Announcing
      PROVE  HasWord(r, w, info, value) <=> w \in (IF Has(c, info, value) THEN W ELSE {})
  <2>1. HasWord(p, w, info, value) <=> w \in W BY DEF Reveals
  <2> QED BY <1>4, <2>1
<1>9. AllTold(r)
  <2>1. \A k \in 1 .. m : p[k].name \in Optional => p[k].kind \in Telling BY DEF Reveals, AllTold, m
  <2>2. "part" \notin Optional BY DEF Optional
  <2> SUFFICES ASSUME NEW k \in 1 .. 1 + m, r[k].name \in Optional PROVE r[k].kind \in Telling
    BY <1>1 DEF AllTold
  <2>3. PICK i \in 1 .. m : k = 1 + i BY <1>1, <1>2, <2>2
  <2> QED BY <1>1, <2>1, <2>3
<1>10. Reveals(r, info, value, (IF Has(c, info, value) THEN S ELSE {}),
               (IF Has(c, info, value) THEN W ELSE {}), N, (IF c.on = "bits" THEN N ELSE U))
  BY <1>1, <1>7, <1>8, <1>9 DEF Reveals
<1> QED BY <1>10 DEF r

\* An item that is no part of its own, and announces none.
Silent(it) ==
  /\ it.kind \notin {"if", "skip"}
  /\ it.name \in Optional => it.kind \in Telling
  /\ it.kind = "flags" => DOMAIN it.table \cap Announcing = {}

\* Items alone, none of which announces a part.
LEMMA RevealsItems ==
  ASSUME NEW p, NEW n \in Nat, Tuple(p, n), \A k \in 1 .. n : Silent(p[k]),
         NEW info, NEW value
  PROVE  LET S == {p[k].name : k \in 1 .. n} IN Reveals(p, info, value, S, {}, S, {})
<1> DEFINE S == {p[k].name : k \in 1 .. n}
<1>1. IsSeq(p) /\ Len(p) = n BY SeqIs DEF Tuple
<1>2. \A k \in 1 .. n : p[k].kind \notin {"if", "skip"} BY DEF Silent
<1>3. Nested(p) /\ (\A k \in 1 .. n : Held(p, k, info, value)) /\ \A x : ~Flagged(p, x)
  BY <1>1, <1>2 DEF Nested, Held, Lacks, Flagged
<1>4. AllTold(p) BY <1>1 DEF AllTold, Silent
<1>5. \A w \in Announcing : ~HasWord(p, w, info, value) BY <1>1 DEF HasWord, Silent, Named
<1>6. \A x : (HasPart(p, x, info, value) <=> x \in S) /\ (Mentions(p, x) <=> x \in S)
  BY <1>1, <1>2, <1>3 DEF HasPart, Mentions
<1> HIDE DEF S
<1>7. Reveals(p, info, value, S, {}, S, {}) BY <1>1, <1>3, <1>4, <1>5, <1>6 DEF Reveals
<1> QED BY <1>7 DEF S

\* One field of flags that announces parts, among other fields.
LEMMA RevealsFlags ==
  ASSUME NEW p, NEW n \in Nat, Tuple(p, n), NEW m \in 1 .. n,
         p[m].kind = "flags", p[m].name \notin Optional,
         \A k \in 1 .. n : k = m \/ (Silent(p[k]) /\ p[k].name \notin Optional),
         NEW info, NEW value
  PROVE  Reveals(p, info, value, {}, Named(p[m].table, value[p[m].name]), {}, {})
<1> DEFINE W == Named(p[m].table, value[p[m].name])
<1>1. IsSeq(p) /\ Len(p) = n BY SeqIs DEF Tuple
<1>2. \A k \in 1 .. n : p[k].kind \notin {"if", "skip"} /\ p[k].name \notin Optional BY DEF Silent
<1>3. Nested(p) /\ (\A k \in 1 .. n : Held(p, k, info, value)) /\ \A x : ~Flagged(p, x)
  BY <1>1, <1>2 DEF Nested, Held, Lacks, Flagged
<1>4. AllTold(p) BY <1>1, <1>2 DEF AllTold
<1>5. ASSUME NEW w \in Announcing PROVE HasWord(p, w, info, value) <=> w \in W
  <2>1. \A k \in 1 .. n : k = m \/ (p[k].kind = "flags" => w \notin DOMAIN p[k].table) BY DEF Silent
  <2>2. \A k \in 1 .. n : k = m \/ (p[k].kind = "flags" => w \notin Named(p[k].table, value[p[k].name]))
    BY <2>1 DEF Named
  <2> QED BY <1>1, <1>3, <2>2 DEF HasWord
<1>6. \A x \in Optional : ~HasPart(p, x, info, value) /\ ~Mentions(p, x)
  BY <1>1, <1>2 DEF HasPart, Mentions
<1> HIDE DEF W
<1>7. Reveals(p, info, value, {}, W, {}, {}) BY <1>1, <1>3, <1>4, <1>5, <1>6 DEF Reveals
<1> QED BY <1>7 DEF W

\* The parts under flags are there if and only if one of their flags is named, in the
\* lines of p or outside of them.
Agrees(p, info, value, outside) ==
  /\ IsSeq(p) /\ Nested(p) /\ AllTold(p)
  /\ \A n \in Optional :
       Flagged(p, n) =>
         (HasPart(p, n, info, value) <=>
            \E w \in AnnouncedBy[n] : HasWord(p, w, info, value) \/ w \in outside)

\* The flags and the parts agree where what is revealed does.
LEMMA RevealsAgrees ==
  ASSUME NEW p, NEW info, NEW value, NEW S, NEW W, NEW N, NEW U, NEW outside,
         Reveals(p, info, value, S, W, N, U),
         \A n \in Optional \cap U : n \in S <=> AnnouncedBy[n] \cap (W \cup outside) # {}
  PROVE  Agrees(p, info, value, outside)
<1>1. \A n \in Optional : AnnouncedBy[n] \subseteq Announcing
  BY Announcements DEF Optional, Announcing
<1>2. IsSeq(p) /\ Nested(p) /\ AllTold(p) BY DEF Reveals
<1>3. ASSUME NEW n \in Optional, Flagged(p, n)
      PROVE  HasPart(p, n, info, value) <=>
               \E w \in AnnouncedBy[n] : HasWord(p, w, info, value) \/ w \in outside
  <2>1. n \in U /\ (HasPart(p, n, info, value) <=> n \in S) BY <1>3 DEF Reveals
  <2>2. \A w \in AnnouncedBy[n] : HasWord(p, w, info, value) <=> w \in W BY <1>1 DEF Reveals
  <2>3. n \in S <=> \E w \in AnnouncedBy[n] : w \in W \/ w \in outside BY <2>1
  <2> QED BY <2>1, <2>2, <2>3
<1> QED BY <1>2, <1>3 DEF Agrees

\* What is under some bits of a field.
LEMMA RevealsBits ==
  ASSUME NEW f, NEW b, NEW p, NEW info, NEW value, NEW S, Reveals(p, info, value, S, {}, S, {})
  PROVE  Reveals(If(Bits(f, b), p), info, value, IF value[f] \cap b # {} THEN S ELSE {}, {}, S, S)
<1> DEFINE c == Bits(f, b)
<1>1. c.on = "bits" /\ (Has(c, info, value) <=> value[f] \cap b # {}) BY DEF Bits, Has
<1> HIDE DEF c
<1>2. Reveals(If(c, p), info, value, IF Has(c, info, value) THEN S ELSE {},
              IF Has(c, info, value) THEN {} ELSE {}, S, IF c.on = "bits" THEN S ELSE {})
  BY RevealsIf
<1>3. /\ (IF Has(c, info, value) THEN S ELSE {}) = IF value[f] \cap b # {} THEN S ELSE {}
      /\ (IF Has(c, info, value) THEN {} ELSE {}) = {}
      /\ (IF c.on = "bits" THEN S ELSE {}) = S
  BY <1>1
<1>4. Reveals(If(c, p), info, value, IF value[f] \cap b # {} THEN S ELSE {}, {}, S, S) BY <1>2, <1>3
<1> QED BY <1>4 DEF c

\* The items of the parsers that announce no part.
LEMMA SilentItems ==
  /\ \A n : Silent(u8(n)) /\ Silent(u16(n)) /\ Silent(u32(n)) /\ Silent(u64(n)) /\ Silent(time(n))
            /\ Silent(count(n)) /\ Silent(cstr(n)) /\ Silent(indexed(n))
  /\ \A n, w, table : DOMAIN table \cap Announcing = {} => Silent(flags(n, w, table))
  /\ \A n, w, m, of, cap, note : n \notin Optional => Silent(array_over(n, w, m, of, cap, note))
  /\ \A n, unit, always : n \notin Optional => Silent(rest(n, unit, always))
  /\ \A n : u8(n).name = n /\ u16(n).name = n /\ u32(n).name = n /\ u64(n).name = n
            /\ time(n).name = n /\ count(n).name = n /\ cstr(n).name = n /\ indexed(n).name = n
  /\ \A n, w, table : LET it == flags(n, w, table)
                      IN  it.name = n /\ it.table = table /\ it.kind = "flags"
  /\ \A n, w, m, of, cap, note : array_over(n, w, m, of, cap, note).name = n
  /\ \A n, unit, always : rest(n, unit, always).name = n
BY DEF Silent, Telling, u8, u16, u32, u64, time, count, cstr, indexed, flags, array_over, array,
       rest, Item

\* The fields of the tuples that programs are written as.
LEMMA Tuples ==
  /\ Tuple(<<>>, 0)
  /\ \A a : Tuple(<<a>>, 1) /\ <<a>>[1] = a
  /\ \A a, b : LET p == <<a, b>> IN Tuple(p, 2) /\ p[1] = a /\ p[2] = b
  /\ \A a, b, c : LET p == <<a, b, c>> IN Tuple(p, 3) /\ p[1] = a /\ p[2] = b /\ p[3] = c
  /\ \A a, b, c, d : LET p == <<a, b, c, d>>
                     IN Tuple(p, 4) /\ p[1] = a /\ p[2] = b /\ p[3] = c /\ p[4] = d
  /\ \A a, b, c, d, e, f :
       LET p == <<a, b, c, d, e, f>>
       IN Tuple(p, 6) /\ p[1] = a /\ p[2] = b /\ p[3] = c /\ p[4] = d /\ p[5] = e /\ p[6] = f
BY DEF Tuple

\* The tables of the tuple header announce no part.
LEMMA SilentTables ==
  \A table \in {decode_t_infomask, decode_t_infomask2, decode_infobits} :
    DOMAIN table \cap Announcing = {}
BY DEF decode_t_infomask, decode_t_infomask2, decode_infobits, Announcing

\* parse_xl_heap_header, whose five bytes are there.
LEMMA HeaderReveals ==
  ASSUME NEW info, NEW value
  PROVE  LET S == {"t_infomask2", "t_infomask", "t_hoff"}
         IN  Reveals(parse_xl_heap_header, info, value, S, {}, S, {})
<1> DEFINE a == flags("t_infomask2", 2, decode_t_infomask2)
           b == flags("t_infomask", 2, decode_t_infomask)
           d == u8("t_hoff")
           p == <<a, b, d>>
           c == Room(5)
           S == {"t_infomask2", "t_infomask", "t_hoff"}
<1>1. parse_xl_heap_header = If(c, p) BY DEF parse_xl_heap_header
<1>2. /\ Silent(a) /\ Silent(b) /\ Silent(d)
      /\ a.name = "t_infomask2" /\ b.name = "t_infomask" /\ d.name = "t_hoff"
  BY SilentItems, SilentTables
<1>3. c.on # "bits" /\ Has(c, info, value) BY DEF Room, Has, Metadata
<1> HIDE DEF a, b, d, c
<1>4. Tuple(p, 3) /\ p[1] = a /\ p[2] = b /\ p[3] = d BY Tuples
<1> HIDE DEF p
<1>5. \A k \in 1 .. 3 : Silent(p[k]) BY <1>2, <1>4
<1>6. {p[k].name : k \in 1 .. 3} = S BY <1>2, <1>4
<1>7. Reveals(p, info, value, S, {}, S, {}) BY <1>4, <1>5, <1>6, RevealsItems
<1> HIDE DEF S
<1>8. Reveals(If(c, p), info, value, IF Has(c, info, value) THEN S ELSE {},
              IF Has(c, info, value) THEN {} ELSE {}, S, IF c.on = "bits" THEN S ELSE {})
  BY <1>7, RevealsIf
<1>9. Reveals(If(c, p), info, value, S, {}, S, {}) BY <1>3, <1>8
<1> QED BY <1>1, <1>9 DEF S

\* ... under the flags that say that an old tuple or key follows.
LEMMA FlaggedHeaderReveals ==
  ASSUME NEW b, NEW info, NEW value
  PROVE  LET S == {"t_infomask2", "t_infomask", "t_hoff"}
         IN  Reveals(If(Bits("flags", b), parse_xl_heap_header), info, value,
                     IF value["flags"] \cap b # {} THEN S ELSE {}, {}, S, S)
BY HeaderReveals, RevealsBits

\* The names of a part under bit b of the field v.
Under(v, b, names) == IF v \cap {b} # {} THEN names ELSE {}

\* One field under a bit, and two.
LEMMA OneUnder ==
  ASSUME NEW f, NEW b, NEW it, Silent(it), NEW info, NEW value, NEW S, {it.name} = S
  PROVE  Reveals(If(Bits(f, {b}), <<it>>), info, value, Under(value[f], b, S), {}, S, S)
<1> DEFINE p == <<it>>
<1>1. Tuple(p, 1) /\ p[1] = it BY Tuples
<1> HIDE DEF p
<1>2. {p[k].name : k \in 1 .. 1} = S /\ \A k \in 1 .. 1 : Silent(p[k]) BY <1>1
<1>3. 1 \in Nat /\ Tuple(p, 1) BY <1>1
<1>4. Reveals(p, info, value, S, {}, S, {}) BY <1>2, <1>3, RevealsItems
<1> QED BY <1>4, RevealsBits DEF p, Under

LEMMA TwoUnder ==
  ASSUME NEW f, NEW b, NEW it, Silent(it), NEW iu, Silent(iu), NEW info, NEW value,
         NEW S, {it.name, iu.name} = S
  PROVE  Reveals(If(Bits(f, {b}), <<it, iu>>), info, value, Under(value[f], b, S), {}, S, S)
<1> DEFINE p == <<it, iu>>
<1>1. Tuple(p, 2) /\ p[1] = it /\ p[2] = iu BY Tuples
<1> HIDE DEF p
<1>2. {p[k].name : k \in 1 .. 2} = S /\ \A k \in 1 .. 2 : Silent(p[k]) BY <1>1
<1>3. 2 \in Nat /\ Tuple(p, 2) BY <1>1
<1>4. Reveals(p, info, value, S, {}, S, {}) BY <1>2, <1>3, RevealsItems
<1> QED BY <1>4, RevealsBits DEF p, Under

\* Fields of which one names flags, and a part that these announce.
LEMMA OnePart ==
  ASSUME NEW p, NEW r, NEW info, NEW value, NEW S, NEW W, NEW h,
         Reveals(p, info, value, {}, W, {}, {}), Reveals(r, info, value, S, {}, h, h),
         \A n \in Optional \cap h : n \in S <=> AnnouncedBy[n] \cap W # {}
  PROVE  Agrees(p \o r, info, value, {})
<1>1. Reveals(p \o r, info, value, {} \cup S, W \cup {}, {} \cup h, {} \cup h) BY RevealsJoin
<1>2. {} \cup S = S /\ W \cup {} = W /\ {} \cup h = h OBVIOUS
<1>3. Reveals(p \o r, info, value, S, W, h, h) BY <1>1, <1>2
<1>4. \A n \in Optional \cap h : n \in S <=> AnnouncedBy[n] \cap (W \cup {}) # {} BY <1>2
<1> QED BY <1>3, <1>4, RevealsAgrees

LEMMA NamedIn ==
  \A table, v, w : w \in Named(table, v) <=> w \in DOMAIN table /\ table[w] \in v
BY DEF Named

\* prune: the horizon is there if HAS_CONFLICT_HORIZON is.
LEMMA PruneAgrees == ASSUME NEW info, NEW value PROVE Agrees(prune, info, value, {})
<1> DEFINE a == u8("reason")
           b == flags("flags", 1, fmt_prune_flags)
           p == <<a, b>>
           d == u32("conflict_horizon")
           q == <<d>>
           v == value["flags"]
           W == Named(fmt_prune_flags, v)
           h == {"conflict_horizon"}
           S == Under(v, 3, h)
           r == If(Bits("flags", {3}), q)
<1>1. prune = p \o r BY DEF prune
<1>2. /\ Silent(a) /\ Silent(d) /\ a.name = "reason" /\ d.name = "conflict_horizon"
      /\ b.kind = "flags" /\ b.name = "flags" /\ b.table = fmt_prune_flags
  BY SilentItems
<1>3. "flags" \notin Optional /\ "reason" \notin Optional BY DEF Optional
<1>4. "HAS_CONFLICT_HORIZON" \in W <=> 3 \in v
  <2>1. LET t == fmt_prune_flags
        IN  "HAS_CONFLICT_HORIZON" \in DOMAIN t /\ t["HAS_CONFLICT_HORIZON"] = 3
    BY DEF fmt_prune_flags
  <2> QED BY <2>1, NamedIn
<1> HIDE DEF a, b, d
<1>5. Tuple(p, 2) /\ p[1] = a /\ p[2] = b /\ Tuple(q, 1) /\ q[1] = d BY Tuples
<1> HIDE DEF p, q, v
<1>6. Reveals(p, info, value, {}, W, {}, {})
  <2>1. p[2].kind = "flags" /\ p[2].name \notin Optional /\ p[2].table = fmt_prune_flags
        /\ p[2].name = "flags"
    BY <1>2, <1>3, <1>5
  <2>2. \A k \in 1 .. 2 : k = 2 \/ (Silent(p[k]) /\ p[k].name \notin Optional) BY <1>2, <1>3, <1>5
  <2>3. Reveals(p, info, value, {}, Named(p[2].table, value[p[2].name]), {}, {})
    BY <1>5, <2>1, <2>2, RevealsFlags
  <2> QED BY <2>1, <2>3 DEF v
<1>7. Reveals(r, info, value, S, {}, h, h)
  <2>1. {d.name} = h BY <1>2
  <2> HIDE DEF h
  <2> QED BY <1>2, <2>1, OneUnder DEF q, v
<1> HIDE DEF r, S, W, h
<1>8. \A n \in Optional \cap h : n \in S <=> AnnouncedBy[n] \cap W # {}
  BY <1>4, Announcements DEF S, h, Under
<1> QED BY <1>1, <1>6, <1>7, <1>8, OnePart

\* heap_update: the old tuple's header is there if a flag says so.
LEMMA UpdateAgrees == ASSUME NEW info, NEW value PROVE Agrees(heap_update, info, value, {})
<1> DEFINE a == u32("old_xmax")
           b == u16("old_offnum")
           c == flags("old_infobits_set", 1, decode_infobits)
           d == flags("flags", 1, decode_heap_update_flags)
           e == u32("new_xmax")
           f == u16("new_offnum")
           p == <<a, b, c, d, e, f>>
           v == value["flags"]
           W == Named(decode_heap_update_flags, v)
           h == {"t_infomask2", "t_infomask", "t_hoff"}
           S == IF v \cap {2, 3} # {} THEN h ELSE {}
           r == If(Bits("flags", {2, 3}), parse_xl_heap_header)
<1>1. heap_update = p \o r BY DEF heap_update
<1>2. /\ Silent(a) /\ Silent(b) /\ Silent(c) /\ Silent(e) /\ Silent(f)
      /\ a.name = "old_xmax" /\ b.name = "old_offnum" /\ c.name = "old_infobits_set"
      /\ e.name = "new_xmax" /\ f.name = "new_offnum"
      /\ d.kind = "flags" /\ d.name = "flags" /\ d.table = decode_heap_update_flags
  BY SilentItems, SilentTables
<1>3. {"flags", "old_xmax", "old_offnum", "old_infobits_set", "new_xmax", "new_offnum"}
        \cap Optional = {}
  BY DEF Optional
<1>4. /\ "CONTAINS_OLD_TUPLE" \in W <=> 2 \in v
      /\ "CONTAINS_OLD_KEY" \in W <=> 3 \in v
  <2>1. LET t == decode_heap_update_flags
        IN  /\ "CONTAINS_OLD_TUPLE" \in DOMAIN t /\ t["CONTAINS_OLD_TUPLE"] = 2
            /\ "CONTAINS_OLD_KEY" \in DOMAIN t /\ t["CONTAINS_OLD_KEY"] = 3
    BY DEF decode_heap_update_flags
  <2> QED BY <2>1, NamedIn
<1> HIDE DEF a, b, c, d, e, f
<1>5. Tuple(p, 6) /\ p[1] = a /\ p[2] = b /\ p[3] = c /\ p[4] = d /\ p[5] = e /\ p[6] = f BY Tuples
<1> HIDE DEF p, v
<1>6. Reveals(p, info, value, {}, W, {}, {})
  <2>1. p[4].kind = "flags" /\ p[4].name \notin Optional /\ p[4].table = decode_heap_update_flags
        /\ p[4].name = "flags"
    BY <1>2, <1>3, <1>5
  <2>2. \A k \in 1 .. 6 : k = 4 \/ (Silent(p[k]) /\ p[k].name \notin Optional) BY <1>2, <1>3, <1>5
  <2>3. Reveals(p, info, value, {}, Named(p[4].table, value[p[4].name]), {}, {})
    BY <1>5, <2>1, <2>2, RevealsFlags
  <2> QED BY <2>1, <2>3 DEF v
<1>7. Reveals(r, info, value, S, {}, h, h) BY FlaggedHeaderReveals DEF v
<1> HIDE DEF r, S, W, h
<1>8. Optional \cap h = {"t_hoff"} /\ "t_hoff" \in h BY DEF Optional, h
<1>9. \A n \in Optional \cap h : n \in S <=> AnnouncedBy[n] \cap W # {}
  BY <1>4, <1>8, Announcements DEF S
<1> QED BY <1>1, <1>6, <1>7, <1>9, OnePart

\* describe_heap_main.DELETE: likewise.
LEMMA DeleteAgrees ==
  ASSUME NEW info, NEW value PROVE Agrees(describe_heap_main.DELETE, info, value, {})
<1> DEFINE a == u32("xmax")
           b == u16("offnum")
           c == flags("infobits_set", 1, decode_infobits)
           d == flags("flags", 1, decode_heap_delete_flags)
           p == <<a, b, c, d>>
           v == value["flags"]
           W == Named(decode_heap_delete_flags, v)
           h == {"t_infomask2", "t_infomask", "t_hoff"}
           S == IF v \cap {1, 2} # {} THEN h ELSE {}
           r == If(Bits("flags", {1, 2}), parse_xl_heap_header)
<1>1. describe_heap_main.DELETE = p \o r BY DEF describe_heap_main
<1>2. /\ Silent(a) /\ Silent(b) /\ Silent(c)
      /\ a.name = "xmax" /\ b.name = "offnum" /\ c.name = "infobits_set"
      /\ d.kind = "flags" /\ d.name = "flags" /\ d.table = decode_heap_delete_flags
  BY SilentItems, SilentTables
<1>3. {"flags", "xmax", "offnum", "infobits_set"} \cap Optional = {} BY DEF Optional
<1>4. /\ "CONTAINS_OLD_TUPLE" \in W <=> 1 \in v
      /\ "CONTAINS_OLD_KEY" \in W <=> 2 \in v
  <2>1. LET t == decode_heap_delete_flags
        IN  /\ "CONTAINS_OLD_TUPLE" \in DOMAIN t /\ t["CONTAINS_OLD_TUPLE"] = 1
            /\ "CONTAINS_OLD_KEY" \in DOMAIN t /\ t["CONTAINS_OLD_KEY"] = 2
    BY DEF decode_heap_delete_flags
  <2> QED BY <2>1, NamedIn
<1> HIDE DEF a, b, c, d
<1>5. Tuple(p, 4) /\ p[1] = a /\ p[2] = b /\ p[3] = c /\ p[4] = d BY Tuples
<1> HIDE DEF p, v
<1>6. Reveals(p, info, value, {}, W, {}, {})
  <2>1. p[4].kind = "flags" /\ p[4].name \notin Optional /\ p[4].table = decode_heap_delete_flags
        /\ p[4].name = "flags"
    BY <1>2, <1>3, <1>5
  <2>2. \A k \in 1 .. 4 : k = 4 \/ (Silent(p[k]) /\ p[k].name \notin Optional) BY <1>2, <1>3, <1>5
  <2>3. Reveals(p, info, value, {}, Named(p[4].table, value[p[4].name]), {}, {})
    BY <1>5, <2>1, <2>2, RevealsFlags
  <2> QED BY <2>1, <2>3 DEF v
<1>7. Reveals(r, info, value, S, {}, h, h) BY FlaggedHeaderReveals DEF v
<1> HIDE DEF r, S, W, h
<1>8. Optional \cap h = {"t_hoff"} /\ "t_hoff" \in h BY DEF Optional, h
<1>9. \A n \in Optional \cap h : n \in S <=> AnnouncedBy[n] \cap W # {}
  BY <1>4, <1>8, Announcements DEF S
<1> QED BY <1>1, <1>6, <1>7, <1>9, OnePart

\* The flags of the new tuple are in the main data.
LEMMA NewTupleAgrees ==
  ASSUME NEW info, NEW value
  PROVE  Agrees(heap_new_tuple, info, value, Named(decode_heap_update_flags, value["flags"]))
<1> DEFINE a == indexed("prefix_from_old")
           b == indexed("suffix_from_old")
           d == rest("new tuple data", 1, FALSE)
           p == <<a>>
           q == <<b>>
           s == <<d>>
           H == parse_xl_heap_header
           v == value["flags"]
           W == Named(decode_heap_update_flags, v)
           h == {"t_infomask2", "t_infomask", "t_hoff"}
           x == {"prefix_from_old"}
           y == {"suffix_from_old"}
           z == {d.name}
           X == Under(v, 5, x)
           Y == Under(v, 6, y)
           m == If(Bits("flags", {5}), p)
           u == If(Bits("flags", {6}), q)
<1>1. heap_new_tuple = m \o u \o H \o s BY DEF heap_new_tuple
<1>2. /\ Silent(a) /\ Silent(b) /\ a.name = "prefix_from_old" /\ b.name = "suffix_from_old"
  BY SilentItems
<1>3. Silent(d) /\ d.name \notin Optional
  <2>1. d.kind = "rest" /\ d.name \notin Optional BY DEF rest, Optional
  <2> HIDE DEF d
  <2> QED BY <2>1 DEF Silent
<1>4. /\ "PREFIX_FROM_OLD" \in W <=> 5 \in v
      /\ "SUFFIX_FROM_OLD" \in W <=> 6 \in v
  <2>1. LET t == decode_heap_update_flags
        IN  /\ "PREFIX_FROM_OLD" \in DOMAIN t /\ t["PREFIX_FROM_OLD"] = 5
            /\ "SUFFIX_FROM_OLD" \in DOMAIN t /\ t["SUFFIX_FROM_OLD"] = 6
    BY DEF decode_heap_update_flags
  <2> QED BY <2>1, NamedIn
<1> HIDE DEF a, b, d
<1>5. Tuple(p, 1) /\ p[1] = a /\ Tuple(q, 1) /\ q[1] = b /\ Tuple(s, 1) /\ s[1] = d BY Tuples
<1> HIDE DEF p, q, s, v
<1>6. Reveals(m, info, value, X, {}, x, x)
  <2>1. {a.name} = x BY <1>2
  <2> HIDE DEF x
  <2> QED BY <1>2, <2>1, OneUnder DEF p, v
<1>7. Reveals(u, info, value, Y, {}, y, y)
  <2>1. {b.name} = y BY <1>2
  <2> HIDE DEF y
  <2> QED BY <1>2, <2>1, OneUnder DEF q, v
<1>8. Reveals(s, info, value, z, {}, z, {})
  <2>1. {s[k].name : k \in 1 .. 1} = z /\ \A k \in 1 .. 1 : Silent(s[k]) BY <1>3, <1>5
  <2> QED BY <1>5, <2>1, RevealsItems
<1>9. Reveals(H, info, value, h, {}, h, {}) BY HeaderReveals
<1>10. z \cap Optional = {} /\ x \cap h = {} /\ y \cap h = {} BY <1>3
<1> HIDE DEF m, u, H, X, Y, h, z, W
<1>11. Reveals(m \o u, info, value, X \cup Y, {}, x \cup y, x \cup y) BY <1>6, <1>7, RevealsPlain
<1>12. Reveals(m \o u \o H, info, value, X \cup Y \cup h, {}, x \cup y \cup h, x \cup y \cup {})
  BY <1>9, <1>11, RevealsPlain
<1>13. Reveals(m \o u \o H \o s, info, value, X \cup Y \cup h \cup z, {},
               x \cup y \cup h \cup z, x \cup y \cup {} \cup {})
  BY <1>8, <1>12, RevealsPlain
<1>14. \A k \in Optional \cap (x \cup y \cup {} \cup {}) :
         k \in X \cup Y \cup h \cup z <=> AnnouncedBy[k] \cap ({} \cup W) # {}
  <2>1. "prefix_from_old" \in X \cup Y \cup h \cup z <=> 5 \in v
    BY <1>10, Announcements DEF X, Y, Optional, Under
  <2>2. "suffix_from_old" \in X \cup Y \cup h \cup z <=> 6 \in v
    BY <1>10, Announcements DEF X, Y, Optional, Under
  <2> QED BY <1>4, <2>1, <2>2, Announcements
<1> QED BY <1>1, <1>13, <1>14, RevealsAgrees DEF W, v

\* The subrecords of a commit or an abort, and the bit of xinfo of each.
SubrecordsHave(i) ==
  {"dbId", "tsId"} \cup {"nsubxacts", "subxid"} \cup {"nrels", "rel"} \cup i
    \cup {"2pc_xid"} \cup {"gid"} \cup {"origin_lsn", "origin_ts"}
SubrecordsUnder(v, i) ==
  Under(v, 0, {"dbId", "tsId"}) \cup Under(v, 1, {"nsubxacts", "subxid"})
    \cup Under(v, 2, {"nrels", "rel"}) \cup Under(v, 3, i) \cup Under(v, 4, {"2pc_xid"})
    \cup Under(v, 7, {"gid"}) \cup Under(v, 5, {"origin_lsn", "origin_ts"})

LEMMA SubrecordsReveal ==
  ASSUME NEW is_commit \in BOOLEAN, NEW info, NEW value
  PROVE  LET i == IF is_commit THEN {"ninvals"} ELSE {}
             N == SubrecordsHave(i)
         IN  Reveals(parse_xact_subrecords(is_commit), info, value,
                     SubrecordsUnder(value["xinfo"], i), {}, N, N)
<1> DEFINE v == value["xinfo"]
           a1 == u32("dbId")
           a2 == u32("tsId")
           b1 == count("nsubxacts")
           b2 == array_over("subxid", 4, 1, {"nsubxacts"}, 8, "cast")
           c1 == count("nrels")
           c2 == array_over("rel", 4, 3, {"nrels"}, 8, "cast")
           d1 == u32("ninvals")
           e1 == u32("2pc_xid")
           f1 == cstr("gid")
           g1 == u64("origin_lsn")
           g2 == time("origin_ts")
           A == If(Bits("xinfo", {0}), <<a1, a2>>)
           B == If(Bits("xinfo", {1}), <<b1, b2>>)
           C == If(Bits("xinfo", {2}), <<c1, c2>>)
           D == IF is_commit THEN If(Bits("xinfo", {3}), <<d1>>) ELSE <<>>
           E == If(Bits("xinfo", {4}), <<e1>>)
           F == If(Bits("xinfo", {7}), <<f1>>)
           G == If(Bits("xinfo", {5}), <<g1, g2>>)
           a == {"dbId", "tsId"}
           b == {"nsubxacts", "subxid"}
           c == {"nrels", "rel"}
           d == IF is_commit THEN {"ninvals"} ELSE {}
           e == {"2pc_xid"}
           f == {"gid"}
           g == {"origin_lsn", "origin_ts"}
           R(p, n, names) == Reveals(p, info, value, Under(v, n, names), {}, names, names)
<1>1. parse_xact_subrecords(is_commit) = A \o B \o C \o D \o E \o F \o G
  BY DEF parse_xact_subrecords
<1>2. /\ Silent(a1) /\ Silent(a2) /\ Silent(b1) /\ Silent(c1) /\ Silent(d1) /\ Silent(e1)
      /\ Silent(f1) /\ Silent(g1) /\ Silent(g2)
      /\ a1.name = "dbId" /\ a2.name = "tsId" /\ b1.name = "nsubxacts" /\ c1.name = "nrels"
      /\ d1.name = "ninvals" /\ e1.name = "2pc_xid" /\ f1.name = "gid"
      /\ g1.name = "origin_lsn" /\ g2.name = "origin_ts"
  BY SilentItems
<1>3. Silent(b2) /\ Silent(c2) /\ b2.name = "subxid" /\ c2.name = "rel"
  <2>1. "subxid" \notin Optional /\ "rel" \notin Optional BY DEF Optional
  <2> QED BY <2>1, SilentItems
<1> HIDE DEF a1, a2, b1, b2, c1, c2, d1, e1, f1, g1, g2
<1>4. R(A, 0, a) /\ R(B, 1, b) /\ R(C, 2, c) /\ R(G, 5, g)
  <2>1. {a1.name, a2.name} = a /\ {b1.name, b2.name} = b /\ {c1.name, c2.name} = c
        /\ {g1.name, g2.name} = g
    BY <1>2, <1>3
  <2> HIDE DEF a, b, c, g
  <2>2. R(A, 0, a) BY <1>2, <2>1, TwoUnder
  <2>3. R(B, 1, b) BY <1>2, <1>3, <2>1, TwoUnder
  <2>4. R(C, 2, c) BY <1>2, <1>3, <2>1, TwoUnder
  <2>5. R(G, 5, g) BY <1>2, <2>1, TwoUnder
  <2> QED BY <2>2, <2>3, <2>4, <2>5
<1>5. R(E, 4, e) /\ R(F, 7, f)
  <2>1. {e1.name} = e /\ {f1.name} = f BY <1>2
  <2> HIDE DEF e, f
  <2>2. R(E, 4, e) BY <1>2, <2>1, OneUnder
  <2>3. R(F, 7, f) BY <1>2, <2>1, OneUnder
  <2> QED BY <2>2, <2>3
<1>6. R(D, 3, d)
  <2>1. CASE is_commit
    <3>1. {d1.name} = d /\ D = If(Bits("xinfo", {3}), <<d1>>) BY <1>2, <2>1
    <3> HIDE DEF d, D
    <3>2. Reveals(If(Bits("xinfo", {3}), <<d1>>), info, value, Under(v, 3, d), {}, d, d)
      BY <1>2, <3>1, OneUnder
    <3> QED BY <3>1, <3>2
  <2>2. CASE ~is_commit
    <3>1. D = <<>> /\ d = {} /\ Under(v, 3, d) = {} BY <2>2 DEF Under
    <3>2. Reveals(<<>>, info, value, {}, {}, {}, {})
      <4> DEFINE p == <<>>
                 S == {}
      <4>1. Tuple(p, 0) /\ 0 \in Nat BY Tuples
      <4>2. {p[k].name : k \in 1 .. 0} = S /\ \A k \in 1 .. 0 : Silent(p[k]) OBVIOUS
      <4> HIDE DEF p, S
      <4>3. Reveals(p, info, value, S, {}, S, {}) BY <4>1, <4>2, RevealsItems
      <4> QED BY <4>3 DEF p, S
    <3> HIDE DEF D, d, v
    <3> QED BY <3>1, <3>2
  <2> QED BY <2>1, <2>2
<1> HIDE DEF A, B, C, D, E, F, G, a, b, c, d, e, f, g, v
<1> DEFINE T(p, s, n) == Reveals(p, info, value, s, {}, n, n)
<1>7. ASSUME NEW p, NEW q, NEW s, NEW t, NEW m, NEW n, T(p, s, m), T(q, t, n)
      PROVE  T(p \o q, s \cup t, m \cup n)
  BY <1>7, RevealsPlain
<1>8. /\ T(A, Under(v, 0, a), a) /\ T(B, Under(v, 1, b), b) /\ T(C, Under(v, 2, c), c)
      /\ T(D, Under(v, 3, d), d) /\ T(E, Under(v, 4, e), e) /\ T(F, Under(v, 7, f), f)
      /\ T(G, Under(v, 5, g), g)
  BY <1>4, <1>5, <1>6
<1> HIDE DEF T
<1>9. T(A \o B, Under(v, 0, a) \cup Under(v, 1, b), a \cup b) BY <1>7, <1>8
<1>10. T(A \o B \o C, Under(v, 0, a) \cup Under(v, 1, b) \cup Under(v, 2, c), a \cup b \cup c)
  BY <1>7, <1>8, <1>9
<1>11. T(A \o B \o C \o D,
         Under(v, 0, a) \cup Under(v, 1, b) \cup Under(v, 2, c) \cup Under(v, 3, d),
         a \cup b \cup c \cup d)
  BY <1>7, <1>8, <1>10
<1>12. T(A \o B \o C \o D \o E,
         Under(v, 0, a) \cup Under(v, 1, b) \cup Under(v, 2, c) \cup Under(v, 3, d)
           \cup Under(v, 4, e),
         a \cup b \cup c \cup d \cup e)
  BY <1>7, <1>8, <1>11
<1>13. T(A \o B \o C \o D \o E \o F,
         Under(v, 0, a) \cup Under(v, 1, b) \cup Under(v, 2, c) \cup Under(v, 3, d)
           \cup Under(v, 4, e) \cup Under(v, 7, f),
         a \cup b \cup c \cup d \cup e \cup f)
  BY <1>7, <1>8, <1>12
<1>14. T(A \o B \o C \o D \o E \o F \o G,
         Under(v, 0, a) \cup Under(v, 1, b) \cup Under(v, 2, c) \cup Under(v, 3, d)
           \cup Under(v, 4, e) \cup Under(v, 7, f) \cup Under(v, 5, g),
         a \cup b \cup c \cup d \cup e \cup f \cup g)
  BY <1>7, <1>8, <1>13
<1> QED BY <1>1, <1>14 DEF T, a, b, c, d, e, f, g, v, SubrecordsHave, SubrecordsUnder

\* The bits that decode_xact_xinfo names.
LEMMA XinfoNames ==
  LET t == decode_xact_xinfo
  IN  /\ {"HAS_DBINFO", "HAS_SUBXACTS", "HAS_RELFILELOCATORS", "HAS_INVALS", "HAS_TWOPHASE",
          "HAS_ORIGIN", "HAS_GID"} \subseteq DOMAIN t
      /\ t["HAS_DBINFO"] = 0 /\ t["HAS_SUBXACTS"] = 1 /\ t["HAS_RELFILELOCATORS"] = 2
      /\ t["HAS_INVALS"] = 3 /\ t["HAS_TWOPHASE"] = 4 /\ t["HAS_ORIGIN"] = 5 /\ t["HAS_GID"] = 7
BY DEF decode_xact_xinfo

LEMMA XinfoSays ==
  ASSUME NEW v
  PROVE  LET W == Named(decode_xact_xinfo, v)
         IN  /\ "HAS_DBINFO" \in W <=> 0 \in v
             /\ "HAS_SUBXACTS" \in W <=> 1 \in v
             /\ "HAS_RELFILELOCATORS" \in W <=> 2 \in v
             /\ "HAS_INVALS" \in W <=> 3 \in v
             /\ "HAS_TWOPHASE" \in W <=> 4 \in v
             /\ "HAS_ORIGIN" \in W <=> 5 \in v
             /\ "HAS_GID" \in W <=> 7 \in v
BY XinfoNames, NamedIn

LEMMA UnderIs == \A v, b, names, n : n \in Under(v, b, names) <=> b \in v /\ n \in names
BY DEF Under

\* xact_end: each subrecord is there if its bit of xinfo is.
LEMMA EndAgrees ==
  ASSUME NEW is_commit \in BOOLEAN, NEW info, NEW value
  PROVE  Agrees(xact_end(is_commit), info, value, {})
<1> DEFINE v == value["xinfo"]
           i == IF is_commit THEN {"ninvals"} ELSE {}
           S == SubrecordsUnder(v, i)
           N == SubrecordsHave(i)
           W == Named(decode_xact_xinfo, v)
           a == time("xact_time")
           b == Some(flags("xinfo", 4, decode_xact_xinfo))
           c == Info80(TRUE)
           p == <<a>>
           q == <<b>>
           s == parse_xact_subrecords(is_commit)
           r == If(c, q \o s)
           t == {"xact_time"}
           Z == IF Has(c, info, value) THEN S ELSE {}
           Y == IF Has(c, info, value) THEN W ELSE {}
<1>1. xact_end(is_commit) = p \o r BY DEF xact_end
<1>2. Reveals(s, info, value, S, {}, N, N) BY SubrecordsReveal
<1>3. Silent(a) /\ a.name = "xact_time" BY SilentItems
<1>4. b.kind = "flags" /\ b.name = "xinfo" /\ b.table = decode_xact_xinfo BY DEF Some, flags
<1>5. c.on # "bits" BY DEF Info80
<1>6. "xinfo" \notin Optional /\ "xact_time" \notin Optional BY DEF Optional
<1> HIDE DEF a, b, c, s
<1>7. Tuple(p, 1) /\ p[1] = a /\ Tuple(q, 1) /\ q[1] = b /\ 1 \in Nat BY Tuples
<1> HIDE DEF p, q, v, N
<1>8. Reveals(p, info, value, t, {}, t, {})
  <2>1. {p[k].name : k \in 1 .. 1} = t /\ \A k \in 1 .. 1 : Silent(p[k]) BY <1>3, <1>7
  <2> HIDE DEF t
  <2> QED BY <1>7, <2>1, RevealsItems
<1>9. Reveals(q, info, value, {}, W, {}, {})
  <2>1. q[1].kind = "flags" /\ q[1].name \notin Optional /\ q[1].table = decode_xact_xinfo
        /\ q[1].name = "xinfo"
    BY <1>4, <1>6, <1>7
  <2>2. \A k \in 1 .. 1 : k = 1 \/ (Silent(q[k]) /\ q[k].name \notin Optional) OBVIOUS
  <2>3. Reveals(q, info, value, {}, Named(q[1].table, value[q[1].name]), {}, {})
    BY <1>7, <2>1, <2>2, RevealsFlags
  <2> QED BY <2>1, <2>3 DEF v
<1> HIDE DEF S, W, t
<1>10. Reveals(q \o s, info, value, S, W, N, N)
  <2>1. Reveals(q \o s, info, value, {} \cup S, W \cup {}, {} \cup N, {} \cup N)
    BY <1>2, <1>9, RevealsJoin
  <2>2. {} \cup S = S /\ W \cup {} = W /\ {} \cup N = N OBVIOUS
  <2> QED BY <2>1, <2>2
<1>11. Reveals(r, info, value, Z, Y, N, IF c.on = "bits" THEN N ELSE N) BY <1>10, RevealsIf
<1>12. Reveals(r, info, value, Z, Y, N, N)
  <2>1. (IF c.on = "bits" THEN N ELSE N) = N OBVIOUS
  <2> HIDE DEF r, Z, Y
  <2> QED BY <1>11, <2>1
<1> HIDE DEF r
<1>13. Reveals(p \o r, info, value, t \cup Z, {} \cup Y, t \cup N, {} \cup N)
  BY <1>8, <1>12, RevealsJoin
<1>14. ASSUME NEW n \in Optional \cap ({} \cup N)
       PROVE  n \in t \cup Z <=> AnnouncedBy[n] \cap (({} \cup Y) \cup {}) # {}
  <2>1. n \in Optional /\ n \in N OBVIOUS
  <2>2. n \notin t BY <1>6, <2>1 DEF t
  <2>3. n \in Z <=> Has(c, info, value) /\ n \in S OBVIOUS
  <2>4. AnnouncedBy[n] \cap (({} \cup Y) \cup {}) # {} <=>
          Has(c, info, value) /\ AnnouncedBy[n] \cap W # {}
    OBVIOUS
  <2>5. n \in S <=> AnnouncedBy[n] \cap W # {}
    <3>1. n \in {"dbId", "tsId", "nsubxacts", "nrels", "2pc_xid", "gid", "origin_lsn"} \cup i
      BY <2>1 DEF N, SubrecordsHave, Optional
    <3>2. n \in S <=> \/ 0 \in v /\ n \in {"dbId", "tsId"}
                      \/ 1 \in v /\ n \in {"nsubxacts", "subxid"}
                      \/ 2 \in v /\ n \in {"nrels", "rel"}
                      \/ 3 \in v /\ n \in i
                      \/ 4 \in v /\ n \in {"2pc_xid"}
                      \/ 7 \in v /\ n \in {"gid"}
                      \/ 5 \in v /\ n \in {"origin_lsn", "origin_ts"}
      BY UnderIs DEF S, SubrecordsUnder
    <3> DEFINE J == AnnouncedBy[n] \cap W # {}
    <3>3. /\ n \in {"dbId", "tsId"} => (J <=> 0 \in v)
          /\ n = "nsubxacts" => (J <=> 1 \in v)
          /\ n = "nrels" => (J <=> 2 \in v)
          /\ n = "ninvals" => (J <=> 3 \in v)
          /\ n = "2pc_xid" => (J <=> 4 \in v)
          /\ n = "gid" => (J <=> 7 \in v)
          /\ n = "origin_lsn" => (J <=> 5 \in v)
      BY XinfoSays, Announcements DEF W
    <3>4. n \in i => n = "ninvals" OBVIOUS
    <3>5. "ninvals" \in i \/ n # "ninvals" BY <3>1
    <3> HIDE DEF J, i
    <3>6. n \in S <=> J BY <3>1, <3>2, <3>3, <3>4, <3>5
    <3> QED BY <3>6 DEF J
  <2> HIDE DEF Z
  <2> QED BY <2>2, <2>3, <2>4, <2>5
<1> HIDE DEF Z, Y
<1> QED BY <1>1, <1>13, <1>14, RevealsAgrees

\* The flags that the description of a block takes out of the main data.
Outside(j) == IF j.block = MAIN THEN {} ELSE Named(decode_heap_update_flags, j.main_flags)

\* A program without parts under flags, or one whose flags say which of them are there.
Clear(p, info, value, outside) == Bare(p) \/ Agrees(p, info, value, outside)

LEMMA NoneBare == Bare(<<>>)
<1>1. Flat(<<>>, 0, <<>>, 0) BY DEF Flat, Tuple
<1> QED BY <1>1, Flats

LEMMA MainClear ==
  ASSUME NEW info, NEW value, NEW rmgr, NEW op
  PROVE  Clear(describe_main_data(rmgr, op), info, value, {})
<1> DEFINE C(p) == Clear(p, info, value, {})
           P(T) == C(Program(T, op))
<1>1. ASSUME NEW T, NEW except, BareAll(T, except), \A p \in except : C(p) PROVE P(T)
  BY <1>1, NoneBare DEF Program, Clear, BareAll
<1>2. P(describe_heap_main)
  <2>1. C(heap_update) /\ C(describe_heap_main.DELETE) BY UpdateAgrees, DeleteAgrees DEF Clear
  <2> QED BY <1>1, <2>1, LikeHeap
<1>3. P(describe_heap2_main)
  <2>1. C(prune) BY PruneAgrees DEF Clear
  <2>2. BareAll(describe_heap2_main, {prune}) BY LikeHeap2
  <2> HIDE DEF C, P
  <2> QED BY <1>1, <2>1, <2>2
<1>4. P(describe_xact_main)
  <2>1. C(xact_end(TRUE)) /\ C(xact_end(FALSE)) BY EndAgrees DEF Clear
  <2> DEFINE e == {xact_end(TRUE), xact_end(FALSE)}
  <2>2. BareAll(describe_xact_main, e) BY LikeXact
  <2> HIDE DEF C, P
  <2>3. \A p \in e : C(p) BY <2>1
  <2> HIDE DEF e
  <2> QED BY <1>1, <2>2, <2>3
<1>5. ASSUME NEW T, BareAll(T, {}) PROVE P(T) BY <1>1, <1>5
<1>6. C(<<>>) BY NoneBare DEF Clear
<1> HIDE DEF P, C
<1>7. /\ P(describe_xlog_main) /\ P(describe_smgr_main) /\ P(describe_clog_main)
      /\ P(describe_database_main) /\ P(describe_tablespace_main) /\ P(describe_multixact_main)
      /\ P(describe_relmap_main) /\ P(describe_standby_main) /\ P(describe_replorigin_main)
      /\ P(describe_logical_msg_main) /\ P(describe_btree_main) /\ P(describe_seq_main)
      /\ P(describe_commit_ts_main)
  BY <1>5, LikeXlog, LikeSmgr, LikeSmall, LikeCounted, LikeBtree, LikeSequence, LikeCommitTs
<1>8. C(describe_main_data(rmgr, op)) BY <1>2, <1>3, <1>4, <1>6, <1>7 DEF describe_main_data, P
<1> QED BY <1>8 DEF C

LEMMA BlockClear ==
  ASSUME NEW info, NEW value, NEW rmgr, NEW op, NEW idx
  PROVE  Clear(describe_block_data(rmgr, op, idx), info, value,
               Named(decode_heap_update_flags, value["flags"]))
<1> DEFINE C(p) == Clear(p, info, value, Named(decode_heap_update_flags, value["flags"]))
<1>1. C(heap_new_tuple) /\ \A p : Bare(p) => C(p) BY NewTupleAgrees DEF Clear
<1> HIDE DEF C
<1>2. \A o \in DOMAIN describe_heap_block_data : C(describe_heap_block_data[o])
  BY <1>1, LikeHeapBlock DEF BareAll
<1>3. C(<<>>) /\ C(describe_heap2_block_data) BY <1>1, NoneBare, LikeHeap2
<1>4. C(Program(describe_heap_block_data, op)) BY <1>2, <1>3 DEF Program
<1>5. C(describe_block_data(rmgr, op, idx)) BY <1>3, <1>4 DEF describe_block_data
<1> QED BY <1>5 DEF C

LEMMA AllClear ==
  ASSUME NEW j \in Jobs, Regular(j), ProgramOf(j) # <<>>
  PROVE  Clear(ProgramOf(j), j.info, j.value, Outside(j))
<1>1. CASE j.block = MAIN
  <2>1. ProgramOf(j) = describe_main_data(j.rmgr, from_xl_info(j.rmgr, j.info))
    BY <1>1 DEF ProgramOf, ParserOf
  <2>2. Outside(j) = {} BY <1>1 DEF Outside
  <2> QED BY <2>1, <2>2, MainClear
<1>2. CASE j.block # MAIN
  <2>1. ProgramOf(j) = describe_block_data(j.rmgr, from_xl_info(j.rmgr, j.info), j.block)
    BY <1>2 DEF ProgramOf, ParserOf
  <2>2. j.value["flags"] = j.main_flags BY <1>2, ServerWrites
  <2>3. Outside(j) = Named(decode_heap_update_flags, j.value["flags"]) BY <1>2, <2>2 DEF Outside
  <2> QED BY <2>1, <2>3, BlockClear
<1> QED BY <1>1, <1>2

(***************************************************************************)
(* The words of the flags lines and the parts shown say the same: the      *)
(* decode_* tables and the conditions of the parsers read the same bits,   *)
(* in whatever payload a server wrote.                                     *)
(***************************************************************************)
THEOREM FlagsNameTheParts == Spec => []NamedIsShown
<1>1. ASSUME Shows PROVE NamedIsShown
  <2> SUFFICES ASSUME job.intact, pc = "done", NEW part \in DOMAIN AnnouncedBy \cap UnderFlags
               PROVE  (\E i \in DOMAIN lines : lines[i].name = part)
                        <=> AnnouncedBy[part] \cap NamesShown # {}
    BY DEF NamedIsShown
  <2> DEFINE p == ProgramOf(job)
             info == job.info
             value == job.value
             written == Written(p, Layout(job))
             Words == UNION {lines[i].names : i \in DOMAIN lines}
  <2>1. Parser = p /\ job \in Jobs BY <1>1, MostIs DEF Shows, Describing
  <2>2. IsSeq(p) /\ DOMAIN p = 1 .. Len(p) BY ProgramFlows, SeqDomain
  <2>3. part \in Optional BY Announcements
  <2>4. Flagged(p, part)
    <3>1. PICK m \in DOMAIN p : /\ p[m].kind = "if" /\ p[m].cond.on = "bits"
                                /\ \E k \in m + 1 .. m + p[m].jump : p[k].name = part
      BY <2>1 DEF UnderFlags
    <3> QED BY <2>2, <3>1 DEF Flagged
  <2>5. p # <<>> /\ Parser # <<>>
    <3>1. DOMAIN p # {} BY <2>2, <2>4 DEF Flagged
    <3> QED BY <2>1, <3>1
  <2>15. Regular(job)
    <3>1. ~Lone(p) BY <2>4 DEF Lone, Flagged
    <3> QED BY <3>1, MistakenIsLone DEF Regular
  <2>6. Agrees(p, info, value, Outside(job))
    <3>1. ~Bare(p) BY <2>4 DEF Bare, Flagged
    <3> QED BY <2>1, <2>5, <2>15, <3>1, AllClear DEF Clear
  <2>7. written = {k \in 1 .. Len(p) : p[k].kind \notin {"if", "skip"} /\ Held(p, k, info, value)}
    BY <2>1, <2>5, <2>6, <2>15, HeldIsWritten DEF Agrees
  <2>13. NamesShown = Words \cup Outside(job) BY DEF NamesShown, Outside
  <2>14. HasPart(p, part, info, value) <=>
           \E w \in AnnouncedBy[part] : HasWord(p, w, info, value) \/ w \in Outside(job)
    BY <2>3, <2>4, <2>6 DEF Agrees
  <2>16. CASE job.len = 0
    <3>1. ASSUME NEW i \in DOMAIN lines PROVE lines[i].name # part /\ lines[i].names = {}
      <4>1. lines[i] = Note("no main data") \/ lines[i] = Note("bytes") BY <1>1, <2>16 DEF Shows, Untold
      <4>2. Note("no main data").name = "no main data" /\ Note("bytes").name = "bytes"
            /\ Note("no main data").names = {} /\ Note("bytes").names = {}
        BY DEF Note, Line
      <4>3. "no main data" \notin Optional /\ "bytes" \notin Optional BY DEF Optional
      <4> HIDE DEF Note
      <4> QED BY <2>3, <4>1, <4>2, <4>3
    <3>2. ~HasPart(p, part, info, value)
      <4> SUFFICES ASSUME HasPart(p, part, info, value) PROVE FALSE OBVIOUS
      <4>1. PICK k \in written : p[k].name = part BY <2>7 DEF HasPart
      <4>2. p[k].kind \in Telling BY <2>3, <2>6, <2>7, <4>1 DEF Agrees, AllTold
      <4>3. p[k].kind # "rest" /\ Elements(p[k], value) = 1 BY <4>2 DEF Telling, Elements
      <4>4. PlacesAre(p, value, Layout(job), job.place) BY <2>1, <2>5, <2>15, ServerWrites
      <4>5. 0 \in 0 .. (Elements(p[k], value) - 1) BY <4>3
      <4>6. <<p[k].name, 0>> \in DOMAIN job.place BY <4>3, <4>4, <4>5 DEF PlacesAre
      <4>7. DOMAIN job.place = {} BY <2>1, <2>5, <2>15, <2>16, NothingInEmpty
      <4> QED BY <4>6, <4>7
    <3>3. Words = {} BY <3>1
    <3> HIDE DEF p, info, value, Words, written
    <3> QED BY <2>13, <2>14, <3>1, <3>2, <3>3
  <2> SUFFICES ASSUME job.len # 0
               PROVE  (\E i \in DOMAIN lines : lines[i].name = part)
                        <=> AnnouncedBy[part] \cap NamesShown # {}
    BY <2>16
  <2>8. Tells(job, item, elem, Range(lines)) /\ item = Len(p) + 1 /\ Len(p) \in Nat
    BY <1>1, <2>1, <2>2, <2>5, <2>15, SeqLen DEF Shows, ToldSoFar
  <2>9. \A k \in written : /\ k < item
                           /\ p[k].kind \in Telling =>
                                \E l \in Range(lines) : /\ l.name = p[k].name
                                                        /\ p[k].kind = "flags" => Told(job, l, k)
    <3>1. \A k \in written : k < item BY <2>7, <2>8
    <3> QED BY <2>8, <3>1 DEF Tells
  <2>10. \A i \in DOMAIN lines : \E k \in written : Told(job, lines[i], k)
    BY <1>1, <2>5, <2>15, ToldAtEnd
  <2>11. (\E i \in DOMAIN lines : lines[i].name = part) <=> HasPart(p, part, info, value)
    <3>1. ASSUME NEW i \in DOMAIN lines, lines[i].name = part PROVE HasPart(p, part, info, value)
      <4>1. PICK k \in written : Told(job, lines[i], k) BY <2>10
      <4>2. p[k].name = part BY <3>1, <4>1 DEF Told
      <4> QED BY <2>7, <4>2 DEF HasPart
    <3>2. ASSUME HasPart(p, part, info, value) PROVE \E i \in DOMAIN lines : lines[i].name = part
      <4>1. PICK k \in written : p[k].name = part BY <2>7, <3>2 DEF HasPart
      <4>2. p[k].kind \in Telling BY <2>3, <2>6, <2>7, <4>1 DEF Agrees, AllTold
      <4>3. \E l \in Range(lines) : l.name = part BY <2>9, <4>1, <4>2
      <4> QED BY <4>3 DEF Range
    <3> QED BY <3>1, <3>2
  <2>12. \A w : w \in Words <=> HasWord(p, w, info, value)
    <3> TAKE w
    <3>1. ASSUME w \in Words PROVE HasWord(p, w, info, value)
      <4>1. PICK i \in DOMAIN lines : w \in lines[i].names BY <3>1
      <4>2. PICK k \in written : Told(job, lines[i], k) BY <2>10
      <4>3. p[k].kind = "flags" /\ w \in Named(p[k].table, value[p[k].name]) BY <4>1, <4>2 DEF Told
      <4> QED BY <2>7, <4>3 DEF HasWord
    <3>2. ASSUME HasWord(p, w, info, value) PROVE w \in Words
      <4>1. PICK k \in 1 .. Len(p) : /\ p[k].kind = "flags"
                                     /\ w \in Named(p[k].table, value[p[k].name])
                                     /\ Held(p, k, info, value)
        BY <3>2 DEF HasWord
      <4>2. k \in written /\ p[k].kind \in Telling BY <2>7, <4>1 DEF Telling
      <4>3. PICK l \in Range(lines) : Told(job, l, k) BY <2>9, <4>1, <4>2
      <4>4. l.names = Named(p[k].table, value[p[k].name]) BY <4>1, <4>3 DEF Told
      <4>5. PICK i \in DOMAIN lines : l = lines[i] BY DEF Range
      <4> QED BY <4>1, <4>4, <4>5
    <3> QED BY <3>1, <3>2
  <2> HIDE DEF p, info, value, Words, written
  <2> QED BY <2>11, <2>12, <2>13, <2>14
<1> QED BY <1>1, AlwaysShows, PTL
=============================================================================
