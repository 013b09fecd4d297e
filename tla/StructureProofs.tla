--------------------------- MODULE StructureProofs ---------------------------
(***************************************************************************)
(* Proofs about the parsers' programs, the structures the server writes    *)
(* and the arithmetic of timestamps.  Nothing here is about a behaviour:   *)
(* every program is followed item by item, once and for all payloads, and  *)
(* DescribeProofs builds its invariants on that.                           *)
(***************************************************************************)
EXTENDS Describe, TLAPS, SequenceTheorems, FiniteSetTheorems, FunctionTheorems,
        WellFoundedInduction

-----------------------------------------------------------------------------
(* Sequences of anything.                                                  *)

IsSeq(s) == \E S : s \in Seq(S)

LEMMA SeqLen ==
  ASSUME NEW s, IsSeq(s)
  PROVE  Len(s) \in Nat /\ s = [k \in 1 .. Len(s) |-> s[k]]
<1>1. PICK S : s \in Seq(S) BY DEF IsSeq
<1> QED BY <1>1, LenProperties

LEMMA SeqJoin ==
  ASSUME NEW s, NEW t, IsSeq(s), IsSeq(t)
  PROVE  /\ IsSeq(s \o t) /\ Len(s \o t) = Len(s) + Len(t)
         /\ \A k \in 1 .. Len(s) : (s \o t)[k] = s[k]
         /\ \A k \in 1 .. Len(t) : (s \o t)[Len(s) + k] = t[k]
<1>1. PICK S : s \in Seq(S) BY DEF IsSeq
<1>2. PICK T : t \in Seq(T) BY DEF IsSeq
<1>3. s \in Seq(S \cup T) /\ t \in Seq(S \cup T) BY <1>1, <1>2
<1>4. Len(s) \in Nat /\ Len(t) \in Nat BY <1>1, <1>2, LenProperties
<1> QED BY <1>3, <1>4, ConcatProperties DEF IsSeq

LEMMA SeqGrows ==
  ASSUME NEW s, IsSeq(s), NEW e
  PROVE  /\ IsSeq(Append(s, e)) /\ Len(Append(s, e)) = Len(s) + 1
         /\ Append(s, e)[Len(s) + 1] = e
         /\ \A k \in 1 .. Len(s) : Append(s, e)[k] = s[k]
<1>1. PICK S : s \in Seq(S) BY DEF IsSeq
<1>2. s \in Seq(S \cup {e}) /\ e \in S \cup {e} BY <1>1
<1> QED BY <1>2, AppendProperties DEF IsSeq

LEMMA SeqMayGrow ==
  ASSUME NEW s, IsSeq(s), NEW t, t = s \/ \E e : t = Append(s, e)
  PROVE  /\ IsSeq(t) /\ Len(s) \in Nat /\ Len(t) \in Nat
         /\ Len(t) = Len(s) \/ Len(t) = Len(s) + 1
<1>1. CASE t = s BY <1>1, SeqLen
<1>2. CASE \E e : t = Append(s, e)
  <2>1. PICK e : t = Append(s, e) BY <1>2
  <2>2. IsSeq(t) /\ Len(t) = Len(s) + 1 BY <2>1, SeqGrows
  <2> QED BY <2>2, SeqLen
<1> QED BY <1>1, <1>2

\* A set of numbers has a least one.
LEMMA LeastOf ==
  ASSUME NEW S, S \subseteq Nat, S # {}
  PROVE  \E m \in S : \A x \in S : m <= x
<1>1. PICK m \in S : \A x \in S : ~ (<<x, m>> \in OpToRel(<, Nat)) BY NatLessThanWellFounded, WFMin
<1>2. ASSUME NEW x \in S PROVE m <= x
  <2>1. ~ (x < m) BY <1>1 DEF OpToRel
  <2> QED BY <2>1
<1> QED BY <1>2

-----------------------------------------------------------------------------
(* Programs of reads.                                                      *)

\* The fields that hold numbers; the other fields that control a parser are flags.
Numbers == {"nsubxacts", "nrels", "ninvals", "ntablespaces", "nmembers", "nlocks", "xcnt",
            "subxcnt", "gidlen", "ntuples", "nrelids", "prefix_size"}

Controls == {"flags", "count", "size"}
Gives(it) == IF it.kind \in Controls THEN {it.name} ELSE {}

(***************************************************************************)
(* What an item needs to have been read, with a and b what has been read   *)
(* before and after it.                                                    *)
(***************************************************************************)
Step(it, a, b) ==
  /\ it.kind \in {"int", "unshown", "time", "skip", "cstr", "name", "indexed", "rest", "flags",
                  "count", "size", "array", "sized", "if"}
  /\ it.width \in Nat
  /\ b \subseteq a \cup Gives(it)
  /\ it.kind \in {"count", "size"} => it.name \in Numbers
  /\ it.kind = "flags" => it.name \notin Numbers
  /\ it.kind = "sized" => it.of \in a \cap Numbers
  /\ it.kind = "array" => /\ it.width # 0 /\ it.numbers \in Nat \ {0} /\ it.cap \in Nat
                          /\ \/ \E c \in a \cap Numbers : it.of = {c}
                             \/ it.of = {"xcnt", "subxcnt"} /\ {"xcnt", "subxcnt"} \subseteq a
  /\ it.kind = "if" => it.jump \in Nat /\ (it.cond.on = "bits" => it.cond.field \in a)

\* g[k] is what has been read before item k of p, whichever way it is reached.
Notes(p, a, z, g) ==
  /\ g[1] \subseteq a /\ z \subseteq g[Len(p) + 1]
  /\ \A k \in 1 .. Len(p) :
       /\ Step(p[k], g[k], g[k + 1])
       /\ p[k].kind = "if" => k + p[k].jump <= Len(p) /\ g[k + 1 + p[k].jump] \subseteq g[k]

Flow(p, a, z) == IsSeq(p) /\ \E g : Notes(p, a, z, g)

LEMMA FlowJoin ==
  ASSUME NEW p, NEW q, NEW a, NEW m, NEW z, Flow(p, a, m), Flow(q, m, z)
  PROVE  Flow(p \o q, a, z)
<1> DEFINE n == Len(p)
           l == Len(q)
<1>1. PICK g : Notes(p, a, m, g) BY DEF Flow
<1>2. PICK h : Notes(q, m, z, h) BY DEF Flow
<1>3. n \in Nat /\ l \in Nat BY SeqLen DEF Flow
<1>4. /\ IsSeq(p \o q) /\ Len(p \o q) = n + l
      /\ \A k \in 1 .. n : (p \o q)[k] = p[k]
      /\ \A k \in 1 .. l : (p \o q)[n + k] = q[k]
  BY SeqJoin DEF Flow
<1> DEFINE f == [k \in 1 .. n + l + 1 |-> IF k <= n THEN g[k] ELSE h[k - n]]
<1> HIDE DEF n, l
<1>5. /\ \A k \in 1 .. n : f[k] = g[k]
      /\ \A k \in 1 .. l + 1 : f[n + k] = h[k]
  <2>1. ASSUME NEW k \in 1 .. l + 1 PROVE f[n + k] = h[k]
    <3>1. n + k \in 1 .. n + l + 1 /\ ~(n + k <= n) /\ (n + k) - n = k BY <1>3
    <3> QED BY <3>1
  <2>2. ASSUME NEW k \in 1 .. n PROVE f[k] = g[k] BY <1>3
  <2> QED BY <2>1, <2>2
<1> HIDE DEF f
<1>6. f[n + 1] \subseteq g[n + 1] BY <1>1, <1>2, <1>3, <1>5 DEF Notes, n
<1>7. \A k \in 1 .. n + 1 : f[k] \subseteq g[k] BY <1>3, <1>5, <1>6
<1>8. ASSUME NEW k \in 1 .. n
      PROVE  /\ Step(p[k], f[k], f[k + 1])
             /\ p[k].kind = "if" => k + p[k].jump <= n + l /\ f[k + 1 + p[k].jump] \subseteq f[k]
  <2>1. /\ Step(p[k], g[k], g[k + 1])
        /\ p[k].kind = "if" => k + p[k].jump <= n /\ g[k + 1 + p[k].jump] \subseteq g[k]
    BY <1>1 DEF Notes, n
  <2>2. f[k] = g[k] /\ f[k + 1] \subseteq g[k + 1] BY <1>3, <1>5, <1>7
  <2>3. Step(p[k], f[k], f[k + 1]) BY <2>1, <2>2 DEF Step
  <2>4. ASSUME p[k].kind = "if"
        PROVE  k + p[k].jump <= n + l /\ f[k + 1 + p[k].jump] \subseteq f[k]
    <3>1. p[k].jump \in Nat BY <2>1, <2>4 DEF Step
    <3>2. k + 1 + p[k].jump \in 1 .. n + 1 BY <1>3, <2>1, <2>4, <3>1
    <3> QED BY <1>3, <1>7, <2>1, <2>2, <2>4, <3>1, <3>2
  <2> QED BY <2>3, <2>4
<1>9. ASSUME NEW k \in 1 .. l
      PROVE  /\ Step(q[k], f[n + k], f[n + k + 1])
             /\ q[k].kind = "if" => /\ n + k + q[k].jump <= n + l
                                    /\ f[n + k + 1 + q[k].jump] \subseteq f[n + k]
  <2>1. /\ Step(q[k], h[k], h[k + 1])
        /\ q[k].kind = "if" => k + q[k].jump <= l /\ h[k + 1 + q[k].jump] \subseteq h[k]
    BY <1>2 DEF Notes, l
  <2>2. f[n + k] = h[k] /\ f[n + (k + 1)] = h[k + 1] /\ n + k + 1 = n + (k + 1) BY <1>3, <1>5
  <2>3. ASSUME q[k].kind = "if"
        PROVE  n + k + q[k].jump <= n + l /\ f[n + k + 1 + q[k].jump] \subseteq f[n + k]
    <3>1. q[k].jump \in Nat BY <2>1, <2>3 DEF Step
    <3>2. k + 1 + q[k].jump \in 1 .. l + 1 /\ n + k + 1 + q[k].jump = n + (k + 1 + q[k].jump)
      BY <1>3, <2>1, <2>3, <3>1
    <3> QED BY <1>3, <1>5, <2>1, <2>2, <2>3, <3>1, <3>2
  <2> QED BY <2>1, <2>2, <2>3
<1>10. ASSUME NEW k \in 1 .. n + l
       PROVE  /\ Step((p \o q)[k], f[k], f[k + 1])
              /\ (p \o q)[k].kind = "if" => /\ k + (p \o q)[k].jump <= n + l
                                            /\ f[k + 1 + (p \o q)[k].jump] \subseteq f[k]
  <2>1. CASE k <= n BY <1>3, <1>4, <1>8, <2>1
  <2>2. CASE ~(k <= n)
    <3>1. k - n \in 1 .. l /\ n + (k - n) = k BY <1>3, <2>2
    <3>2. PICK j \in 1 .. l : k = n + j BY <3>1
    <3> QED BY <1>4, <1>9, <3>2
  <2> QED BY <2>1, <2>2
<1>11. f[1] \subseteq a
  <2>1. 1 \in 1 .. n + 1 /\ g[1] \subseteq a BY <1>1, <1>3 DEF Notes
  <2> QED BY <1>7, <2>1
<1>12. z \subseteq f[n + l + 1]
  <2>1. l + 1 \in 1 .. l + 1 /\ n + l + 1 = n + (l + 1) BY <1>3
  <2> QED BY <1>2, <1>5, <2>1 DEF Notes, l
<1>13. Notes(p \o q, a, z, f) BY <1>4, <1>10, <1>11, <1>12 DEF Notes
<1> QED BY <1>4, <1>13 DEF Flow

LEMMA FlowOne ==
  ASSUME NEW it, NEW a, NEW z, Step(it, a, z), it.kind # "if"
  PROVE  Flow(<<it>>, a, z)
<1>1. IsSeq(<<it>>) /\ Len(<<it>>) = 1 /\ <<it>>[1] = it
  <2>1. <<it>> \in Seq({it}) OBVIOUS
  <2> QED BY <2>1 DEF IsSeq
<1>2. Notes(<<it>>, a, z, [k \in 1 .. 2 |-> IF k = 1 THEN a ELSE z]) BY <1>1 DEF Notes
<1> QED BY <1>1, <1>2 DEF Flow

LEMMA FlowLess ==
  ASSUME NEW p, NEW a, NEW z, NEW y, Flow(p, a, z), y \subseteq z
  PROVE  Flow(p, a, y)
<1>1. PICK g : Notes(p, a, z, g) BY DEF Flow
<1>2. Notes(p, a, y, g) BY <1>1 DEF Notes
<1> QED BY <1>2 DEF Flow

\* Items that need nothing.
Simple(it) ==
  /\ it.kind \in {"int", "unshown", "time", "skip", "cstr", "name", "indexed", "rest", "flags",
                  "count", "size"}
  /\ it.width \in Nat
  /\ it.kind \in {"count", "size"} => it.name \in Numbers
  /\ it.kind = "flags" => it.name \notin Numbers

LEMMA FlowSimple ==
  ASSUME NEW p, IsSeq(p), \A k \in 1 .. Len(p) : Simple(p[k]), NEW a
  PROVE  Flow(p, a, a)
<1>1. Len(p) \in Nat BY SeqLen
<1> DEFINE g == [k \in 1 .. Len(p) + 1 |-> a]
<1>2. \A k \in 1 .. Len(p) + 1 : g[k] = a OBVIOUS
<1> HIDE DEF g
<1>3. g[1] = a /\ g[Len(p) + 1] = a /\ \A k \in 1 .. Len(p) : g[k] = a /\ g[k + 1] = a BY <1>1, <1>2
<1>4. \A k \in 1 .. Len(p) : Step(p[k], a, a) /\ p[k].kind # "if" BY DEF Simple, Step
<1>5. Notes(p, a, a, g) BY <1>3, <1>4 DEF Notes
<1> QED BY <1>5 DEF Flow

\* A part that is read on a condition.
LEMMA FlowIf ==
  ASSUME NEW cond, NEW p, NEW a, NEW z, Flow(p, a, z), a \subseteq z,
         cond.on = "bits" => cond.field \in a
  PROVE  Flow(If(cond, p), a, a)
<1>1. PICK g : Notes(p, a, z, g) BY DEF Flow
<1> DEFINE n == Len(p)
           it == [kind |-> "if", name |-> "part", width |-> 0, cond |-> cond, jump |-> n]
           f == [k \in 1 .. n + 2 |-> IF k = 1 THEN a ELSE IF k = n + 2 THEN a ELSE g[k - 1]]
<1>2. n \in Nat BY SeqLen DEF Flow
<1>3. IsSeq(<<it>>) /\ Len(<<it>>) = 1 /\ <<it>>[1] = it
  <2> HIDE DEF it
  <2>1. <<it>> \in Seq({it}) OBVIOUS
  <2> QED BY <2>1 DEF IsSeq
<1>4. If(cond, p) = <<it>> \o p BY DEF If
<1>5. it.kind = "if" /\ it.cond = cond /\ it.jump = n /\ it.width = 0 OBVIOUS
<1> HIDE DEF it
<1>6. /\ IsSeq(<<it>> \o p) /\ Len(<<it>> \o p) = 1 + n
      /\ (<<it>> \o p)[1] = it
      /\ \A k \in 1 .. n : (<<it>> \o p)[1 + k] = p[k]
  BY <1>3, SeqJoin DEF Flow
<1> HIDE DEF n
<1>7. /\ f[1] = a /\ f[n + 2] = a
      /\ \A k \in 1 .. n : f[1 + k] = g[k]
      /\ \A k \in 1 .. n + 1 : f[1 + k] \subseteq g[k]
  <2>1. a \subseteq g[n + 1] BY <1>1 DEF Notes, n
  <2>2. ASSUME NEW k \in 1 .. n PROVE f[1 + k] = g[k]
    <3>1. 1 + k \in 1 .. n + 2 /\ 1 + k # 1 /\ 1 + k # n + 2 /\ (1 + k) - 1 = k BY <1>2
    <3> QED BY <3>1
  <2>3. f[1] = a /\ f[n + 2] = a BY <1>2
  <2> HIDE DEF f
  <2>4. ASSUME NEW k \in 1 .. n + 1 PROVE f[1 + k] \subseteq g[k]
    <3>1. CASE k = n + 1
      <4>1. 1 + k = n + 2 BY <1>2, <3>1
      <4> QED BY <2>1, <2>3, <3>1, <4>1
    <3>2. CASE k # n + 1 BY <1>2, <2>2, <3>2
    <3> QED BY <3>1, <3>2
  <2> QED BY <2>2, <2>3, <2>4
<1> HIDE DEF f
<1>8. Step(it, f[1], f[1 + 1]) /\ 1 + it.jump <= 1 + n /\ f[1 + 1 + it.jump] \subseteq f[1]
  <2>1. 1 \in 1 .. n + 1 /\ 1 + 1 + n = n + 2 /\ g[1] \subseteq a BY <1>1, <1>2 DEF Notes
  <2>2. f[1 + 1] \subseteq a BY <1>7, <2>1
  <2> QED BY <1>2, <1>5, <1>7, <2>1, <2>2 DEF Step, Gives, Controls
<1>9. ASSUME NEW k \in 1 .. n
      PROVE  /\ Step(p[k], f[1 + k], f[1 + k + 1])
             /\ p[k].kind = "if" => /\ 1 + k + p[k].jump <= 1 + n
                                    /\ f[1 + k + 1 + p[k].jump] \subseteq f[1 + k]
  <2>1. /\ Step(p[k], g[k], g[k + 1])
        /\ p[k].kind = "if" => k + p[k].jump <= n /\ g[k + 1 + p[k].jump] \subseteq g[k]
    BY <1>1 DEF Notes, n
  <2>2. f[1 + k] = g[k] /\ f[1 + k + 1] \subseteq g[k + 1]
    <3>1. k + 1 \in 1 .. n + 1 /\ 1 + k + 1 = 1 + (k + 1) BY <1>2
    <3> QED BY <1>7, <3>1
  <2>3. Step(p[k], f[1 + k], f[1 + k + 1]) BY <2>1, <2>2 DEF Step
  <2>4. ASSUME p[k].kind = "if"
        PROVE  /\ 1 + k + p[k].jump <= 1 + n
               /\ f[1 + k + 1 + p[k].jump] \subseteq f[1 + k]
    <3>1. p[k].jump \in Nat BY <2>1, <2>4 DEF Step
    <3>2. k + 1 + p[k].jump \in 1 .. n + 1 /\ 1 + k + 1 + p[k].jump = 1 + (k + 1 + p[k].jump)
      BY <1>2, <2>1, <2>4, <3>1
    <3> QED BY <1>2, <1>7, <2>1, <2>2, <2>4, <3>1, <3>2
  <2> QED BY <2>3, <2>4
<1>10. ASSUME NEW k \in 1 .. 1 + n
       PROVE  /\ Step((<<it>> \o p)[k], f[k], f[k + 1])
              /\ (<<it>> \o p)[k].kind = "if" => /\ k + (<<it>> \o p)[k].jump <= 1 + n
                                                /\ f[k + 1 + (<<it>> \o p)[k].jump] \subseteq f[k]
  <2>1. CASE k = 1 BY <1>6, <1>8, <2>1
  <2>2. CASE k # 1
    <3>1. k - 1 \in 1 .. n /\ k = 1 + (k - 1) BY <1>2, <2>2
    <3>2. PICK j \in 1 .. n : k = 1 + j BY <3>1
    <3> QED BY <1>6, <1>9, <3>2
  <2> QED BY <2>1, <2>2
<1>11. Notes(<<it>> \o p, a, a, f)
  <2>1. n + 2 = 1 + n + 1 BY <1>2
  <2> QED BY <1>6, <1>7, <1>10, <2>1 DEF Notes
<1> QED BY <1>4, <1>6, <1>11 DEF Flow
-----------------------------------------------------------------------------
(* The parsers.                                                            *)

\* n items that need nothing.
Plain(p, n) ==
  n \in Nat /\ p = [k \in 1 .. n |-> p[k]] /\ \A k \in 1 .. n : Simple(p[k])

LEMMA SeqIs ==
  ASSUME NEW p, NEW n \in Nat, p = [k \in 1 .. n |-> p[k]]
  PROVE  IsSeq(p) /\ Len(p) = n
<1> DEFINE S == {p[k] : k \in 1 .. n}
<1>1. [k \in 1 .. n |-> p[k]] \in Seq(S) /\ Len([k \in 1 .. n |-> p[k]]) = n OBVIOUS
<1> QED BY <1>1 DEF IsSeq

LEMMA PlainFlows ==
  ASSUME NEW p, NEW n, Plain(p, n), NEW a
  PROVE  Flow(p, a, a)
BY SeqIs, FlowSimple DEF Plain

\* n items of which the k-th finds what g[k] says has been read.
LEMMA FlowTuple ==
  ASSUME NEW p, NEW n \in Nat, p = [k \in 1 .. n |-> p[k]], NEW g, NEW a, NEW z,
         \A k \in 1 .. n : Step(p[k], g[k], g[k + 1]) /\ p[k].kind # "if",
         g[1] \subseteq a, z \subseteq g[n + 1]
  PROVE  Flow(p, a, z)
BY SeqIs DEF Flow, Notes

LEMMA SimpleReads ==
  /\ \A n : /\ Simple(u8(n)) /\ Simple(u16(n)) /\ Simple(u32(n)) /\ Simple(u64(n))
            /\ Simple(unshown(n)) /\ Simple(time(n)) /\ Simple(cstr(n))
            /\ Simple(name64(n)) /\ Simple(indexed(n))
  /\ \A n \in Nat : Simple(skip(n))
BY DEF Simple, u8, u16, u32, u64, unshown, time, cstr, name64, indexed, skip, Item

LEMMA SimpleControls ==
  /\ \A n \in Numbers : Simple(count(n)) /\ \A w \in Nat : Simple(size(n, w))
  /\ \A n, table : \A w \in Nat : n \notin Numbers => Simple(flags(n, w, table))
  /\ \A n, always : \A unit \in Nat : Simple(rest(n, unit, always))
BY DEF Simple, count, size, flags, rest, Item

LEMMA CheckpointFlows == \A a : Flow(checkpoint, a, a)
<1>1. Plain(checkpoint, 19) BY SimpleReads DEF Plain, checkpoint
<1> QED BY <1>1, PlainFlows

LEMMA XlogOperations ==
  DOMAIN describe_xlog_main =
    {"CHECKPOINT_SHUTDOWN", "CHECKPOINT_ONLINE", "NEXTOID", "BACKUP_END", "PARAMETER_CHANGE",
     "RESTORE_POINT", "FPW_CHANGE", "END_OF_RECOVERY", "OVERWRITE_CONTRECORD"}
BY DEF describe_xlog_main

LEMMA XlogFlows == \A op \in DOMAIN describe_xlog_main : Flow(describe_xlog_main[op], {}, {})
<1> DEFINE T == describe_xlog_main
<1>1. Plain(T.NEXTOID, 1) /\ Plain(T.BACKUP_END, 1) /\ Plain(T.FPW_CHANGE, 1)
  BY SimpleReads DEF Plain, describe_xlog_main
<1>2. Plain(T.PARAMETER_CHANGE, 8) BY SimpleReads DEF Plain, describe_xlog_main
<1>3. Plain(T.RESTORE_POINT, 2) /\ Plain(T.END_OF_RECOVERY, 4) /\ Plain(T.OVERWRITE_CONTRECORD, 2)
  BY SimpleReads DEF Plain, describe_xlog_main
<1>4. T.CHECKPOINT_SHUTDOWN = checkpoint /\ T.CHECKPOINT_ONLINE = checkpoint
  BY DEF describe_xlog_main
<1> HIDE DEF T
<1> QED BY <1>1, <1>2, <1>3, <1>4, XlogOperations, CheckpointFlows, PlainFlows DEF T

LEMMA AssignFlows == Flow(describe_xact_main.ASSIGNMENT, {}, {})
<1> DEFINE p == describe_xact_main.ASSIGNMENT
           g == <<{}, {}, {"nsubxacts"}, {"nsubxacts"}>>
<1>1. p = [k \in 1 .. 3 |-> p[k]] BY DEF describe_xact_main
<1>2. \A k \in 1 .. 3 : Step(p[k], g[k], g[k + 1]) /\ p[k].kind # "if"
  BY DEF describe_xact_main, Step, Gives, Controls, Numbers, u32, Item, count, array
<1>3. g[1] = {} OBVIOUS
<1> HIDE DEF p, g
<1>4. Flow(p, {}, {}) BY <1>1, <1>2, <1>3, FlowTuple
<1> QED BY <1>4 DEF p

LEMMA PrepareFlows == Flow(describe_xact_main.PREPARE, {}, {})
<1> DEFINE p == describe_xact_main.PREPARE
           g == [k \in 1 .. 18 |-> IF k < 16 THEN {} ELSE {"gidlen"}]
<1>1. p = [k \in 1 .. 17 |-> p[k]] BY DEF describe_xact_main
<1>2. \A k \in 1 .. 14 : Simple(p[k]) BY SimpleReads DEF describe_xact_main
<1>3. p[15] = size("gidlen", 2) /\ p[16] = u64("origin_lsn") /\ p[17] = sized("gid", "gidlen")
  BY DEF describe_xact_main
<1> HIDE DEF p
<1>4. \A k \in 1 .. 14 : Step(p[k], {}, {}) /\ p[k].kind # "if" BY <1>2 DEF Simple, Step
<1>5. Step(p[15], {}, {"gidlen"}) /\ p[15].kind # "if"
  BY <1>3 DEF Step, size, Item, Gives, Controls, Numbers
<1>6. Step(p[16], {"gidlen"}, {"gidlen"}) /\ p[16].kind # "if" BY <1>3 DEF Step, u64, Item
<1>7. Step(p[17], {"gidlen"}, {"gidlen"}) /\ p[17].kind # "if" BY <1>3 DEF Step, sized, Numbers
<1>8. /\ \A k \in 1 .. 14 : g[k] = {} /\ g[k + 1] = {}
      /\ g[1] = {} /\ g[15] = {}
      /\ g[16] = {"gidlen"} /\ g[17] = {"gidlen"} /\ g[18] = {"gidlen"}
  OBVIOUS
<1> HIDE DEF g
<1>9. \A k \in 1 .. 17 : Step(p[k], g[k], g[k + 1]) /\ p[k].kind # "if"
  <2> TAKE k \in 1 .. 17
  <2>1. CASE k \in 1 .. 14
    <3>1. g[k] = {} /\ g[k + 1] = {} BY <1>8, <2>1
    <3>2. Step(p[k], {}, {}) /\ p[k].kind # "if" BY <1>4, <2>1
    <3> QED BY <3>1, <3>2, Zenon
  <2>2. CASE k = 15
    <3>1. k + 1 = 16 BY <2>2
    <3> QED BY <1>5, <1>8, <2>2, <3>1
  <2>3. CASE k = 16
    <3>1. k + 1 = 17 BY <2>3
    <3> QED BY <1>6, <1>8, <2>3, <3>1
  <2>4. CASE k = 17
    <3>1. k + 1 = 18 BY <2>4
    <3> QED BY <1>7, <1>8, <2>4, <3>1
  <2> QED BY <2>1, <2>2, <2>3, <2>4
<1>10. g[1] \subseteq {} /\ {} \subseteq g[17 + 1] BY <1>8
<1>11. Flow(p, {}, {}) BY <1>1, <1>9, <1>10, FlowTuple
<1> QED BY <1>11 DEF p

\* A count and the array that it is the length of.
LEMMA CountedFlows ==
  ASSUME NEW c \in Numbers, NEW it, it.kind = "array", it.width \in Nat \ {0},
         it.numbers \in Nat \ {0}, it.cap \in Nat, it.of = {c}, NEW a
  PROVE  Flow(<<count(c), it>>, a, a)
<1> DEFINE x == count(c)
<1>1. Step(x, a, a \cup {c}) /\ x.kind # "if" BY DEF count, Item, Step, Gives, Controls
<1>2. Step(it, a \cup {c}, a) /\ it.kind # "if" BY DEF Step, Gives, Controls
<1> HIDE DEF x
<1> DEFINE g == <<a, a \cup {c}, a>>
           p == <<x, it>>
<1>3. g[1] = a /\ g[2] = a \cup {c} /\ g[3] = a /\ p[1] = x /\ p[2] = it OBVIOUS
<1>4. p = [k \in 1 .. 2 |-> p[k]] OBVIOUS
<1> HIDE DEF g, p
<1>5. \A k \in 1 .. 2 : Step(p[k], g[k], g[k + 1]) /\ p[k].kind # "if"
  <2> TAKE k \in 1 .. 2
  <2>1. (k = 1 /\ k + 1 = 2) \/ (k = 2 /\ k + 1 = 3) OBVIOUS
  <2> QED BY <1>1, <1>2, <1>3, <2>1
<1>6. g[1] \subseteq a /\ a \subseteq g[2 + 1] BY <1>3
<1>7. Flow(p, a, a) BY <1>4, <1>5, <1>6, FlowTuple
<1> QED BY <1>7 DEF p, x

LEMMA SubrecordsFlow ==
  \A is_commit \in BOOLEAN : Flow(parse_xact_subrecords(is_commit), {"xinfo"}, {"xinfo"})
<1> TAKE is_commit \in BOOLEAN
<1> DEFINE X == {"xinfo"}
           B(n) == Bits("xinfo", {n})
           p1 == <<u32("dbId"), u32("tsId")>>
           p2 == <<count("nsubxacts"), array_over("subxid", 4, 1, {"nsubxacts"}, 8, "cast")>>
           p3 == <<count("nrels"), array_over("rel", 4, 3, {"nrels"}, 8, "cast")>>
           p4 == <<u32("ninvals")>>
           p5 == <<u32("2pc_xid")>>
           p6 == <<cstr("gid")>>
           p7 == <<u64("origin_lsn"), time("origin_ts")>>
           q4 == IF is_commit THEN If(B(3), p4) ELSE <<>>
<1>1. /\ Plain(p1, 2) /\ Plain(p5, 1) /\ Plain(p6, 1) /\ Plain(p7, 2) BY SimpleReads DEF Plain
<1>2. Plain(p4, 1) BY SimpleReads DEF Plain
<1>3. Plain(<<>>, 0) BY DEF Plain
<1>4. Flow(p2, X, X) /\ Flow(p3, X, X)
  <2> DEFINE x == array_over("subxid", 4, 1, {"nsubxacts"}, 8, "cast")
             y == array_over("rel", 4, 3, {"nrels"}, 8, "cast")
  <2>1. /\ x.kind = "array" /\ x.width = 4 /\ x.numbers = 1 /\ x.of = {"nsubxacts"} /\ x.cap = 8
        /\ y.kind = "array" /\ y.width = 4 /\ y.numbers = 3 /\ y.of = {"nrels"} /\ y.cap = 8
    BY DEF array_over, array
  <2>2. "nsubxacts" \in Numbers /\ "nrels" \in Numbers BY DEF Numbers
  <2> HIDE DEF x, y
  <2>3. Flow(<<count("nsubxacts"), x>>, X, X) /\ Flow(<<count("nrels"), y>>, X, X)
    BY <2>1, <2>2, CountedFlows
  <2> QED BY <2>3 DEF x, y
<1>5. \A n : B(n).on = "bits" => B(n).field \in X BY DEF Bits
<1> HIDE DEF p1, p2, p3, p4, p5, p6, p7, B
<1>6. /\ Flow(p1, X, X) /\ Flow(p4, X, X) /\ Flow(p5, X, X) /\ Flow(p6, X, X) /\ Flow(p7, X, X)
      /\ Flow(<<>>, X, X)
  BY <1>1, <1>2, <1>3, PlainFlows
<1> HIDE DEF X
<1>7. /\ Flow(If(B(0), p1), X, X) /\ Flow(If(B(1), p2), X, X) /\ Flow(If(B(2), p3), X, X)
      /\ Flow(If(B(3), p4), X, X) /\ Flow(If(B(4), p5), X, X) /\ Flow(If(B(7), p6), X, X)
      /\ Flow(If(B(5), p7), X, X)
  BY <1>4, <1>5, <1>6, FlowIf
<1>8. Flow(q4, X, X) BY <1>6, <1>7
<1> HIDE DEF q4
<1> DEFINE r2 == If(B(0), p1) \o If(B(1), p2)
           r3 == r2 \o If(B(2), p3)
           r4 == r3 \o q4
           r5 == r4 \o If(B(4), p5)
           r6 == r5 \o If(B(7), p6)
           r7 == r6 \o If(B(5), p7)
<1>9. parse_xact_subrecords(is_commit) = r7
  BY DEF parse_xact_subrecords, p1, p2, p3, p4, p5, p6, p7, q4, B
<1>10. Flow(r2, X, X) BY <1>7, FlowJoin
<1> HIDE DEF r2
<1>11. Flow(r3, X, X) BY <1>7, <1>10, FlowJoin
<1> HIDE DEF r3
<1>12. Flow(r4, X, X) BY <1>8, <1>11, FlowJoin
<1> HIDE DEF r4
<1>13. Flow(r5, X, X) BY <1>7, <1>12, FlowJoin
<1> HIDE DEF r5
<1>14. Flow(r6, X, X) BY <1>7, <1>13, FlowJoin
<1> HIDE DEF r6
<1>15. Flow(r7, X, X) BY <1>7, <1>14, FlowJoin
<1> QED BY <1>9, <1>15 DEF X

LEMMA EndFlows == \A is_commit \in BOOLEAN : Flow(xact_end(is_commit), {}, {})
<1> TAKE is_commit \in BOOLEAN
<1> DEFINE t == time("xact_time")
           x == Some(flags("xinfo", 4, decode_xact_xinfo))
           q == parse_xact_subrecords(is_commit)
           c == Info80(TRUE)
<1>1. Step(t, {}, {}) /\ t.kind # "if" BY DEF time, Item, Step
<1>2. Step(x, {}, {"xinfo"}) /\ x.kind # "if" BY DEF Some, flags, Step, Gives, Controls, Numbers
<1>3. c.on # "bits" BY DEF Info80
<1>4. Flow(q, {"xinfo"}, {"xinfo"}) BY SubrecordsFlow
<1>5. xact_end(is_commit) = <<t>> \o If(c, <<x>> \o q) BY DEF xact_end
<1> HIDE DEF t, x, q, c
<1>6. Flow(<<t>>, {}, {}) /\ Flow(<<x>>, {}, {"xinfo"}) BY <1>1, <1>2, FlowOne
<1>7. Flow(<<x>> \o q, {}, {"xinfo"}) BY <1>4, <1>6, FlowJoin
<1>8. Flow(If(c, <<x>> \o q), {}, {}) BY <1>3, <1>7, FlowIf
<1> QED BY <1>5, <1>6, <1>8, FlowJoin

LEMMA XactOperations ==
  DOMAIN describe_xact_main =
    {"COMMIT", "COMMIT_PREPARED", "ABORT", "ABORT_PREPARED", "PREPARE", "ASSIGNMENT",
     "INVALIDATION"}
BY DEF describe_xact_main

LEMMA XactFlows == \A op \in DOMAIN describe_xact_main : Flow(describe_xact_main[op], {}, {})
<1> DEFINE T == describe_xact_main
<1>1. Plain(T.INVALIDATION, 1)
  <2>1. T.INVALIDATION = <<rest("invalidation messages", 1, TRUE)>> BY DEF describe_xact_main
  <2> DEFINE x == rest("invalidation messages", 1, TRUE)
  <2>2. Simple(x) BY DEF Simple, rest
  <2> HIDE DEF x
  <2>3. Plain(<<x>>, 1) BY <2>2 DEF Plain
  <2> QED BY <2>1, <2>3 DEF x
<1>2. /\ T.COMMIT = xact_end(TRUE) /\ T.COMMIT_PREPARED = xact_end(TRUE)
      /\ T.ABORT = xact_end(FALSE) /\ T.ABORT_PREPARED = xact_end(FALSE)
  BY DEF describe_xact_main
<1>3. Flow(T.PREPARE, {}, {}) /\ Flow(T.ASSIGNMENT, {}, {}) BY PrepareFlows, AssignFlows
<1> HIDE DEF T
<1> QED BY <1>1, <1>2, XactOperations, <1>3, EndFlows, PlainFlows DEF T

LEMMA OneFlows == \A it, a : Simple(it) => Flow(<<it>>, a, a)
<1>1. \A it, a : Simple(it) => Step(it, a, a) /\ it.kind # "if" BY DEF Simple, Step
<1> QED BY <1>1, FlowOne

LEMMA LocatorFlows == \A a : Flow(Locator, a, a)
<1>1. Plain(Locator, 3) BY SimpleReads DEF Plain, Locator
<1> QED BY <1>1, PlainFlows

LEMMA SmgrFlows == \A op \in DOMAIN describe_smgr_main : Flow(describe_smgr_main[op], {}, {})
<1> DEFINE T == describe_smgr_main
           x == u32("forkNum")
           y == u32("blkno")
           z == flags("flags", 4, decode_smgr_truncate_flags)
<1>1. T.CREATE = Locator \o <<x>> /\ T.TRUNCATE = <<y>> \o Locator \o <<z>>
  BY DEF describe_smgr_main
<1>2. DOMAIN T = {"CREATE", "TRUNCATE"} BY DEF describe_smgr_main
<1>3. Simple(x) /\ Simple(y) /\ Simple(z) BY SimpleReads, SimpleControls DEF Numbers
<1> HIDE DEF T, x, y, z
<1>4. Flow(<<x>>, {}, {}) /\ Flow(<<y>>, {}, {}) /\ Flow(<<z>>, {}, {}) /\ Flow(Locator, {}, {})
  BY <1>3, OneFlows, LocatorFlows
<1>5. Flow(T.CREATE, {}, {}) BY <1>1, <1>4, FlowJoin
<1>6. Flow(<<y>> \o Locator, {}, {}) BY <1>4, FlowJoin
<1>7. Flow(T.TRUNCATE, {}, {}) BY <1>1, <1>4, <1>6, FlowJoin
<1> QED BY <1>2, <1>5, <1>7 DEF T

LEMMA ClogFlows == \A op \in DOMAIN describe_clog_main : Flow(describe_clog_main[op], {}, {})
<1> DEFINE T == describe_clog_main
<1>1. /\ Plain(T.ZEROPAGE, 1)
      /\ Plain(T.TRUNCATE, 3)
  BY SimpleReads DEF Plain, describe_clog_main
<1>2. DOMAIN T = {"ZEROPAGE", "TRUNCATE"} BY DEF describe_clog_main
<1> HIDE DEF T
<1> QED BY <1>1, <1>2, PlainFlows DEF T

LEMMA DropFlows == Flow(describe_database_main.DROP, {}, {})
<1> DEFINE p == describe_database_main.DROP
           g == <<{}, {}, {"ntablespaces"}, {}>>
<1>1. p = [k \in 1 .. 3 |-> p[k]] BY DEF describe_database_main
<1>2. \A k \in 1 .. 3 : Step(p[k], g[k], g[k + 1]) /\ p[k].kind # "if"
  BY DEF describe_database_main, Step, Gives, Controls, Numbers, Item, u32, count, array
<1>3. g[1] \subseteq {} /\ {} \subseteq g[3 + 1] OBVIOUS
<1> HIDE DEF p, g
<1>4. Flow(p, {}, {}) BY <1>1, <1>2, <1>3, FlowTuple
<1> QED BY <1>4 DEF p

LEMMA DatabaseFlows == \A op \in DOMAIN describe_database_main : Flow(describe_database_main[op], {}, {})
<1> DEFINE T == describe_database_main
<1>1. /\ Plain(T.CREATE_FILE_COPY, 4)
      /\ Plain(T.CREATE_WAL_LOG, 2)
  BY SimpleReads DEF Plain, describe_database_main
<1>2. DOMAIN T = {"CREATE_FILE_COPY", "CREATE_WAL_LOG", "DROP"} BY DEF describe_database_main
<1>3. Flow(T.DROP, {}, {}) BY DropFlows
<1> HIDE DEF T
<1> QED BY <1>1, <1>2, <1>3, PlainFlows DEF T

LEMMA TablespaceFlows == \A op \in DOMAIN describe_tablespace_main : Flow(describe_tablespace_main[op], {}, {})
<1> DEFINE T == describe_tablespace_main
<1>1. /\ Plain(T.CREATE, 2)
      /\ Plain(T.DROP, 1)
  BY SimpleReads DEF Plain, describe_tablespace_main
<1>2. DOMAIN T = {"CREATE", "DROP"} BY DEF describe_tablespace_main
<1> HIDE DEF T
<1> QED BY <1>1, <1>2, PlainFlows DEF T

LEMMA CreateIdFlows == Flow(describe_multixact_main.CREATE_ID, {}, {})
<1> DEFINE p == describe_multixact_main.CREATE_ID
           g == <<{}, {}, {}, {"nmembers"}, {}>>
<1>1. p = [k \in 1 .. 4 |-> p[k]] BY DEF describe_multixact_main
<1>2. \A k \in 1 .. 4 : Step(p[k], g[k], g[k + 1]) /\ p[k].kind # "if"
  BY DEF describe_multixact_main, Step, Gives, Controls, Numbers, Item, u32, count, array
<1>3. g[1] \subseteq {} /\ {} \subseteq g[4 + 1] OBVIOUS
<1> HIDE DEF p, g
<1>4. Flow(p, {}, {}) BY <1>1, <1>2, <1>3, FlowTuple
<1> QED BY <1>4 DEF p

LEMMA MultixactFlows == \A op \in DOMAIN describe_multixact_main : Flow(describe_multixact_main[op], {}, {})
<1> DEFINE T == describe_multixact_main
<1>1. /\ Plain(T.ZERO_OFF_PAGE, 1)
      /\ Plain(T.ZERO_MEM_PAGE, 1)
      /\ Plain(T.TRUNCATE_ID, 5)
  BY SimpleReads DEF Plain, describe_multixact_main
<1>2. DOMAIN T = {"ZERO_OFF_PAGE", "ZERO_MEM_PAGE", "TRUNCATE_ID", "CREATE_ID"}
  BY DEF describe_multixact_main
<1>3. Flow(T.CREATE_ID, {}, {}) BY CreateIdFlows
<1> HIDE DEF T
<1> QED BY <1>1, <1>2, <1>3, PlainFlows DEF T

LEMMA RelmapFlows == \A op \in DOMAIN describe_relmap_main : Flow(describe_relmap_main[op], {}, {})
<1> DEFINE T == describe_relmap_main
<1>1. /\ Plain(T.UPDATE, 3) BY SimpleReads DEF Plain, describe_relmap_main
<1>2. DOMAIN T = {"UPDATE"} BY DEF describe_relmap_main
<1> HIDE DEF T
<1> QED BY <1>1, <1>2, PlainFlows DEF T

LEMMA LockFlows == Flow(describe_standby_main.LOCK, {}, {})
<1> DEFINE p == describe_standby_main.LOCK
           g == <<{}, {"nlocks"}, {}>>
<1>1. p = [k \in 1 .. 2 |-> p[k]] BY DEF describe_standby_main
<1>2. \A k \in 1 .. 2 : Step(p[k], g[k], g[k + 1]) /\ p[k].kind # "if"
  BY DEF describe_standby_main, Step, Gives, Controls, Numbers, Item, count, array
<1>3. g[1] \subseteq {} /\ {} \subseteq g[2 + 1] OBVIOUS
<1> HIDE DEF p, g
<1>4. Flow(p, {}, {}) BY <1>1, <1>2, <1>3, FlowTuple
<1> QED BY <1>4 DEF p

LEMMA RunningFlows == Flow(describe_standby_main.RUNNING_XACTS, {}, {})
<1> DEFINE p == describe_standby_main.RUNNING_XACTS
           B == {"xcnt", "subxcnt"}
           g == <<{}, {"xcnt"}, B, B, B, B, B, B, {}>>
<1>1. p = [k \in 1 .. 8 |-> p[k]] BY DEF describe_standby_main
<1>2. /\ p[1] = count("xcnt") /\ p[2] = count("subxcnt")
      /\ p[8] = array("xid", 4, 1, {"xcnt", "subxcnt"}, 16, "clamped")
  BY DEF describe_standby_main
<1>3. Simple(p[3]) /\ Simple(p[4]) /\ Simple(p[5]) /\ Simple(p[6]) /\ Simple(p[7])
  BY SimpleReads DEF describe_standby_main
<1>4. g[1] = {} /\ g[2] = {"xcnt"} /\ g[9] = {} OBVIOUS
<1>5. \A k \in 3 .. 8 : g[k] = B OBVIOUS
<1> HIDE DEF p, g
<1>6. Step(p[1], g[1], g[2]) /\ p[1].kind # "if"
  BY <1>2, <1>4 DEF Step, count, Item, Gives, Controls, Numbers
<1>7. Step(p[2], g[2], g[3]) /\ p[2].kind # "if"
  BY <1>2, <1>4, <1>5 DEF Step, count, Item, Gives, Controls, Numbers
<1>8. Step(p[8], g[8], g[9]) /\ p[8].kind # "if"
  BY <1>2, <1>4, <1>5 DEF Step, array, Gives, Controls
<1>9. ASSUME NEW k \in 3 .. 7 PROVE Step(p[k], g[k], g[k + 1]) /\ p[k].kind # "if"
  <2>1. g[k] = B /\ g[k + 1] = B BY <1>5
  <2>2. Simple(p[k]) BY <1>3
  <2> HIDE DEF B
  <2> QED BY <2>1, <2>2 DEF Simple, Step
<1>10. \A k \in 1 .. 8 : Step(p[k], g[k], g[k + 1]) /\ p[k].kind # "if"
  <2> TAKE k \in 1 .. 8
  <2>1. k \in 3 .. 7 \/ (k = 1 /\ k + 1 = 2) \/ (k = 2 /\ k + 1 = 3) \/ (k = 8 /\ k + 1 = 9) OBVIOUS
  <2> QED BY <1>6, <1>7, <1>8, <1>9, <2>1
<1>11. g[1] \subseteq {} /\ {} \subseteq g[8 + 1] BY <1>4
<1>12. Flow(p, {}, {}) BY <1>1, <1>10, <1>11, FlowTuple
<1> QED BY <1>12 DEF p

LEMMA StandbyFlows == \A op \in DOMAIN describe_standby_main : Flow(describe_standby_main[op], {}, {})
<1> DEFINE T == describe_standby_main
<1>1. /\ Plain(T.INVALIDATIONS, 5) BY SimpleReads DEF Plain, describe_standby_main
<1>2. DOMAIN T = {"LOCK", "RUNNING_XACTS", "INVALIDATIONS"} BY DEF describe_standby_main
<1>3. Flow(T.LOCK, {}, {}) /\ Flow(T.RUNNING_XACTS, {}, {}) BY LockFlows, RunningFlows
<1> HIDE DEF T
<1> QED BY <1>1, <1>2, <1>3, PlainFlows DEF T

LEMMA PruneFlows == Flow(prune, {}, {})
<1> DEFINE x == u8("reason")
           y == flags("flags", 1, fmt_prune_flags)
           z == u32("conflict_horizon")
           c == Bits("flags", {3})
           p == <<x, y>>
           g == <<{}, {}, {"flags"}>>
<1>1. prune = p \o If(c, <<z>>) BY DEF prune
<1>2. Step(x, {}, {}) /\ x.kind # "if" /\ Step(y, {}, {"flags"}) /\ y.kind # "if" /\ Simple(z)
  BY SimpleReads DEF Step, u8, flags, Item, Gives, Controls, Numbers
<1>3. c.on = "bits" => c.field \in {"flags"} BY DEF Bits
<1>4. p = [k \in 1 .. 2 |-> p[k]] /\ p[1] = x /\ p[2] = y OBVIOUS
<1>5. g[1] = {} /\ g[2] = {} /\ g[3] = {"flags"} OBVIOUS
<1> HIDE DEF x, y, z, c, p, g
<1>6. \A k \in 1 .. 2 : Step(p[k], g[k], g[k + 1]) /\ p[k].kind # "if"
  <2> TAKE k \in 1 .. 2
  <2>1. (k = 1 /\ k + 1 = 2) \/ (k = 2 /\ k + 1 = 3) OBVIOUS
  <2> QED BY <1>2, <1>4, <1>5, <2>1
<1>7. g[1] \subseteq {} /\ {"flags"} \subseteq g[2 + 1] BY <1>5
<1>8. Flow(p, {}, {"flags"}) BY <1>4, <1>6, <1>7, FlowTuple
<1>9. Flow(If(c, <<z>>), {"flags"}, {"flags"}) BY <1>2, <1>3, OneFlows, FlowIf
<1>10. Flow(prune, {}, {"flags"}) BY <1>1, <1>8, <1>9, FlowJoin
<1> QED BY <1>10, FlowLess

LEMMA HeapLockFlows == Flow(heap_lock, {}, {})
<1>1. Plain(heap_lock, 4) BY SimpleReads, SimpleControls DEF Numbers, Plain, heap_lock
<1> QED BY <1>1, PlainFlows

\* The offsets of the tuples that a multi-insert lists by itself.
LEMMA MultiInsertFlows == Flow(describe_heap2_main.MULTI_INSERT, {}, {})
<1> DEFINE x == flags("flags", 1, decode_heap_insert_flags)
           y == size("ntuples", 2)
           z == array("offsets", 2, 1, {"ntuples"}, 16, "clamped")
           c == Info80(FALSE)
           N == {"ntuples"}
           p == <<x, skip(1), y>>
           g == <<{}, {}, {}, N>>
<1>1. describe_heap2_main.MULTI_INSERT = p \o If(c, <<z>>) BY DEF describe_heap2_main
<1>2. /\ Step(x, {}, {}) /\ x.kind # "if" /\ Step(skip(1), {}, {}) /\ skip(1).kind # "if"
      /\ Step(y, {}, N) /\ y.kind # "if" /\ Step(z, N, N) /\ z.kind # "if"
  BY DEF Step, skip, flags, size, array, Item, Gives, Controls, Numbers
<1>3. c.on # "bits" BY DEF Info80
<1>4. p = [k \in 1 .. 3 |-> p[k]] /\ p[1] = x /\ p[2] = skip(1) /\ p[3] = y OBVIOUS
<1>5. g[1] = {} /\ g[2] = {} /\ g[3] = {} /\ g[4] = N OBVIOUS
<1> HIDE DEF x, y, z, c, p, g, N
<1>6. \A k \in 1 .. 3 : Step(p[k], g[k], g[k + 1]) /\ p[k].kind # "if"
  <2> TAKE k \in 1 .. 3
  <2>1. (k = 1 /\ k + 1 = 2) \/ (k = 2 /\ k + 1 = 3) \/ (k = 3 /\ k + 1 = 4) OBVIOUS
  <2> QED BY <1>2, <1>4, <1>5, <2>1
<1>7. g[1] \subseteq {} /\ N \subseteq g[3 + 1] BY <1>5
<1>8. Flow(p, {}, N) BY <1>4, <1>6, <1>7, FlowTuple
<1>9. Flow(If(c, <<z>>), N, N) BY <1>2, <1>3, FlowOne, FlowIf
<1>10. Flow(p \o If(c, <<z>>), {}, N) BY <1>8, <1>9, FlowJoin
<1> QED BY <1>1, <1>10, FlowLess

LEMMA NewCidFlows == Flow(describe_heap2_main.NEW_CID, {}, {})
<1> DEFINE p == <<u32("top_xid"), u32("cmin"), u32("cmax"), u32("combocid")>>
           q == <<u16("bi_hi"), u16("bi_lo"), u16("posid")>>
<1>1. describe_heap2_main.NEW_CID = p \o Locator \o q BY DEF describe_heap2_main
<1>2. Plain(p, 4) /\ Plain(q, 3) BY SimpleReads DEF Plain
<1> HIDE DEF p, q
<1>3. Flow(p, {}, {}) /\ Flow(q, {}, {}) /\ Flow(Locator, {}, {}) BY <1>2, PlainFlows, LocatorFlows
<1>4. Flow(p \o Locator, {}, {}) BY <1>3, FlowJoin
<1>5. Flow(p \o Locator \o q, {}, {}) BY <1>3, <1>4, FlowJoin
<1> QED BY <1>1, <1>5

LEMMA Heap2Operations ==
  DOMAIN describe_heap2_main =
    {"REWRITE", "PRUNE_ON_ACCESS", "PRUNE_VACUUM_SCAN", "PRUNE_VACUUM_CLEANUP", "VISIBLE",
     "MULTI_INSERT", "LOCK_UPDATED", "NEW_CID"}
BY DEF describe_heap2_main

LEMMA Heap2Flows == \A op \in DOMAIN describe_heap2_main : Flow(describe_heap2_main[op], {}, {})
<1> DEFINE T == describe_heap2_main
<1>1. Plain(T.REWRITE, 8) BY SimpleReads DEF Plain, describe_heap2_main
<1>2. Plain(T.VISIBLE, 2) BY SimpleReads, SimpleControls DEF Numbers, Plain, describe_heap2_main
<1>3. /\ T.PRUNE_ON_ACCESS = prune /\ T.PRUNE_VACUUM_SCAN = prune
      /\ T.PRUNE_VACUUM_CLEANUP = prune /\ T.LOCK_UPDATED = heap_lock
  BY DEF describe_heap2_main
<1>4. Flow(T.MULTI_INSERT, {}, {}) /\ Flow(T.NEW_CID, {}, {}) BY MultiInsertFlows, NewCidFlows
<1> HIDE DEF T
<1> QED BY <1>1, <1>2, <1>3, Heap2Operations, <1>4, PruneFlows, HeapLockFlows, PlainFlows DEF T

LEMMA HeapHeaderFlows == \A a : Flow(parse_xl_heap_header, a, a)
<1> TAKE a
<1> DEFINE p == <<flags("t_infomask2", 2, decode_t_infomask2),
                  flags("t_infomask", 2, decode_t_infomask), u8("t_hoff")>>
           c == Room(5)
<1>1. parse_xl_heap_header = If(c, p) BY DEF parse_xl_heap_header
<1>2. Plain(p, 3) /\ c.on # "bits" BY SimpleReads, SimpleControls DEF Numbers, Plain, Room
<1> HIDE DEF p, c
<1> QED BY <1>1, <1>2, PlainFlows, FlowIf

\* A header that follows when flags read before it say so.
LEMMA HeapFlaggedFlows ==
  ASSUME NEW p, Flow(p, {}, {"flags"}), NEW b
  PROVE  Flow(p \o If(Bits("flags", b), parse_xl_heap_header), {}, {})
<1> DEFINE c == Bits("flags", b)
<1>1. c.on = "bits" => c.field \in {"flags"} BY DEF Bits
<1> HIDE DEF c
<1>2. Flow(If(c, parse_xl_heap_header), {"flags"}, {"flags"}) BY <1>1, HeapHeaderFlows, FlowIf
<1>3. Flow(p \o If(c, parse_xl_heap_header), {}, {"flags"}) BY <1>2, FlowJoin
<1> QED BY <1>3, FlowLess DEF c

LEMMA HeapUpdateFlows == Flow(heap_update, {}, {})
<1> DEFINE p == <<u32("old_xmax"), u16("old_offnum"), flags("old_infobits_set", 1, decode_infobits),
                  flags("flags", 1, decode_heap_update_flags), u32("new_xmax"), u16("new_offnum")>>
           F == {"flags"}
           g == <<{}, {}, {}, {}, F, F, F>>
<1>1. heap_update = p \o If(Bits("flags", {2, 3}), parse_xl_heap_header) BY DEF heap_update
<1>2. /\ Simple(p[1]) /\ Simple(p[2]) /\ Simple(p[3]) /\ Simple(p[5]) /\ Simple(p[6])
      /\ p[4] = flags("flags", 1, decode_heap_update_flags)
  BY SimpleReads, SimpleControls DEF Numbers
<1>3. Step(p[4], {}, F) /\ p[4].kind # "if" BY <1>2 DEF Step, flags, Gives, Controls, Numbers
<1>4. p = [k \in 1 .. 6 |-> p[k]] OBVIOUS
<1>5. g[1] = {} /\ g[2] = {} /\ g[3] = {} /\ g[4] = {} /\ g[5] = F /\ g[6] = F /\ g[7] = F OBVIOUS
<1>6. \A it, a : Simple(it) => Step(it, a, a) /\ it.kind # "if" BY DEF Simple, Step
<1> HIDE DEF p, g, F
<1>7. /\ Step(p[1], {}, {}) /\ Step(p[2], {}, {}) /\ Step(p[3], {}, {})
      /\ Step(p[5], F, F) /\ Step(p[6], F, F)
      /\ p[1].kind # "if" /\ p[2].kind # "if" /\ p[3].kind # "if"
      /\ p[5].kind # "if" /\ p[6].kind # "if"
  BY <1>2, <1>6
<1>8. \A k \in 1 .. 6 : Step(p[k], g[k], g[k + 1]) /\ p[k].kind # "if"
  <2> TAKE k \in 1 .. 6
  <2>1. \/ k = 1 /\ k + 1 = 2
        \/ k = 2 /\ k + 1 = 3
        \/ k = 3 /\ k + 1 = 4
        \/ k = 4 /\ k + 1 = 5
        \/ k = 5 /\ k + 1 = 6
        \/ k = 6 /\ k + 1 = 7
    OBVIOUS
  <2> QED BY <1>3, <1>5, <1>7, <2>1
<1>9. g[1] \subseteq {} /\ F \subseteq g[6 + 1] BY <1>5
<1>10. Flow(p, {}, F) BY <1>4, <1>8, <1>9, FlowTuple
<1> QED BY <1>1, <1>10, HeapFlaggedFlows DEF F

LEMMA HeapDeleteFlows == Flow(describe_heap_main.DELETE, {}, {})
<1> DEFINE p == <<u32("xmax"), u16("offnum"), flags("infobits_set", 1, decode_infobits),
                  flags("flags", 1, decode_heap_delete_flags)>>
           F == {"flags"}
           g == <<{}, {}, {}, {}, F>>
<1>1. describe_heap_main.DELETE = p \o If(Bits("flags", {1, 2}), parse_xl_heap_header)
  BY DEF describe_heap_main
<1>2. /\ Simple(p[1]) /\ Simple(p[2]) /\ Simple(p[3])
      /\ p[4] = flags("flags", 1, decode_heap_delete_flags)
  BY SimpleReads, SimpleControls DEF Numbers
<1>3. Step(p[4], {}, F) /\ p[4].kind # "if" BY <1>2 DEF Step, flags, Gives, Controls, Numbers
<1>4. p = [k \in 1 .. 4 |-> p[k]] OBVIOUS
<1>5. g[1] = {} /\ g[2] = {} /\ g[3] = {} /\ g[4] = {} /\ g[5] = F OBVIOUS
<1>6. \A it, a : Simple(it) => Step(it, a, a) /\ it.kind # "if" BY DEF Simple, Step
<1> HIDE DEF p, g, F
<1>7. /\ Step(p[1], {}, {}) /\ Step(p[2], {}, {}) /\ Step(p[3], {}, {})
      /\ p[1].kind # "if" /\ p[2].kind # "if" /\ p[3].kind # "if"
  BY <1>2, <1>6
<1>8. \A k \in 1 .. 4 : Step(p[k], g[k], g[k + 1]) /\ p[k].kind # "if"
  <2> TAKE k \in 1 .. 4
  <2>1. \/ k = 1 /\ k + 1 = 2
        \/ k = 2 /\ k + 1 = 3
        \/ k = 3 /\ k + 1 = 4
        \/ k = 4 /\ k + 1 = 5
    OBVIOUS
  <2> QED BY <1>3, <1>5, <1>7, <2>1
<1>9. g[1] \subseteq {} /\ F \subseteq g[4 + 1] BY <1>5
<1>10. Flow(p, {}, F) BY <1>4, <1>8, <1>9, FlowTuple
<1> QED BY <1>1, <1>10, HeapFlaggedFlows DEF F

LEMMA HeapTruncateFlows == Flow(describe_heap_main.TRUNCATE, {}, {})
<1> DEFINE p == describe_heap_main.TRUNCATE
           C == {"nrelids"}
           g == <<{}, {}, C, C, C, {}>>
<1>1. p = [k \in 1 .. 5 |-> p[k]] BY DEF describe_heap_main
<1>2. p[2] = size("nrelids", 4) /\ p[5] = array("relids", 4, 1, {"nrelids"}, 16, "clamped")
  BY DEF describe_heap_main
<1>3. Simple(p[1]) /\ Simple(p[3]) /\ Simple(p[4])
  BY SimpleReads, SimpleControls DEF Numbers, describe_heap_main
<1>4. g[1] = {} /\ g[2] = {} /\ g[3] = C /\ g[4] = C /\ g[5] = C /\ g[6] = {} OBVIOUS
<1> HIDE DEF p, g
<1>5. Step(p[2], {}, C) /\ p[2].kind # "if" BY <1>2 DEF Step, Gives, Controls, Numbers, Item, size
<1>6. Step(p[5], C, {}) /\ p[5].kind # "if" BY <1>2 DEF Step, Gives, Controls, Numbers, Item, array
<1>7. \A it, a : Simple(it) => Step(it, a, a) /\ it.kind # "if" BY DEF Simple, Step
<1> HIDE DEF C
<1>8. \A k \in 1 .. 5 : Step(p[k], g[k], g[k + 1]) /\ p[k].kind # "if"
  <2> TAKE k \in 1 .. 5
  <2>1. \/ k = 1 /\ k + 1 = 2
        \/ k = 2 /\ k + 1 = 3
        \/ k = 3 /\ k + 1 = 4
        \/ k = 4 /\ k + 1 = 5
        \/ k = 5 /\ k + 1 = 6
    OBVIOUS
  <2> QED BY <1>3, <1>4, <1>5, <1>6, <1>7, <2>1
<1>9. g[1] \subseteq {} /\ {} \subseteq g[5 + 1] BY <1>4
<1>10. Flow(p, {}, {}) BY <1>1, <1>8, <1>9, FlowTuple
<1> QED BY <1>10 DEF p

LEMMA HeapOperations ==
  DOMAIN describe_heap_main =
    {"INSERT", "DELETE", "UPDATE", "HOT_UPDATE", "TRUNCATE", "CONFIRM", "LOCK", "INPLACE"}
BY DEF describe_heap_main

LEMMA HeapFlows == \A op \in DOMAIN describe_heap_main : Flow(describe_heap_main[op], {}, {})
<1> DEFINE T == describe_heap_main
<1>1. Plain(T.INSERT, 2) BY SimpleReads, SimpleControls DEF Numbers, Plain, describe_heap_main
<1>2. Plain(T.CONFIRM, 1) /\ Plain(T.INPLACE, 7) BY SimpleReads DEF Plain, describe_heap_main
<1>3. T.UPDATE = heap_update /\ T.HOT_UPDATE = heap_update /\ T.LOCK = heap_lock
  BY DEF describe_heap_main
<1>4. Flow(T.DELETE, {}, {}) /\ Flow(T.TRUNCATE, {}, {}) BY HeapDeleteFlows, HeapTruncateFlows
<1> HIDE DEF T
<1> QED BY <1>1, <1>2, <1>3, HeapOperations, <1>4, HeapUpdateFlows, HeapLockFlows, PlainFlows DEF T

LEMMA HeapBlockFlows ==
  \A op \in DOMAIN describe_heap_block_data :
    Flow(describe_heap_block_data[op], {"flags"}, {"flags"})
<1> DEFINE T == describe_heap_block_data
           H == parse_xl_heap_header
           F == {"flags"}
           x == rest("tuple data", 1, FALSE)
           y == rest("new tuple data", 1, FALSE)
           c == Bits("flags", {5})
           d == Bits("flags", {6})
           u == indexed("prefix_from_old")
           v == indexed("suffix_from_old")
<1>1. /\ T.INSERT = H \o <<x>> /\ T.UPDATE = heap_new_tuple /\ T.HOT_UPDATE = heap_new_tuple
      /\ DOMAIN T = {"INSERT", "UPDATE", "HOT_UPDATE"}
  BY DEF describe_heap_block_data
<1>2. heap_new_tuple = If(c, <<u>>) \o If(d, <<v>>) \o H \o <<y>> BY DEF heap_new_tuple
<1>3. Simple(x) /\ Simple(y) /\ Simple(u) /\ Simple(v) BY SimpleReads DEF Simple, rest
<1>4. (c.on = "bits" => c.field \in F) /\ (d.on = "bits" => d.field \in F) BY DEF Bits
<1> HIDE DEF T, H, F, x, y, c, d, u, v
<1>5. /\ Flow(<<x>>, F, F) /\ Flow(<<y>>, F, F) /\ Flow(<<u>>, F, F) /\ Flow(<<v>>, F, F)
      /\ Flow(H, F, F)
  BY <1>3, OneFlows, HeapHeaderFlows DEF H
<1>6. Flow(If(c, <<u>>), F, F) /\ Flow(If(d, <<v>>), F, F) BY <1>4, <1>5, FlowIf
<1>7. Flow(If(c, <<u>>) \o If(d, <<v>>), F, F) BY <1>6, FlowJoin
<1>8. Flow(If(c, <<u>>) \o If(d, <<v>>) \o H, F, F) BY <1>5, <1>7, FlowJoin
<1>9. Flow(heap_new_tuple, F, F) BY <1>2, <1>5, <1>8, FlowJoin
<1>10. Flow(T.INSERT, F, F) BY <1>1, <1>5, FlowJoin
<1> QED BY <1>1, <1>9, <1>10 DEF T, F

LEMMA MetadataFlows == \A a : Flow(parse_btree_metadata, a, a)
<1>1. Plain(parse_btree_metadata, 7) BY SimpleReads DEF Plain, parse_btree_metadata
<1> QED BY <1>1, PlainFlows

LEMMA BtreePartFlows == Flow(btree_split, {}, {}) /\ Flow(btree_unlink, {}, {})
<1>1. Plain(btree_split, 4) /\ Plain(btree_unlink, 8)
  BY SimpleReads DEF Plain, btree_split, btree_unlink
<1> QED BY <1>1, PlainFlows

LEMMA BtreeOperations ==
  DOMAIN describe_btree_main =
    {"INSERT_LEAF", "INSERT_UPPER", "INSERT_POST", "INSERT_META", "SPLIT_L", "SPLIT_R", "DEDUP",
     "DELETE", "VACUUM", "MARK_PAGE_HALFDEAD", "UNLINK_PAGE", "UNLINK_PAGE_META", "NEWROOT",
     "REUSE_PAGE", "META_CLEANUP"}
BY DEF describe_btree_main

LEMMA BtreeFlows == \A op \in DOMAIN describe_btree_main : Flow(describe_btree_main[op], {}, {})
<1> DEFINE T == describe_btree_main
           M == parse_btree_metadata
           x == u16("offnum")
           c == Room(28)
           r == <<u32("block"), u64("snapshotConflictHorizon"), u8("isCatalogRel")>>
<1>1. Plain(T.INSERT_LEAF, 1) /\ Plain(T.INSERT_UPPER, 1) /\ Plain(T.INSERT_POST, 1)
  BY SimpleReads DEF Plain, describe_btree_main
<1>2. Plain(T.DEDUP, 1) /\ Plain(T.DELETE, 4) /\ Plain(T.VACUUM, 2)
  BY SimpleReads DEF Plain, describe_btree_main
<1>3. Plain(T.MARK_PAGE_HALFDEAD, 6) /\ Plain(T.NEWROOT, 2)
  BY SimpleReads DEF Plain, describe_btree_main
<1>4. /\ T.INSERT_META = <<x>> \o If(c, M) /\ T.SPLIT_L = btree_split /\ T.SPLIT_R = btree_split
      /\ T.UNLINK_PAGE = btree_unlink /\ T.UNLINK_PAGE_META = btree_unlink \o M
      /\ T.REUSE_PAGE = Locator \o r /\ T.META_CLEANUP = M
  BY DEF describe_btree_main
<1>5. Simple(x) /\ Plain(r, 3) /\ c.on # "bits" BY SimpleReads DEF Plain, Room
<1> HIDE DEF T, M, x, c, r
<1>6. Flow(<<x>>, {}, {}) /\ Flow(r, {}, {}) /\ Flow(M, {}, {}) /\ Flow(Locator, {}, {})
  BY <1>5, OneFlows, PlainFlows, MetadataFlows, LocatorFlows DEF M
<1>7. Flow(If(c, M), {}, {}) BY <1>5, <1>6, FlowIf
<1>8. Flow(T.INSERT_META, {}, {}) BY <1>4, <1>6, <1>7, FlowJoin
<1>9. Flow(T.UNLINK_PAGE_META, {}, {}) BY <1>4, <1>6, BtreePartFlows, FlowJoin
<1>10. Flow(T.REUSE_PAGE, {}, {}) BY <1>4, <1>6, FlowJoin
<1>11. /\ Flow(T.INSERT_LEAF, {}, {}) /\ Flow(T.INSERT_UPPER, {}, {})
       /\ Flow(T.INSERT_POST, {}, {}) /\ Flow(T.DEDUP, {}, {}) /\ Flow(T.DELETE, {}, {})
       /\ Flow(T.VACUUM, {}, {}) /\ Flow(T.MARK_PAGE_HALFDEAD, {}, {})
       /\ Flow(T.NEWROOT, {}, {})
  BY <1>1, <1>2, <1>3, PlainFlows
<1>12. /\ Flow(T.SPLIT_L, {}, {}) /\ Flow(T.SPLIT_R, {}, {}) /\ Flow(T.UNLINK_PAGE, {}, {})
       /\ Flow(T.META_CLEANUP, {}, {})
  BY <1>4, <1>6, BtreePartFlows
<1> QED BY BtreeOperations, <1>8, <1>9, <1>10, <1>11, <1>12 DEF T

LEMMA SequenceFlows == \A op \in DOMAIN describe_seq_main : Flow(describe_seq_main[op], {}, {})
<1> DEFINE T == describe_seq_main
           x == rest("tuple data", 1, TRUE)
<1>1. T.LOG = Locator \o <<x>> /\ DOMAIN T = {"LOG"} BY DEF describe_seq_main
<1>2. Simple(x) BY DEF Simple, rest
<1> HIDE DEF T, x
<1>3. Flow(<<x>>, {}, {}) /\ Flow(Locator, {}, {}) BY <1>2, OneFlows, LocatorFlows
<1>4. Flow(T.LOG, {}, {}) BY <1>1, <1>3, FlowJoin
<1> QED BY <1>1, <1>4 DEF T

LEMMA CommitTsFlows ==
  \A op \in DOMAIN describe_commit_ts_main : Flow(describe_commit_ts_main[op], {}, {})
<1> DEFINE T == describe_commit_ts_main
           c == Room(14)
           x == rest("subxids", 4, FALSE)
           p == <<time("timestamp"), u16("nodeid"), skip(2), u32("mainxid"), x>>
<1>1. T.ZEROPAGE = If(c, p) /\ DOMAIN T = {"ZEROPAGE", "TRUNCATE"} BY DEF describe_commit_ts_main
<1>2. Plain(T.TRUNCATE, 2) BY SimpleReads DEF Plain, describe_commit_ts_main
<1>3. Simple(x) /\ c.on # "bits" BY DEF Simple, rest, Room
<1> HIDE DEF T, c, x
<1>4. Plain(p, 5) BY <1>3, SimpleReads DEF Plain
<1> HIDE DEF p
<1>5. Flow(T.ZEROPAGE, {}, {}) BY <1>1, <1>3, <1>4, PlainFlows, FlowIf
<1> QED BY <1>1, <1>2, <1>5, PlainFlows DEF T

LEMMA OriginFlows == \A op \in DOMAIN describe_replorigin_main : Flow(describe_replorigin_main[op], {}, {})
<1> DEFINE T == describe_replorigin_main
<1>1. /\ Plain(T.SET, 3)
      /\ Plain(T.DROP, 1)
  BY SimpleReads DEF Plain, describe_replorigin_main
<1>2. DOMAIN T = {"SET", "DROP"} BY DEF describe_replorigin_main
<1> HIDE DEF T
<1> QED BY <1>1, <1>2, PlainFlows DEF T

LEMMA MessageFlows == Flow(describe_logical_msg_main.MESSAGE, {}, {})
<1> DEFINE p == describe_logical_msg_main.MESSAGE
           C == {"prefix_size"}
           g == <<{}, {}, {}, {}, C, C, {}>>
<1>1. p = [k \in 1 .. 6 |-> p[k]] BY DEF describe_logical_msg_main
<1>2. p[4] = size("prefix_size", 8) /\ p[6] = sized("prefix", "prefix_size")
  BY DEF describe_logical_msg_main
<1>3. Simple(p[1]) /\ Simple(p[2]) /\ Simple(p[3]) /\ Simple(p[5])
  BY SimpleReads, SimpleControls DEF Numbers, describe_logical_msg_main
<1>4. g[1] = {} /\ g[2] = {} /\ g[3] = {} /\ g[4] = {} /\ g[5] = C /\ g[6] = C /\ g[7] = {} OBVIOUS
<1> HIDE DEF p, g
<1>5. Step(p[4], {}, C) /\ p[4].kind # "if" BY <1>2 DEF Step, Gives, Controls, Numbers, Item, size
<1>6. Step(p[6], C, {}) /\ p[6].kind # "if" BY <1>2 DEF Step, Gives, Controls, Numbers, Item, sized
<1>7. \A it, a : Simple(it) => Step(it, a, a) /\ it.kind # "if" BY DEF Simple, Step
<1> HIDE DEF C
<1>8. \A k \in 1 .. 6 : Step(p[k], g[k], g[k + 1]) /\ p[k].kind # "if"
  <2> TAKE k \in 1 .. 6
  <2>1. \/ k = 1 /\ k + 1 = 2
        \/ k = 2 /\ k + 1 = 3
        \/ k = 3 /\ k + 1 = 4
        \/ k = 4 /\ k + 1 = 5
        \/ k = 5 /\ k + 1 = 6
        \/ k = 6 /\ k + 1 = 7
    OBVIOUS
  <2> QED BY <1>3, <1>4, <1>5, <1>6, <1>7, <2>1
<1>9. g[1] \subseteq {} /\ {} \subseteq g[6 + 1] BY <1>4
<1>10. Flow(p, {}, {}) BY <1>1, <1>8, <1>9, FlowTuple
<1> QED BY <1>10 DEF p

LEMMA LogicalMessageFlows == \A op \in DOMAIN describe_logical_msg_main : Flow(describe_logical_msg_main[op], {}, {})
<1> DEFINE T == describe_logical_msg_main
<1>2. DOMAIN T = {"MESSAGE"} BY DEF describe_logical_msg_main
<1>3. Flow(T.MESSAGE, {}, {}) BY MessageFlows
<1> HIDE DEF T
<1> QED BY <1>2, <1>3, PlainFlows DEF T

\* What the main data of a record, and the data of a block, is parsed with.
LEMMA MainFlows == \A rmgr, op : Flow(describe_main_data(rmgr, op), {}, {})
<1> TAKE rmgr, op
<1> DEFINE F(T) == \A o \in DOMAIN T : Flow(T[o], {}, {})
<1>1. Plain(<<>>, 0) BY DEF Plain
<1>2. Flow(<<>>, {}, {}) BY <1>1, PlainFlows
<1>3. ASSUME NEW T, F(T) PROVE Flow(Program(T, op), {}, {}) BY <1>2, <1>3 DEF Program
<1>4. /\ F(describe_heap_main) /\ F(describe_heap2_main) /\ F(describe_xact_main)
      /\ F(describe_xlog_main) /\ F(describe_smgr_main) /\ F(describe_clog_main)
      /\ F(describe_database_main) /\ F(describe_tablespace_main) /\ F(describe_multixact_main)
      /\ F(describe_relmap_main) /\ F(describe_standby_main) /\ F(describe_btree_main)
      /\ F(describe_seq_main) /\ F(describe_commit_ts_main) /\ F(describe_replorigin_main)
      /\ F(describe_logical_msg_main)
  BY HeapFlows, Heap2Flows, XactFlows, XlogFlows, SmgrFlows, ClogFlows, DatabaseFlows,
     TablespaceFlows, MultixactFlows, RelmapFlows, StandbyFlows, BtreeFlows, SequenceFlows,
     CommitTsFlows, OriginFlows, LogicalMessageFlows
<1> HIDE DEF F
<1> DEFINE P(T) == Flow(Program(T, op), {}, {})
<1>5. /\ P(describe_heap_main) /\ P(describe_heap2_main) /\ P(describe_xact_main)
      /\ P(describe_xlog_main) /\ P(describe_smgr_main) /\ P(describe_clog_main)
      /\ P(describe_database_main) /\ P(describe_tablespace_main) /\ P(describe_multixact_main)
      /\ P(describe_relmap_main) /\ P(describe_standby_main) /\ P(describe_btree_main)
      /\ P(describe_seq_main) /\ P(describe_commit_ts_main) /\ P(describe_replorigin_main)
      /\ P(describe_logical_msg_main)
  BY <1>3, <1>4
<1> QED BY <1>2, <1>5 DEF describe_main_data

LEMMA BlockFlows == \A rmgr, op, idx : Flow(describe_block_data(rmgr, op, idx), {"flags"}, {})
<1> TAKE rmgr, op, idx
<1> DEFINE F == {"flags"}
           x == rest("block data", 1, TRUE)
<1>1. Plain(<<>>, 0) BY DEF Plain
<1>2. Flow(<<>>, F, F) BY <1>1, PlainFlows
<1>3. Flow(Program(describe_heap_block_data, op), F, F) BY <1>2, HeapBlockFlows DEF Program
<1>4. describe_heap2_block_data = <<x>> /\ Simple(x) BY DEF describe_heap2_block_data, Simple, rest
<1> HIDE DEF F, x
<1>5. Flow(describe_heap2_block_data, F, F) BY <1>4, OneFlows
<1>6. Flow(describe_block_data(rmgr, op, idx), F, F) BY <1>2, <1>3, <1>5 DEF describe_block_data
<1> QED BY <1>6, FlowLess DEF F
-----------------------------------------------------------------------------
(* Timestamps.  A year that begins in March ends with its leap day, so that *)
(* a day is a place in four nested cycles: of 400 years, of a century, of   *)
(* four years, of one.                                                      *)

\* A year as the cycles of the calendar, counted from a first of March: the century in
\* its 400 years, the leap cycle in that, the year in that; and the day of the year.
Cycle(c, q, r, doy) ==
  /\ c \in Int /\ 0 <= c /\ c < 4 /\ q \in Int /\ 0 <= q /\ q < 25 /\ r \in Int /\ 0 <= r /\ r < 4
  /\ doy \in Int /\ 0 <= doy /\ doy <= 365
  /\ doy = 365 => r = 3 /\ (q = 24 => c = 3)

DayOfEra(c, q, r, doy) == 36524 * c + 1461 * q + 365 * r + doy

LEMMA DayOfEraBound ==
  ASSUME NEW c, NEW q, NEW r, NEW doy, Cycle(c, q, r, doy)
  PROVE  DayOfEra(c, q, r, doy) \in Int /\ 0 <= DayOfEra(c, q, r, doy) /\ DayOfEra(c, q, r, doy) < 146097
BY DEF Cycle, DayOfEra

\* The 400 years that a day is in, for days counted from a first of March.
EraDays == 146097
EraShift == 719468
Era(z) == Quot(IF z >= 0 THEN z ELSE z - 146096, 146097)

\* Division as the program does it, toward zero.
LEMMA QuotIs ==
  \A a, n : (a >= 0 => Quot(a, n) = a \div n) /\ (~(a >= 0) => Quot(a, n) = -((-a) \div n))
BY DEF Quot

LEMMA EraFound ==
  ASSUME NEW era \in Int, NEW doe \in Int, 0 <= doe, doe < EraDays, NEW z \in Int, z = era * EraDays + doe
  PROVE  Era(z) = era
<1> USE DEF EraDays, Era
<1>1. CASE z >= 0 BY SMTT(30), <1>1, QuotIs
<1>2. CASE ~(z >= 0)
  <2>1. (146096 - z) \div 146097 = -era BY SMT, <1>2
  <2> QED BY SMT, <1>2, <2>1, QuotIs
<1> QED BY <1>1, <1>2

LEMMA YearFound ==
  ASSUME NEW c, NEW q, NEW r, NEW doy, Cycle(c, q, r, doy),
         NEW doe, doe = DayOfEra(c, q, r, doy)
  PROVE  Quot(doe - Quot(doe, 1460) + Quot(doe, 36524) - Quot(doe, 146096), 365) = 100 * c + 4 * q + r
<1>1. /\ c \in Int /\ 0 <= c /\ c < 4 /\ q \in Int /\ 0 <= q /\ q < 25 /\ r \in Int /\ 0 <= r
      /\ r < 4
      /\ doy \in Int /\ 0 <= doy /\ doy <= 365
      /\ doy = 365 => r = 3 /\ (q = 24 => c = 3)
  BY DEF Cycle
<1>2. doe \in Int /\ doe = 36524 * c + 1461 * q + 365 * r + doy /\ 0 <= doe BY <1>1 DEF DayOfEra
<1>3. (doe - doe \div 1460 + doe \div 36524 - doe \div 146096) \div 365 = 100 * c + 4 * q + r
  BY SMTT(30), <1>1, <1>2
<1>4. /\ Quot(doe, 1460) = doe \div 1460 /\ Quot(doe, 36524) = doe \div 36524
      /\ Quot(doe, 146096) = doe \div 146096
  BY SMTT(30), <1>2, QuotIs
<1>5. doe - doe \div 1460 + doe \div 36524 - doe \div 146096 >= 0 BY <1>2
<1> QED BY SMTT(30), <1>2, <1>3, <1>4, <1>5, QuotIs

LEMMA DayOfYearFound ==
  ASSUME NEW c, NEW q, NEW r, NEW doy, Cycle(c, q, r, doy),
         NEW doe, doe = DayOfEra(c, q, r, doy), NEW yoe, yoe = 100 * c + 4 * q + r
  PROVE  doe - (365 * yoe + Quot(yoe, 4) - Quot(yoe, 100)) = doy
<1>1. /\ c \in Int /\ 0 <= c /\ c < 4 /\ q \in Int /\ 0 <= q /\ q < 25 /\ r \in Int /\ 0 <= r
      /\ r < 4
      /\ doy \in Int
  BY DEF Cycle
<1>2. yoe \in Int /\ yoe >= 0 /\ yoe \div 4 = 25 * c + q /\ yoe \div 100 = c BY SMTT(30), <1>1
<1>3. Quot(yoe, 4) = 25 * c + q /\ Quot(yoe, 100) = c BY <1>2 DEF Quot
<1>4. doe = 36524 * c + 1461 * q + 365 * r + doy BY SMTT(30) DEF DayOfEra
<1> QED BY <1>1, <1>3, <1>4

\* A month from March on, and a day of it.
InMonth(mp, d) ==
  /\ mp \in Int /\ 0 <= mp /\ mp < 12 /\ d \in Int /\ 0 < d /\ d <= 31
  /\ mp = 1 \/ mp = 3 \/ mp = 6 \/ mp = 8 => d <= 30
  /\ mp = 11 => d <= 29

LEMMA MonthFound ==
  ASSUME NEW mp, NEW d, InMonth(mp, d), NEW doy, doy = (153 * mp + 2) \div 5 + d - 1
  PROVE  /\ Quot(5 * doy + 2, 153) = mp
         /\ doy - Quot(153 * mp + 2, 5) + 1 = d
         /\ doy \in Int /\ 0 <= doy /\ doy <= 365
<1>1. /\ mp \in Int /\ 0 <= mp /\ mp < 12 /\ d \in Int /\ 0 < d /\ d <= 31
      /\ mp = 1 \/ mp = 3 \/ mp = 6 \/ mp = 8 => d <= 30
      /\ mp = 11 => d <= 29
  BY DEF InMonth
<1>2. doy \in Int /\ 0 <= doy /\ doy <= 365 BY <1>1
<1>3. (5 * doy + 2) \div 153 = mp BY <1>1
<1> QED BY SMTT(30), <1>1, <1>2, <1>3, QuotIs

YearOf(era, c, q, r) == era * 400 + 100 * c + 4 * q + r
DayOfYear(mp, d) == (153 * mp + 2) \div 5 + d - 1

LEMMA CivilFound ==
  ASSUME NEW era \in Int, NEW c, NEW q, NEW r, NEW mp, NEW d, NEW doy, InMonth(mp, d),
         doy = DayOfYear(mp, d), Cycle(c, q, r, doy),
         NEW days \in Int, days + EraShift = era * EraDays + DayOfEra(c, q, r, doy)
  PROVE  civil_from_days(days) =
           [year  |-> YearOf(era, c, q, r) + (IF mp < 10 THEN 0 ELSE 1),
            month |-> IF mp < 10 THEN mp + 3 ELSE mp - 9, day |-> d]
<1> USE DEF YearOf, DayOfYear
<1> DEFINE z == days + EraShift
           e == Era(z)
           doe == z - e * EraDays
           yoe == Quot(doe - Quot(doe, 1460) + Quot(doe, 36524) - Quot(doe, 146096), 365)
           doy2 == doe - (365 * yoe + Quot(yoe, 4) - Quot(yoe, 100))
           mp2  == Quot(5 * doy2 + 2, 153)
           m   == IF mp2 < 10 THEN mp2 + 3 ELSE mp2 - 9
           y   == yoe + e * 400
<1>1. civil_from_days(days) =
        [year |-> IF m <= 2 THEN y + 1 ELSE y, month |-> m, day |-> doy2 - Quot(153 * mp2 + 2, 5) + 1]
  <2>1. e = Quot(IF z >= 0 THEN z ELSE z - 146096, 146097) /\ z = days + 719468
    BY DEF Era, EraDays, EraShift
  <2>2. doe = z - e * 146097 BY DEF EraDays
  <2> HIDE DEF e, z, doe
  <2> QED BY Z3, <2>1, <2>2 DEF civil_from_days
<1>2. /\ DayOfEra(c, q, r, doy) \in Int /\ 0 <= DayOfEra(c, q, r, doy)
      /\ DayOfEra(c, q, r, doy) < EraDays
  BY SMT, DayOfEraBound DEF EraDays
<1>3. z \in Int /\ z = era * EraDays + DayOfEra(c, q, r, doy) BY SMT DEF EraShift
<1> HIDE DEF z
<1>4. e = era BY SMTT(30), <1>2, <1>3, EraFound
<1>5. doe = DayOfEra(c, q, r, doy)
  <2> HIDE DEF e
  <2> QED BY SMT, <1>2, <1>3, <1>4 DEF EraDays
<1> HIDE DEF e, doe
<1>6. yoe = 100 * c + 4 * q + r BY SMTT(30), <1>5, YearFound
<1> HIDE DEF yoe
<1>7. doy2 = doy BY SMTT(30), <1>5, <1>6, DayOfYearFound
<1> HIDE DEF doy2
<1>8. /\ mp2 = mp /\ doy2 - Quot(153 * mp + 2, 5) + 1 = d BY SMT, <1>7, MonthFound
<1> HIDE DEF mp2
<1>9. m = (IF mp < 10 THEN mp + 3 ELSE mp - 9) /\ (m <= 2 <=> ~(mp < 10)) BY SMT, <1>8 DEF InMonth
<1> HIDE DEF m
<1>10. (IF m <= 2 THEN y + 1 ELSE y) = era * 400 + 100 * c + 4 * q + r + (IF mp < 10 THEN 0 ELSE 1)
  BY SMT, <1>4, <1>6, <1>9 DEF Cycle
<1> QED BY SMT, <1>1, <1>8, <1>9, <1>10

\* Days from the beginning of year 1 to the first of January of the year after y.
Since(y) == 365 * y + y \div 4 - y \div 100 + y \div 400

InCycles(c, q, r) == 0 <= c /\ c < 4 /\ 0 <= q /\ q < 25 /\ 0 <= r /\ r < 4

LEMMA CyclesFound ==
  ASSUME NEW Y \in Int
  PROVE  \E era, c, q, r \in Int : InCycles(c, q, r) /\ Y = YearOf(era, c, q, r)
<1> DEFINE era == Y \div 400
           yoe == Y % 400
<1>1. era \in Int /\ yoe \in Int /\ 0 <= yoe /\ yoe < 400 /\ Y = era * 400 + yoe OBVIOUS
<1> HIDE DEF era, yoe
<1> DEFINE c == yoe \div 100
           q == (yoe % 100) \div 4
           r == yoe % 4
<1>2. /\ c \in Int /\ q \in Int /\ r \in Int
      /\ 0 <= c /\ c < 4 /\ 0 <= q /\ q < 25 /\ 0 <= r /\ r < 4
      /\ yoe = 100 * c + 4 * q + r
  BY <1>1
<1> HIDE DEF c, q, r
<1>3. InCycles(c, q, r) /\ Y = YearOf(era, c, q, r) BY <1>1, <1>2 DEF InCycles, YearOf
<1> QED BY <1>1, <1>2, <1>3

LEMMA SinceCycles ==
  ASSUME NEW era \in Int, NEW c \in Int, NEW q \in Int, NEW r \in Int,
         InCycles(c, q, r), NEW Y, Y = YearOf(era, c, q, r)
  PROVE  Since(Y) = 146097 * era + 36524 * c + 1461 * q + 365 * r
<1> USE DEF InCycles, YearOf
<1>1. Y \in Int /\ Y \div 4 = 100 * era + 25 * c + q OBVIOUS
<1>2. Y \div 100 = 4 * era + c OBVIOUS
<1>3. Y \div 400 = era OBVIOUS
<1> QED BY <1>1, <1>2, <1>3 DEF Since

LEMMA LeapCounts ==
  ASSUME NEW Y \in Int
  PROVE  Since(Y) = Since(Y - 1) + 365 + (IF Leap(Y) THEN 1 ELSE 0)
<1>1. Y \div 4 = (Y - 1) \div 4 + (IF Y % 4 = 0 THEN 1 ELSE 0) OBVIOUS
<1>2. Y \div 100 = (Y - 1) \div 100 + (IF Y % 100 = 0 THEN 1 ELSE 0) OBVIOUS
<1>3. Y \div 400 = (Y - 1) \div 400 + (IF Y % 400 = 0 THEN 1 ELSE 0) OBVIOUS
<1>4. (Y % 100 = 0 => Y % 4 = 0) /\ (Y % 400 = 0 => Y % 100 = 0) OBVIOUS
<1>5. /\ (Y - 1) \in Int /\ (Y - 1) \div 4 \in Int /\ (Y - 1) \div 100 \in Int
      /\ (Y - 1) \div 400 \in Int
  OBVIOUS
<1> QED BY <1>1, <1>2, <1>3, <1>4, <1>5 DEF Since, Leap

LEMMA DateInverts ==
  ASSUME NEW year \in Int, NEW month \in 1 .. 12, NEW day \in 1 .. DaysIn(year, month),
         NEW days, days = DaysBefore(year, month) - DaysBefore(2000, 1) + day - 1
  PROVE  /\ days \in Int
         /\ civil_from_days(days + 10957) = [year |-> year, month |-> month, day |-> day]
<1> DEFINE mp == IF month > 2 THEN month - 3 ELSE month + 9
           Y == IF month > 2 THEN year ELSE year - 1
           doy == DayOfYear(mp, day)
<1>1. DaysBefore(2000, 1) = 730119 BY SMT DEF DaysBefore, DaysBeforeMonth
<1>2. day \in Int /\ 0 < day /\ day <= 31 /\ (month = 2 => day <= 29)
      /\ (month \in {4, 6, 9, 11} => day <= 30)
      /\ (month = 2 /\ day = 29 => Leap(year))
  BY SMT DEF DaysIn
<1>3. InMonth(mp, day) BY SMT, <1>2 DEF InMonth
<1>4. doy \in Int /\ 0 <= doy /\ doy <= 365 /\ (doy = 365 => month = 2 /\ day = 29)
  BY SMT, <1>2 DEF DayOfYear
<1>5. Y \in Int BY SMT
<1>6. PICK era, c, q, r \in Int : InCycles(c, q, r) /\ Y = YearOf(era, c, q, r)
  <2> HIDE DEF Y
  <2> QED BY <1>5, CyclesFound
<1>7. doy = 365 => r = 3 /\ (q = 24 => c = 3)
  <2> SUFFICES ASSUME doy = 365 PROVE r = 3 /\ (q = 24 => c = 3) BY SMT
  <2>1. month = 2 /\ Leap(year) BY SMT, <1>2, <1>4
  <2>2. year = era * 400 + 100 * c + 4 * q + r + 1 BY SMT, <1>6, <2>1 DEF InCycles, YearOf
  <2>3. year % 4 = 0 /\ (year % 100 = 0 => year % 400 = 0) BY SMT, <2>1 DEF Leap
  <2> HIDE DEF doy, mp, Y
  <2>4. r = 3 BY SMT, <1>6, <2>2, <2>3 DEF InCycles
  <2>5. ASSUME q = 24 PROVE c = 3
    <3>1. year = (4 * era + c + 1) * 100 BY SMT, <2>2, <2>4, <2>5
    <3>2. year % 100 = 0 BY SMT, <3>1
    <3>3. year % 400 = 0 BY SMT, <2>3, <3>2
    <3> QED BY SMT, <1>6, <3>1, <3>3 DEF InCycles
  <2> QED BY SMT, <2>4, <2>5
<1>8. Cycle(c, q, r, doy)
  <2> HIDE DEF doy
  <2> QED BY SMT, <1>4, <1>6, <1>7 DEF Cycle, InCycles
<1>9. DaysBefore(year, month) = Since(year - 1) + DaysBeforeMonth[month]
                                 + (IF month > 2 /\ Leap(year) THEN 1 ELSE 0)
  BY SMT DEF DaysBefore, Since
<1>10. Since(Y) = 146097 * era + 36524 * c + 1461 * q + 365 * r
  <2> HIDE DEF Y
  <2> QED BY SMT, <1>6, SinceCycles
<1>11. Since(year) = Since(year - 1) + 365 + (IF Leap(year) THEN 1 ELSE 0) BY SMT, LeapCounts
<1>12. Since(year - 1) \in Int BY SMT DEF Since
<1>13. DaysBeforeMonth[month] \in Int
       /\ DaysBeforeMonth[month] + 306 = (IF month > 2 THEN 365 ELSE 0) + (153 * mp + 2) \div 5
  BY SMT DEF DaysBeforeMonth
<1>14. DaysBefore(year, month) + 306 = Since(Y) + (153 * mp + 2) \div 5
  <2> DEFINE b == (153 * mp + 2) \div 5
             leap == IF Leap(year) THEN 1 ELSE 0
             before == DaysBeforeMonth[month]
             first == Since(year - 1)
             D == DaysBefore(year, month)
  <2>1. b \in Int /\ before \in Int /\ first \in Int /\ leap \in Int BY <1>12, <1>13
  <2>2. before + 306 = (IF month > 2 THEN 365 ELSE 0) + b BY <1>13
  <2>3. D = first + before + (IF month > 2 THEN leap ELSE 0) BY <1>9
  <2>4. Since(Y) = IF month > 2 THEN first + 365 + leap ELSE first BY <1>11
  <2> HIDE DEF b, leap, before, first, D, mp, Y
  <2>5. D + 306 = Since(Y) + b BY SMT, <2>1, <2>2, <2>3, <2>4
  <2> QED BY <2>5 DEF b, D
<1>15. days \in Int /\ days + 10957 + EraShift = era * EraDays + DayOfEra(c, q, r, doy)
  <2> DEFINE b == (153 * mp + 2) \div 5
             D == DaysBefore(year, month)
  <2>1. b \in Int /\ doy = b + day - 1 BY SMT DEF DayOfYear
  <2>2. D \in Int /\ D + 306 = 146097 * era + 36524 * c + 1461 * q + 365 * r + b
    <3>1. D + 306 = 146097 * era + 36524 * c + 1461 * q + 365 * r + b BY SMT, <1>10, <1>14
    <3>2. D \in Int BY SMT, <1>9, <1>12, <1>13
    <3> QED BY SMT, <3>1, <3>2
  <2>3. days = D - 730119 + day - 1 BY SMT, <1>1
  <2> HIDE DEF b, D, doy
  <2> QED BY SMT, <1>2, <1>6, <2>1, <2>2, <2>3 DEF DayOfEra, EraDays, EraShift
<1> HIDE DEF doy
<1>16. civil_from_days(days + 10957) =
         [year  |-> YearOf(era, c, q, r) + (IF mp < 10 THEN 0 ELSE 1),
          month |-> IF mp < 10 THEN mp + 3 ELSE mp - 9, day |-> day]
  <2>1. doy = DayOfYear(mp, day) BY SMT DEF doy
  <2> DEFINE unix == days + 10957
  <2>2. unix \in Int /\ unix + EraShift = era * EraDays + DayOfEra(c, q, r, doy) BY SMT, <1>15
  <2> HIDE DEF mp, Y, unix
  <2>3. civil_from_days(unix) =
          [year  |-> YearOf(era, c, q, r) + (IF mp < 10 THEN 0 ELSE 1),
           month |-> IF mp < 10 THEN mp + 3 ELSE mp - 9, day |-> day]
    BY <1>3, <1>6, <1>8, <2>1, <2>2, CivilFound
  <2> QED BY <2>3 DEF unix
<1>17. /\ YearOf(era, c, q, r) + (IF mp < 10 THEN 0 ELSE 1) = year
       /\ (IF mp < 10 THEN mp + 3 ELSE mp - 9) = month
  BY SMT, <1>6 DEF YearOf
<1> QED BY SMT, <1>15, <1>16, <1>17

\* Whole parts of a scale, and what is left.
LEMMA Parts ==
  ASSUME NEW a \in Int, NEW n \in Nat \ {0}, NEW r \in Int, 0 <= r, r < n
  PROVE  /\ a * n \in Int /\ a * n + r \in Int
         /\ (a * n + r) \div n = a /\ (a * n + r) % n = r
<1> DEFINE z == a * n + r
           q == z \div n
           k == z % n
<1>1. a * n \in Int /\ z \in Int OBVIOUS
<1>2. q \in Int /\ k \in Int /\ 0 <= k /\ k < n /\ z = n * q + k
  <2> HIDE DEF z
  <2> QED BY <1>1
<1>3. n * q + k = n * a + r BY <1>2
<1> HIDE DEF z, q, k
<1>4. n * (q - a) = r - k BY <1>2, <1>3
<1>5. q - a \in Int /\ n * (q - a) < n /\ n * (q - a) > -n BY <1>2, <1>4
<1>6. q = a
  <2>1. CASE q - a >= 1
    <3>1. n * (q - a) >= n BY <1>2, <2>1
    <3> QED BY <1>5, <3>1
  <2>2. CASE q - a <= -1
    <3>1. n * (q - a) <= -n BY <1>2, <2>2
    <3> QED BY <1>5, <3>1
  <2> QED BY <1>2, <2>1, <2>2
<1>7. k = r BY SMTT(30), <1>2, <1>3, <1>6
<1> QED BY <1>1, <1>6, <1>7 DEF z, q, k

LEMMA QuotOfNat ==
  ASSUME NEW a \in Nat, NEW n \in Nat \ {0}
  PROVE  Quot(a, n) = a \div n
BY SMTT(30), QuotIs

LEMMA QuotOfMultiple ==
  ASSUME NEW a \in Int, NEW n \in Nat \ {0}
  PROVE  Quot(a * n, n) = a
<1>1. CASE a >= 0
  <2>1. a * n >= 0 BY <1>1
  <2>2. (a * n + 0) \div n = a BY Parts
  <2> QED BY SMTT(30), <2>1, <2>2, QuotIs
<1>2. CASE a < 0
  <2>1. a * n < 0
    <3>1. a * n <= -n BY <1>2
    <3> QED BY <3>1
  <2>2. ((-a) * n + 0) \div n = -a BY Parts
  <2>3. -(a * n) = (-a) * n + 0 OBVIOUS
  <2> QED BY <2>1, <2>2, <2>3, QuotIs
<1> QED BY SMTT(30), <1>1, <1>2

\* The time of day, taken apart.
LEMMA ClockInverts ==
  ASSUME NEW h \in 0..(Day \div Hour - 1), NEW mi \in 0..(Hour \div Minute - 1), NEW s \in 0..(Minute - 1),
         NEW rem, rem = h * Hour + mi * Minute + s
  PROVE  /\ rem \in Nat /\ rem < Day
         /\ Quot(rem, Hour) = h /\ Quot(rem % Hour, Minute) = mi /\ rem % Minute = s
<1>1. /\ Minute \in Nat \ {0} /\ Hour \in Nat \ {0} /\ Day \in Nat \ {0}
      /\ Hour % Minute = 0 /\ Day % Hour = 0
  BY ScaleAssumption
<1>2. PICK hm \in Nat \ {0} : Hour = hm * Minute /\ Hour \div Minute = hm
  <2>1. Hour = Minute * (Hour \div Minute) + (Hour % Minute) /\ Hour \div Minute \in Nat BY <1>1
  <2>2. Hour = (Hour \div Minute) * Minute BY <1>1, <2>1
  <2>3. Hour \div Minute # 0 BY <1>1, <2>2
  <2> QED BY <2>1, <2>2, <2>3
<1>3. PICK dh \in Nat \ {0} : Day = dh * Hour /\ Day \div Hour = dh
  <2>1. Day = Hour * (Day \div Hour) + (Day % Hour) /\ Day \div Hour \in Nat BY <1>1
  <2>2. Day = (Day \div Hour) * Hour BY <1>1, <2>1
  <2>3. Day \div Hour # 0 BY <1>1, <2>2
  <2> QED BY <2>1, <2>2, <2>3
<1>4. h \in Nat /\ h <= dh - 1 /\ mi \in Nat /\ mi <= hm - 1 /\ s \in Nat /\ s < Minute
  BY <1>1, <1>2, <1>3
<1> DEFINE low == mi * Minute + s
<1>5. low \in Nat /\ low < Hour
  <2>1. mi * Minute \in Nat /\ mi * Minute <= (hm - 1) * Minute BY <1>1, <1>4
  <2>2. (hm - 1) * Minute = Hour - Minute BY <1>1, <1>2
  <2> QED BY <1>1, <1>4, <2>1, <2>2
<1>6. rem = h * Hour + low
  <2>1. h * Hour \in Int /\ mi * Minute \in Int BY <1>1, <1>4
  <2> QED BY <1>4, <2>1
<1>7. rem \in Nat /\ rem < Day
  <2>1. h * Hour \in Nat /\ h * Hour <= (dh - 1) * Hour BY <1>1, <1>4
  <2>2. (dh - 1) * Hour = Day - Hour BY <1>1, <1>3
  <2> HIDE DEF low
  <2> QED BY <1>1, <1>5, <1>6, <2>1, <2>2
<1>8. rem \div Hour = h /\ rem % Hour = low
  <2> HIDE DEF low
  <2> QED BY <1>1, <1>4, <1>5, <1>6, Parts
<1>9. low \div Minute = mi /\ low % Minute = s BY <1>1, <1>4, Parts
<1>10. rem % Minute = s
  <2>1. rem = (h * hm + mi) * Minute + s BY <1>1, <1>2, <1>4
  <2> DEFINE a == h * hm + mi
  <2>2. a \in Int /\ rem = a * Minute + s BY <1>2, <1>4, <2>1
  <2> HIDE DEF a
  <2>3. (a * Minute + s) % Minute = s BY <1>1, <1>4, <2>2, Parts
  <2> QED BY <2>2, <2>3
<1> HIDE DEF low
<1> QED BY <1>1, <1>5, <1>7, <1>8, <1>9, <1>10, QuotOfNat

\* A moment that a server stamps a record with is the moment that is shown:
\* fmt_pg_ts undoes TimestampTz, for every date of the calendar, before and after
\* the year 2000 and the year 1, and to the microsecond.
THEOREM TimestampsInvert == \A t : IsMoment(t) => fmt_pg_ts(TimestampTz(t)) = t
<1> SUFFICES ASSUME NEW t, IsMoment(t) PROVE fmt_pg_ts(TimestampTz(t)) = t OBVIOUS
<1> DEFINE year == t.date.year
           month == t.date.month
           day == t.date.day
           days == DaysBefore(year, month) - DaysBefore(2000, 1) + day - 1
           rem == t.h * Hour + t.m * Minute + t.s
           us == TimestampTz(t)
           unix_secs == us \div Second + PG_EPOCH_OFFSET
<1>1. /\ year \in Int /\ month \in 1..12 /\ day \in 1..DaysIn(year, month)
      /\ t.h \in 0..(Day \div Hour - 1) /\ t.m \in 0..(Hour \div Minute - 1)
      /\ t.s \in 0..(Minute - 1) /\ t.us \in 0..(Second - 1)
      /\ t = Moment(year, month, day, t.h, t.m, t.s, t.us)
  BY DEF IsMoment
<1>2. Second \in Nat \ {0} /\ Day \in Nat \ {0} BY ScaleAssumption
<1>3. days \in Int /\ civil_from_days(days + 10957) = [year |-> year, month |-> month, day |-> day]
  <2>1. days = DaysBefore(year, month) - DaysBefore(2000, 1) + day - 1 OBVIOUS
  <2> HIDE DEF year, month, day, days
  <2> QED BY SMTT(30), <1>1, <2>1, DateInverts
<1>4. /\ rem \in Nat /\ rem < Day
      /\ Quot(rem, Hour) = t.h /\ Quot(rem % Hour, Minute) = t.m /\ rem % Minute = t.s
  BY <1>1, ClockInverts
<1>5. us = (days * Day + rem) * Second + t.us
  <2>1. us = (days * Day + t.h * Hour + t.m * Minute + t.s) * Second + t.us BY DEF TimestampTz
  <2>2. /\ t.h * Hour \in Int /\ t.m * Minute \in Int /\ t.s \in Int /\ days * Day \in Int
    BY <1>1, <1>2, <1>3, ScaleAssumption
  <2>3. days * Day + t.h * Hour + t.m * Minute + t.s = days * Day + rem
    <3> DEFINE a == days * Day
               b == t.h * Hour
               e == t.m * Minute
    <3> HIDE DEF a, b, e, days
    <3> QED BY <2>2 DEF a, b, e
  <2> QED BY <2>1, <2>3
<1> HIDE DEF year, month, day, days, rem, us
<1>6. days * Day \in Int /\ days * Day + rem \in Int /\ t.us \in Int /\ 0 <= t.us /\ t.us < Second
  BY <1>1, <1>2, <1>3, <1>4
<1>7. us \div Second = days * Day + rem /\ us % Second = t.us
  <2> DEFINE n == days * Day + rem
  <2>1. n \in Int /\ us = n * Second + t.us BY <1>5, <1>6
  <2> HIDE DEF n
  <2>2. us \div Second = n /\ us % Second = t.us BY <1>2, <1>6, <2>1, Parts
  <2> QED BY <2>2 DEF n
<1>8. unix_secs = (days + 10957) * Day + rem BY <1>2, <1>3, <1>4, <1>6, <1>7 DEF PG_EPOCH_OFFSET
<1> HIDE DEF unix_secs
<1>9. unix_secs % Day = rem /\ (days + 10957) * Day \in Int BY <1>2, <1>3, <1>4, <1>8, Parts
<1>10. unix_secs - rem = (days + 10957) * Day BY <1>4, <1>8, <1>9
<1>11. Quot(unix_secs - rem, Day) = days + 10957 BY <1>2, <1>3, <1>10, QuotOfMultiple
<1>12. fmt_pg_ts(us) = [date |-> [year |-> year, month |-> month, day |-> day],
                        h |-> t.h, m |-> t.m, s |-> t.s, us |-> t.us]
  <2>1. fmt_pg_ts(us) = [date |-> civil_from_days(Quot(unix_secs - (unix_secs % Day), Day)),
                         h |-> Quot(unix_secs % Day, Hour), m |-> Quot((unix_secs % Day) % Hour, Minute),
                         s |-> (unix_secs % Day) % Minute, us |-> us % Second]
    BY DEF fmt_pg_ts, unix_secs
  <2> QED BY <1>3, <1>4, <1>7, <1>9, <1>11, <2>1
<1> QED BY <1>1, <1>12 DEF us, Moment

\* The calendar by which the moments are told is one: a month ends where the next
\* one begins, and a year where the next year does.
THEOREM CalendarAddsUp ==
  \A year \in Int :
    /\ \A month \in 1..11 : DaysBefore(year, month + 1) = DaysBefore(year, month) + DaysIn(year, month)
    /\ DaysBefore(year + 1, 1) = DaysBefore(year, 12) + DaysIn(year, 12)
<1> SUFFICES ASSUME NEW year \in Int
             PROVE  /\ \A month \in 1..11 :
                         DaysBefore(year, month + 1) = DaysBefore(year, month) + DaysIn(year, month)
                    /\ DaysBefore(year + 1, 1) = DaysBefore(year, 12) + DaysIn(year, 12)
  OBVIOUS
<1>1. Since(year - 1) \in Int /\ Since(year) = Since(year - 1) + 365 + (IF Leap(year) THEN 1 ELSE 0)
  BY LeapCounts DEF Since
<1>2. \A month \in 1..12 :
        DaysBefore(year, month) = Since(year - 1) + DaysBeforeMonth[month]
                                    + (IF month > 2 /\ Leap(year) THEN 1 ELSE 0)
  BY DEF DaysBefore, Since
<1>3. DaysBefore(year + 1, 1) = Since(year)
  <2>1. year + 1 - 1 = year /\ DaysBeforeMonth[1] = 0 /\ Since(year) \in Int
    BY DEF DaysBeforeMonth, Since
  <2>2. DaysBefore(year + 1, 1) = Since(year + 1 - 1) + DaysBeforeMonth[1] + 0
    BY DEF DaysBefore, Since
  <2> QED BY <2>1, <2>2
<1>4. ASSUME NEW month \in 1..11
      PROVE  DaysBefore(year, month + 1) = DaysBefore(year, month) + DaysIn(year, month)
  <2>1. DaysBeforeMonth[month] \in Int
        /\ DaysBeforeMonth[month + 1] = DaysBeforeMonth[month] + (IF month = 2 THEN 28 ELSE DaysIn(year, month))
    BY DEF DaysBeforeMonth, DaysIn
  <2>2. DaysIn(year, month) \in Int /\ (month = 2 => DaysIn(year, month) = 28 + (IF Leap(year) THEN 1 ELSE 0))
    BY DEF DaysIn
  <2> QED BY <1>1, <1>2, <2>1, <2>2
<1>5. DaysBefore(year + 1, 1) = DaysBefore(year, 12) + DaysIn(year, 12)
  <2>1. DaysBeforeMonth[12] = 334 /\ DaysIn(year, 12) = 31 BY DEF DaysBeforeMonth, DaysIn
  <2> QED BY <1>1, <1>2, <1>3, <2>1
<1> QED BY <1>4, <1>5

-----------------------------------------------------------------------------
(* Where the server put what a parser reads.                               *)

(***************************************************************************)
(* Where the reader is before an item of a payload that a server wrote, as *)
(* far as the program alone tells: in the structure, at byte o, with w     *)
(* bytes written (o is further when a padding has been skipped); in the    *)
(* packed part, after the last field; perhaps behind invalidation messages *)
(* that nobody skipped; nowhere in particular, at the end; or never there. *)
(***************************************************************************)
At(o, w) == [mode |-> "struct", o |-> o, w |-> w]
In(mode) == [mode |-> mode, o |-> 0, w |-> 0]

\* Is a part there?  The parsers ask for room: a metapage never goes with the main data.
Metadata == 28
Has(cond, info, value) ==
  CASE cond.on = "bits" -> value[cond.field] \cap cond.bits # {}
    [] cond.on = "info" -> TopBit(info) = cond.set
    [] cond.on = "room" -> cond.bytes # Metadata

TimeNames == {"xact_time", "prepared_at", "rp_time", "end_time", "overwrite_time", "origin_ts",
              "timestamp"}
Scalars == {"int", "unshown", "time", "flags", "count", "size"}

\* From mark t to mark u by an item that is read, or past a part that is not.
Packs(t, u) ==
  \/ t.mode = "struct" /\ t.o = t.w /\ u.mode \in {"packed", "tail", "end"}
  \/ t.mode = "packed" /\ u.mode \in {"packed", "tail", "end"}
  \/ t.mode = "tail" /\ u.mode \in {"tail", "end"}
Moves(t, n, u) == u.mode = "end" \/ (u.mode = "struct" /\ u.o = t.o + n /\ u.w = t.o + n)
Ends(t, u) == t.mode = "struct" /\ t.o = t.w /\ u.mode = "end"

FitScalar(it, t, u) ==
  \/ t.mode = "struct" /\ t.o = Aligned(t.w, it.width) /\ Moves(t, it.width, u)
  \/ t.mode = "packed" /\ Packs(t, u)
  \/ t.mode = "tail" /\ Packs(t, u) /\ it.kind \in {"int", "unshown", "time"}
FitArray(it, t, u) ==
  \/ t.mode = "struct" /\ t.o = Aligned(t.w, it.width) /\ u.mode = "end"
  \/ t.mode = "packed" /\ it.over /\ it.note = "cast" /\ Packs(t, u)
\* The parts that have perhaps one in front of them that no parser reads.
Unsure(cond) == cond.on = "bits" /\ cond.field = "xinfo" /\ cond.bits \in {{3}, {4}}
PastBits(cond, t, u) == Packs(t, u) /\ (Unsure(cond) => u.mode \in {"tail", "end"})

FitPart(it, t, u) ==
  IF it.cond.on = "bits" THEN PastBits(it.cond, t, u)
  ELSE IF it.cond.on = "room" /\ it.cond.bytes = Metadata
       THEN t.mode = "struct" /\ t.o = t.w /\ u.mode = "never"
  ELSE /\ it.cond.on \in {"info", "room"}
       /\ u = t /\ (t.mode = "packed" \/ (t.mode = "struct" /\ t.o = t.w))

Fit(it, t, u) ==
  \/ t.mode = "never" /\ u.mode \in {"never", "end"}
  \/ it.kind \in Scalars /\ FitScalar(it, t, u)
  \/ it.kind = "array" /\ FitArray(it, t, u)
  \/ it.kind = "skip" /\ t.mode = "struct" /\ u.mode = "struct" /\ u.o = t.o + it.width /\ u.w = t.w
  \/ it.kind = "indexed" /\ t.mode = "packed" /\ Packs(t, u)
  \/ it.kind = "cstr" /\ Packs(t, u) /\ (t.mode = "struct" => u.mode = "end")
  \/ it.kind \in {"name", "sized"} /\ Ends(t, u)
  \/ it.kind = "rest" /\ u.mode = "end"
  \/ it.kind = "if" /\ FitPart(it, t, u)

\* Whatever the mark.
Form(it) ==
  /\ it.kind \in Scalars \cup {"array"} => it.width \in {1, 2, 4, 8}
  /\ it.kind = "time" <=> it.name \in TimeNames
  /\ it.kind = "array" => it.note \in {"none", "clamped", "cast"}

\* The three numbers at the head of a part need as much room as the parser asks for.
Roomy(p, k) ==
  \E z \in {k + 3, k + 4} :
    /\ z <= k + p[k].jump /\ {p[k + 1].kind, p[k + 2].kind, p[z].kind} \subseteq Scalars
    /\ p[k].cond.bytes \in Nat /\ p[k].cond.bytes <= p[k + 1].width + p[k + 2].width + p[z].width
    /\ \A i \in k + 1 .. z : p[i].kind # "if"

\* Past a part that is not there.
Jumps(p, k, t, u) ==
  CASE p[k].cond.on = "bits" -> PastBits(p[k].cond, t, u)
    [] p[k].cond.on = "info" -> u.mode = "end"
    [] p[k].cond.on = "room" -> IF p[k].cond.bytes = Metadata
                                THEN u.mode = "end" /\ k + p[k].jump = Len(p)
                                ELSE Roomy(p, k)

\* c marks the items of program p, and its end, in step with each other.
Fits(p, c) ==
  \A k \in 1 .. Len(p) :
    /\ Form(p[k]) /\ Fit(p[k], c[k], c[k + 1])
    /\ p[k].kind = "if" => Jumps(p, k, c[k], c[k + 1 + p[k].jump])
    /\ p[k].kind = "skip" => k < Len(p) /\ p[k + 1].kind \in Scalars \cup {"array"}
    /\ p[k].kind = "array" => \A i \in 1 .. Len(p) : p[i].name = p[k].name => i = k

\* The first mark is at byte 0.
Starts(p, c) ==
  /\ \A k \in 1 .. Len(p) + 1 : c[k].o \in Nat /\ c[k].w \in Nat
  /\ c[1] = At(0, 0)

-----------------------------------------------------------------------------
(* Every program has marks.                                                *)

Marked(p) == \E c : Starts(p, c) /\ Fits(p, c)

\* n items of a structure without paddings, at the bytes that o says.
Straight(p, n, o) ==
  /\ Len(p) = n /\ n \in Nat
  /\ o[1] = 0
  /\ \A k \in 1 .. n :
       /\ p[k].kind \in Scalars /\ p[k].width \in {1, 2, 4, 8}
       /\ p[k].kind = "time" <=> p[k].name \in TimeNames
       /\ o[k] \in Nat /\ o[k + 1] = o[k] + p[k].width /\ o[k] % p[k].width = 0

LEMMA StraightMarked == ASSUME NEW p, NEW n, NEW o, Straight(p, n, o) PROVE Marked(p)
<1> DEFINE c == [k \in 1 .. n + 1 |-> At(o[k], o[k])]
<1>1. Len(p) = n /\ n \in Nat BY DEF Straight
<1>2. \A k \in 1 .. n : c[k] = At(o[k], o[k]) /\ c[k + 1] = At(o[k + 1], o[k + 1]) BY <1>1
<1>3. c[1] = At(0, 0) BY <1>1 DEF Straight
<1>4. \A k \in 1 .. n + 1 : c[k] = At(o[k], o[k]) /\ o[k] \in Nat
  <2> SUFFICES ASSUME NEW k \in 1 .. n + 1 PROVE c[k] = At(o[k], o[k]) /\ o[k] \in Nat OBVIOUS
  <2>1. CASE k = 1 BY <2>1, <1>1 DEF Straight
  <2>2. CASE k # 1
    <3>1. k - 1 \in 1 .. n /\ (k - 1) + 1 = k BY <1>1, <2>2
    <3>2. /\ o[k - 1] \in Nat /\ o[(k - 1) + 1] = o[k - 1] + p[k - 1].width
          /\ p[k - 1].width \in {1, 2, 4, 8}
      BY <3>1 DEF Straight
    <3> QED BY <3>1, <3>2
  <2> QED BY <2>1, <2>2
<1> HIDE DEF c
<1>5. Starts(p, c)
  <2>1. \A x : At(x, x).o = x /\ At(x, x).w = x BY DEF At
  <2>2. \A k \in 1 .. n + 1 : c[k].o \in Nat /\ c[k].w \in Nat BY <1>4, <2>1
  <2> QED BY <1>1, <1>3, <2>2 DEF Starts
<1>6. ASSUME NEW k \in 1 .. n PROVE Form(p[k]) /\ Fit(p[k], c[k], c[k + 1]) /\ p[k].kind \in Scalars
  <2> DEFINE it == p[k]
             a == o[k]
  <2>1. /\ it.kind \in Scalars /\ it.width \in {1, 2, 4, 8}
        /\ it.kind = "time" <=> it.name \in TimeNames
        /\ a \in Nat /\ o[k + 1] = a + it.width /\ a % it.width = 0
    BY DEF Straight
  <2>2. c[k] = At(a, a) /\ c[k + 1] = At(a + it.width, a + it.width) BY <1>2, <2>1
  <2> HIDE DEF it, a
  <2>3. Aligned(a, it.width) = a
    <3>1. CASE it.width = 1 BY <2>1, <3>1 DEF Aligned
    <3>2. CASE it.width = 2 BY <2>1, <3>2 DEF Aligned
    <3>3. CASE it.width = 4 BY <2>1, <3>3 DEF Aligned
    <3>4. CASE it.width = 8 BY <2>1, <3>4 DEF Aligned
    <3> QED BY <2>1, <3>1, <3>2, <3>3, <3>4
  <2>4. FitScalar(it, c[k], c[k + 1]) BY <2>1, <2>2, <2>3 DEF FitScalar, Moves, At
  <2>5. Form(it) BY <2>1 DEF Form, Scalars
  <2> QED BY <2>1, <2>4, <2>5 DEF Fit, it
<1>7. Fits(p, c) BY <1>1, <1>6 DEF Fits, Scalars
<1> QED BY <1>5, <1>7 DEF Marked

\* n items of a structure, each at byte o when w bytes have been written, and the last
\* of them perhaps one that ends it.
Member(p, n, o, w, k) ==
  \/ /\ p[k].kind \in Scalars /\ o[k] = Aligned(w[k], p[k].width)
     /\ k < n => o[k + 1] = o[k] + p[k].width /\ w[k + 1] = o[k + 1]
  \/ /\ p[k].kind = "skip" /\ k < n /\ p[k + 1].kind \in Scalars \cup {"array"}
     /\ o[k + 1] = o[k] + p[k].width /\ w[k + 1] = w[k]
  \/ /\ p[k].kind = "array" /\ k = n /\ o[k] = Aligned(w[k], p[k].width)
     /\ \A i \in 1 .. n : p[i].name = p[k].name => i = k
  \/ p[k].kind \in {"cstr", "name", "sized"} /\ k = n /\ o[k] = w[k]
  \/ p[k].kind = "rest" /\ k = n
Padded(p, n, o, w) ==
  /\ Len(p) = n /\ n \in Nat \ {0}
  /\ o[1] = 0 /\ w[1] = 0
  /\ \A k \in 1 .. n : o[k] \in Nat /\ w[k] \in Nat /\ Form(p[k]) /\ Member(p, n, o, w, k)

LEMMA PaddedMarked == ASSUME NEW p, NEW n, NEW o, NEW w, Padded(p, n, o, w) PROVE Marked(p)
<1> DEFINE c == [k \in 1 .. n + 1 |-> IF k = n + 1 THEN In("end") ELSE At(o[k], w[k])]
<1>1. Len(p) = n /\ n \in Nat \ {0} BY DEF Padded
<1>2. /\ \A k \in 1 .. n : c[k] = At(o[k], w[k]) /\ (k < n => c[k + 1] = At(o[k + 1], w[k + 1]))
      /\ c[n + 1] = In("end")
  <2>1. c[n + 1] = In("end") BY <1>1
  <2>2. \A k \in 1 .. n : c[k] = At(o[k], w[k]) BY <1>1
  <2> HIDE DEF c
  <2>3. \A k \in 1 .. n : k < n => k + 1 \in 1 .. n BY <1>1
  <2> QED BY <2>1, <2>2, <2>3
<1> HIDE DEF c
<1>3. Starts(p, c)
  <2>1. c[1] = At(0, 0)
    <3>1. 1 \in 1 .. n BY <1>1
    <3> QED BY <1>2, <3>1 DEF Padded
  <2>2. ASSUME NEW k \in 1 .. n + 1 PROVE c[k].o \in Nat /\ c[k].w \in Nat
    <3>1. CASE k = n + 1 BY <1>2, <3>1 DEF In
    <3>2. CASE k # n + 1
      <4>1. k \in 1 .. n BY <1>1, <3>2
      <4>2. c[k] = At(o[k], w[k]) /\ o[k] \in Nat /\ w[k] \in Nat BY <1>2, <4>1 DEF Padded
      <4> QED BY <4>2 DEF At
    <3> QED BY <3>1, <3>2
  <2> QED BY <1>1, <2>1, <2>2 DEF Starts
<1>4. ASSUME NEW k \in 1 .. n
      PROVE  /\ Form(p[k]) /\ Fit(p[k], c[k], c[k + 1]) /\ p[k].kind # "if"
             /\ p[k].kind = "skip" => k < n /\ p[k + 1].kind \in Scalars \cup {"array"}
             /\ p[k].kind = "array" => \A i \in 1 .. n : p[i].name = p[k].name => i = k
  <2> DEFINE it == p[k]
             t == c[k]
             u == c[k + 1]
             last == k + 1 = n + 1
  <2>1. Form(it) /\ Member(p, n, o, w, k) /\ o[k] \in Nat /\ w[k] \in Nat BY DEF Padded
  <2> DEFINE at(x, y) == At(x, y).mode = "struct" /\ At(x, y).o = x /\ At(x, y).w = y
  <2>14. \A x, y : at(x, y) BY DEF At
  <2>2. t.mode = "struct" /\ t.o = o[k] /\ t.w = w[k]
    <3>1. t = At(o[k], w[k]) BY <1>2
    <3> HIDE DEF t
    <3> QED BY <2>14, <3>1
  <2>3. k < n => u.mode = "struct" /\ u.o = o[k + 1] /\ u.w = w[k + 1]
    <3>1. k < n => u = At(o[k + 1], w[k + 1]) BY <1>2
    <3> HIDE DEF u
    <3> QED BY <2>14, <3>1
  <2>4. k < n \/ (k = n /\ u.mode = "end")
    <3>1. k < n \/ k = n BY <1>1
    <3> QED BY <1>2, <3>1 DEF In
  <2> HIDE DEF it, t, u
  <2>5. CASE it.kind \in Scalars
    <3>1. o[k] = Aligned(w[k], it.width)
          /\ (k < n => o[k + 1] = o[k] + it.width /\ w[k + 1] = o[k + 1])
      BY <2>1, <2>5 DEF Member, Scalars, it
    <3>2. Moves(t, it.width, u) BY <2>2, <2>3, <2>4, <3>1 DEF Moves
    <3>3. FitScalar(it, t, u) BY <2>2, <3>1, <3>2 DEF FitScalar
    <3> QED BY <2>1, <2>5, <3>3 DEF Fit, Scalars, it, t, u
  <2>6. CASE it.kind = "skip"
    <3>1. /\ k < n /\ p[k + 1].kind \in Scalars \cup {"array"}
          /\ o[k + 1] = o[k] + it.width /\ w[k + 1] = w[k]
      BY <2>1, <2>6 DEF Member, Scalars, it
    <3>2. Fit(it, t, u) BY <2>2, <2>3, <2>6, <3>1 DEF Fit
    <3> QED BY <2>1, <2>6, <3>1, <3>2 DEF it, t, u
  <2>7. CASE it.kind = "array"
    <3>1. /\ k = n /\ o[k] = Aligned(w[k], it.width)
          /\ \A i \in 1 .. n : p[i].name = it.name => i = k
      BY <2>1, <2>7 DEF Member, Scalars, it
    <3>2. u.mode = "end" BY <2>4, <3>1
    <3>3. Fit(it, t, u) BY <2>2, <2>7, <3>1, <3>2 DEF Fit, FitArray
    <3> QED BY <2>1, <2>7, <3>1, <3>3 DEF it, t, u
  <2>8. CASE it.kind \notin Scalars \cup {"skip", "array"}
    <3>1. k = n /\ (it.kind = "rest" \/ (it.kind \in {"cstr", "name", "sized"} /\ o[k] = w[k]))
      BY <2>1, <2>8 DEF Member, it
    <3>2. u.mode = "end" BY <2>4, <3>1
    <3>3. Fit(it, t, u) BY <2>2, <3>1, <3>2 DEF Fit, Packs, Ends
    <3> QED BY <2>1, <2>8, <3>1, <3>3 DEF it, t, u
  <2> QED BY <2>5, <2>6, <2>7, <2>8
<1>5. Fits(p, c) BY <1>1, <1>4 DEF Fits
<1> QED BY <1>3, <1>5 DEF Marked

LEMMA CheckpointMarked == Marked(checkpoint)
<1> DEFINE o == <<0, 8, 12, 16, 17, 20, 24, 32, 36, 40, 44, 48, 52, 56, 60, 64, 72, 76, 80>>
           w == <<0, 8, 12, 16, 17, 17, 24, 32, 36, 40, 44, 48, 52, 56, 60, 60, 72, 76, 80>>
<1>1. Padded(checkpoint, 19, o, w)
  BY SMTT(60) DEF Padded, Member, Aligned, Form, Scalars, TimeNames, checkpoint, u8, u32, u64,
      skip, Item
<1> QED BY <1>1, PaddedMarked
LEMMA PrepareMarked == Marked(describe_xact_main.PREPARE)
<1> DEFINE o == <<0, 4, 8, 12, 16, 24, 28, 32, 36, 40, 44, 48, 52, 53, 54, 56, 64>>
           w == <<0, 4, 8, 12, 16, 24, 28, 32, 36, 40, 44, 48, 52, 53, 53, 56, 64>>
<1>1. Padded(describe_xact_main.PREPARE, 17, o, w)
  BY SMTT(60) DEF Padded, Member, Aligned, Form, Scalars, TimeNames, describe_xact_main, u8, u32,
      u64, skip, time, unshown, size, sized, Item
<1> QED BY <1>1, PaddedMarked

LEMMA XlogMarked == \A op \in DOMAIN describe_xlog_main : Marked(describe_xlog_main[op])
<1> DEFINE T == describe_xlog_main
<1>1. T.CHECKPOINT_SHUTDOWN = checkpoint BY DEF describe_xlog_main
<1>2. T.CHECKPOINT_ONLINE = checkpoint BY DEF describe_xlog_main
<1>3. Straight(T.NEXTOID, 1, <<0, 4>>)
  BY DEF Straight, Scalars, TimeNames, describe_xlog_main, u32, Item
<1>4. Straight(T.BACKUP_END, 1, <<0, 8>>)
  BY DEF Straight, Scalars, TimeNames, describe_xlog_main, u64, Item
<1>5. Straight(T.PARAMETER_CHANGE, 8, <<0, 4, 8, 12, 16, 20, 24, 25, 26>>)
  BY DEF Straight, Scalars, TimeNames, describe_xlog_main, u32, u8, Item
<1>6. Padded(T.RESTORE_POINT, 2, <<0, 8>>,
          <<0, 8>>)
  BY SMTT(30) DEF Padded, Member, Aligned, Form, Scalars, TimeNames, describe_xlog_main, name64,
      time, Item
<1>7. Straight(T.FPW_CHANGE, 1, <<0, 1>>)
  BY DEF Straight, Scalars, TimeNames, describe_xlog_main, u8, Item
<1>8. Straight(T.END_OF_RECOVERY, 4, <<0, 8, 12, 16, 20>>)
  BY DEF Straight, Scalars, TimeNames, describe_xlog_main, time, u32, Item
<1>9. Straight(T.OVERWRITE_CONTRECORD, 2, <<0, 8, 16>>)
  BY DEF Straight, Scalars, TimeNames, describe_xlog_main, time, u64, Item
<1> HIDE DEF T
<1> QED BY XlogOperations, CheckpointMarked, <1>1, <1>2, <1>3, <1>4, <1>5, <1>6, <1>7, <1>8, <1>9,
    StraightMarked, PaddedMarked DEF T

LEMMA ClogMarked == \A op \in DOMAIN describe_clog_main : Marked(describe_clog_main[op])
<1> DEFINE T == describe_clog_main
<1>1. DOMAIN T = {"ZEROPAGE", "TRUNCATE"} BY DEF describe_clog_main
<1>2. Straight(T.ZEROPAGE, 1, <<0, 8>>)
  BY DEF Straight, Scalars, TimeNames, describe_clog_main, u64, Item
<1>3. Straight(T.TRUNCATE, 3, <<0, 8, 12, 16>>)
  BY DEF Straight, Scalars, TimeNames, describe_clog_main, u32, u64, Item
<1> HIDE DEF T
<1> QED BY <1>1, <1>2, <1>3, StraightMarked, PaddedMarked DEF T

LEMMA DatabaseMarked == \A op \in DOMAIN describe_database_main : Marked(describe_database_main[op])
<1> DEFINE T == describe_database_main
<1>1. DOMAIN T = {"CREATE_FILE_COPY", "CREATE_WAL_LOG", "DROP"} BY DEF describe_database_main
<1>2. Straight(T.CREATE_FILE_COPY, 4, <<0, 4, 8, 12, 16>>)
  BY DEF Straight, Scalars, TimeNames, describe_database_main, u32, Item
<1>3. Straight(T.CREATE_WAL_LOG, 2, <<0, 4, 8>>)
  BY DEF Straight, Scalars, TimeNames, describe_database_main, u32, Item
<1>4. Padded(T.DROP, 3, <<0, 4, 8>>,
          <<0, 4, 8>>)
  BY SMTT(30) DEF Padded, Member, Aligned, Form, Scalars, TimeNames, describe_database_main,
      array, count, u32, Item
<1> HIDE DEF T
<1> QED BY <1>1, <1>2, <1>3, <1>4, StraightMarked, PaddedMarked DEF T

LEMMA TablespaceMarked == \A op \in DOMAIN describe_tablespace_main : Marked(describe_tablespace_main[op])
<1> DEFINE T == describe_tablespace_main
<1>1. DOMAIN T = {"CREATE", "DROP"} BY DEF describe_tablespace_main
<1>2. Padded(T.CREATE, 2, <<0, 4>>,
          <<0, 4>>)
  BY SMTT(30) DEF Padded, Member, Aligned, Form, Scalars, TimeNames, describe_tablespace_main,
      cstr, u32, Item
<1>3. Straight(T.DROP, 1, <<0, 4>>)
  BY DEF Straight, Scalars, TimeNames, describe_tablespace_main, u32, Item
<1> HIDE DEF T
<1> QED BY <1>1, <1>2, <1>3, StraightMarked, PaddedMarked DEF T

LEMMA MultixactMarked == \A op \in DOMAIN describe_multixact_main : Marked(describe_multixact_main[op])
<1> DEFINE T == describe_multixact_main
<1>1. DOMAIN T = {"ZERO_OFF_PAGE", "ZERO_MEM_PAGE", "CREATE_ID", "TRUNCATE_ID"}
  BY DEF describe_multixact_main
<1>2. Straight(T.ZERO_OFF_PAGE, 1, <<0, 8>>)
  BY DEF Straight, Scalars, TimeNames, describe_multixact_main, u64, Item
<1>3. Straight(T.ZERO_MEM_PAGE, 1, <<0, 8>>)
  BY DEF Straight, Scalars, TimeNames, describe_multixact_main, u64, Item
<1>4. Padded(T.CREATE_ID, 4, <<0, 4, 8, 12>>,
          <<0, 4, 8, 12>>)
  BY SMTT(30) DEF Padded, Member, Aligned, Form, Scalars, TimeNames, describe_multixact_main,
      array, count, u32, Item
<1>5. Straight(T.TRUNCATE_ID, 5, <<0, 4, 8, 12, 16, 20>>)
  BY DEF Straight, Scalars, TimeNames, describe_multixact_main, u32, Item
<1> HIDE DEF T
<1> QED BY <1>1, <1>2, <1>3, <1>4, <1>5, StraightMarked, PaddedMarked DEF T

LEMMA RelmapMarked == \A op \in DOMAIN describe_relmap_main : Marked(describe_relmap_main[op])
<1> DEFINE T == describe_relmap_main
<1>1. DOMAIN T = {"UPDATE"} BY DEF describe_relmap_main
<1>2. Straight(T.UPDATE, 3, <<0, 4, 8, 12>>)
  BY DEF Straight, Scalars, TimeNames, describe_relmap_main, u32, Item
<1> HIDE DEF T
<1> QED BY <1>1, <1>2, StraightMarked, PaddedMarked DEF T

LEMMA StandbyMarked == \A op \in DOMAIN describe_standby_main : Marked(describe_standby_main[op])
<1> DEFINE T == describe_standby_main
<1>1. DOMAIN T = {"LOCK", "RUNNING_XACTS", "INVALIDATIONS"} BY DEF describe_standby_main
<1>2. Padded(T.LOCK, 2, <<0, 4>>,
          <<0, 4>>)
  BY SMTT(30) DEF Padded, Member, Aligned, Form, Scalars, TimeNames, describe_standby_main, array,
      count, Item
<1>3. Padded(T.RUNNING_XACTS, 8, <<0, 4, 8, 9, 12, 16, 20, 24>>,
          <<0, 4, 8, 9, 9, 16, 20, 24>>)
  BY SMTT(30) DEF Padded, Member, Aligned, Form, Scalars, TimeNames, describe_standby_main, array,
      count, skip, u32, u8, Item
<1>4. Padded(T.INVALIDATIONS, 5, <<0, 4, 8, 9, 12>>,
          <<0, 4, 8, 9, 9>>)
  BY SMTT(30) DEF Padded, Member, Aligned, Form, Scalars, TimeNames, describe_standby_main, skip,
      u32, u8, Item
<1> HIDE DEF T
<1> QED BY <1>1, <1>2, <1>3, <1>4, StraightMarked, PaddedMarked DEF T

LEMMA OriginMarked == \A op \in DOMAIN describe_replorigin_main : Marked(describe_replorigin_main[op])
<1> DEFINE T == describe_replorigin_main
<1>1. DOMAIN T = {"SET", "DROP"} BY DEF describe_replorigin_main
<1>2. Straight(T.SET, 3, <<0, 8, 10, 11>>)
  BY DEF Straight, Scalars, TimeNames, describe_replorigin_main, u16, u64, u8, Item
<1>3. Straight(T.DROP, 1, <<0, 2>>)
  BY DEF Straight, Scalars, TimeNames, describe_replorigin_main, u16, Item
<1> HIDE DEF T
<1> QED BY <1>1, <1>2, <1>3, StraightMarked, PaddedMarked DEF T

LEMMA LogicalMessageMarked == \A op \in DOMAIN describe_logical_msg_main : Marked(describe_logical_msg_main[op])
<1> DEFINE T == describe_logical_msg_main
<1>1. DOMAIN T = {"MESSAGE"} BY DEF describe_logical_msg_main
<1>2. Padded(T.MESSAGE, 6, <<0, 4, 5, 8, 16, 24>>,
          <<0, 4, 5, 5, 16, 24>>)
  BY SMTT(30) DEF Padded, Member, Aligned, Form, Scalars, TimeNames, describe_logical_msg_main,
      size, sized, skip, u32, u64, u8, Item
<1> HIDE DEF T
<1> QED BY <1>1, <1>2, StraightMarked, PaddedMarked DEF T

(***************************************************************************)
(* From mark t to mark u by the items of p, none of them named as one of   *)
(* X, the arrays of elements named as some of A.                           *)
(***************************************************************************)
Goes(it, t, u, A, X) ==
  /\ Form(it) /\ Fit(it, t, u) /\ it.name \notin X
  /\ it.kind = "array" => it.name \in A

Fares(p, c, k, A, X) ==
  /\ Goes(p[k], c[k], c[k + 1], A, X)
  /\ p[k].kind = "if" => /\ p[k].cond.on \in {"bits", "info", "room"}
                         /\ p[k].jump \in Nat /\ k + p[k].jump <= Len(p)
                         /\ Jumps(p, k, c[k], c[k + 1 + p[k].jump])
  /\ p[k].kind = "skip" => k < Len(p) /\ p[k + 1].kind \in Scalars \cup {"array"}
  /\ p[k].kind = "array" => \A i \in 1 .. Len(p) : p[i].name = p[k].name => i = k
Along(p, c, t, u, A, X) ==
  /\ c[1] = t /\ c[Len(p) + 1] = u
  /\ \A k \in 1 .. Len(p) + 1 : c[k].o \in Nat /\ c[k].w \in Nat
  /\ \A k \in 1 .. Len(p) : Fares(p, c, k, A, X)
Route(p, t, u, A, X) == IsSeq(p) /\ \E c : Along(p, c, t, u, A, X)

LEMMA RouteMarked == ASSUME NEW p, NEW u, NEW A, NEW X, Route(p, At(0, 0), u, A, X) PROVE Marked(p)
<1>1. PICK c : Along(p, c, At(0, 0), u, A, X) BY DEF Route
<1>2. Starts(p, c) BY <1>1 DEF Along, Starts
<1>3. Fits(p, c) BY <1>1 DEF Along, Fits, Fares, Goes
<1> QED BY <1>2, <1>3 DEF Marked

LEMMA JumpsShift ==
  ASSUME NEW p, NEW r, NEW d \in Nat, Len(p) \in Nat,
         \A i \in 1 .. Len(p) : r[d + i] = p[i],
         NEW k \in 1 .. Len(p), p[k].jump \in Nat, k + p[k].jump <= Len(p),
         p[k].cond.on \in {"bits", "info", "room"},
         NEW t, NEW u, Jumps(p, k, t, u),
         u.mode = "end" => p[k].cond.on # "room" \/ p[k].cond.bytes # Metadata \/ d + Len(p) = Len(r)
  PROVE  Jumps(r, d + k, t, u)
<1>1. r[d + k] = p[k] OBVIOUS
<1>2. CASE p[k].cond.on = "bits" BY <1>1, <1>2 DEF Jumps
<1>3. CASE p[k].cond.on = "info" BY <1>1, <1>3 DEF Jumps
<1>4. CASE p[k].cond.on = "room" /\ p[k].cond.bytes = Metadata
  <2>1. u.mode = "end" /\ k + p[k].jump = Len(p) BY <1>4 DEF Jumps
  <2> DEFINE l == Len(p)
             x == p[k].jump
  <2>2. k + x = l /\ d + l = Len(r) /\ k \in Int /\ x \in Nat /\ l \in Nat BY <1>4, <2>1
  <2> HIDE DEF l, x
  <2>3. d + k + x = Len(r) BY <2>2
  <2> QED BY <1>1, <1>4, <2>1, <2>3 DEF Jumps, x
<1>5. CASE p[k].cond.on = "room" /\ p[k].cond.bytes # Metadata
  <2>1. Roomy(p, k) BY <1>5 DEF Jumps
  <2>2. PICK z \in {k + 3, k + 4} :
          /\ z <= k + p[k].jump /\ {p[k + 1].kind, p[k + 2].kind, p[z].kind} \subseteq Scalars
          /\ p[k].cond.bytes \in Nat
          /\ p[k].cond.bytes <= p[k + 1].width + p[k + 2].width + p[z].width
          /\ \A i \in k + 1 .. z : p[i].kind # "if"
    BY <2>1 DEF Roomy
  <2>3. /\ k + 1 \in 1 .. Len(p) /\ k + 2 \in 1 .. Len(p) /\ z \in 1 .. Len(p)
        /\ d + k + 1 = d + (k + 1) /\ d + k + 2 = d + (k + 2)
    BY SMTT(30), <2>2
  <2>4. r[d + k + 1] = p[k + 1] /\ r[d + k + 2] = p[k + 2] /\ r[d + z] = p[z]
    <3>1. r[d + (k + 1)] = p[k + 1] /\ r[d + (k + 2)] = p[k + 2] /\ r[d + z] = p[z] BY <2>3
    <3> QED BY <2>3, <3>1
  <2>5. d + z \in {d + k + 3, d + k + 4} /\ d + z <= d + k + p[k].jump
    <3> DEFINE x == p[k].jump
    <3>1. z \in {k + 3, k + 4} /\ z <= k + x /\ x \in Nat /\ k \in Int BY <2>2
    <3> HIDE DEF x
    <3>2. d + z \in {d + k + 3, d + k + 4} /\ d + z <= d + k + x BY <3>1
    <3> QED BY <3>2 DEF x
  <2>6. ASSUME NEW i \in d + k + 1 .. d + z PROVE r[i].kind # "if"
    <3>1. i - d \in k + 1 .. z /\ i - d \in 1 .. Len(p) /\ d + (i - d) = i BY SMTT(30), <2>2
    <3> QED BY <2>2, <3>1
  <2>7. Roomy(r, d + k) BY ZenonT(30), <1>1, <2>2, <2>4, <2>5, <2>6 DEF Roomy
  <2> QED BY <1>1, <1>5, <2>7 DEF Jumps
<1> QED BY <1>2, <1>3, <1>4, <1>5

\* The items of p, d items further on, in a longer program r.
Lies(p, c, u, A, r, f, d) ==
  /\ d \in Nat /\ Len(p) \in Nat /\ Len(r) \in Nat /\ d + Len(p) <= Len(r)
  /\ \A i \in 1 .. Len(p) : r[d + i] = p[i]
  /\ \A i \in 1 .. Len(p) + 1 : f[d + i] = c[i]
  /\ \A i \in 1 .. Len(r) : i \notin d + 1 .. d + Len(p) => r[i].name \notin A
  /\ d + Len(p) = Len(r) \/ u.mode # "end"

LEMMA AlongShift ==
  ASSUME NEW p, NEW r, NEW d, NEW c, NEW f, NEW t, NEW u, NEW A, NEW X, Along(p, c, t, u, A, X),
         Lies(p, c, u, A, r, f, d),
         NEW k \in 1 .. Len(p), NEW B, NEW Y, A \subseteq B, Y \subseteq X
  PROVE  Fares(r, f, d + k, B, Y)
<1> DEFINE m == d + k
           l == Len(p)
<1>1. /\ Goes(p[k], c[k], c[k + 1], A, X)
      /\ p[k].kind = "if" => /\ p[k].cond.on \in {"bits", "info", "room"}
                             /\ p[k].jump \in Nat /\ k + p[k].jump <= l
                             /\ Jumps(p, k, c[k], c[k + 1 + p[k].jump])
      /\ p[k].kind = "skip" => k < l /\ p[k + 1].kind \in Scalars \cup {"array"}
      /\ p[k].kind = "array" => \A i \in 1 .. l : p[i].name = p[k].name => i = k
  BY DEF Along, Fares
<1>2. c[l + 1] = u BY DEF Along
<1>14. /\ d \in Nat /\ Len(p) \in Nat /\ Len(r) \in Nat /\ d + Len(p) <= Len(r)
       /\ \A i \in 1 .. Len(p) : r[d + i] = p[i]
       /\ \A i \in 1 .. Len(p) + 1 : f[d + i] = c[i]
       /\ \A i \in 1 .. Len(r) : i \notin d + 1 .. d + Len(p) => r[i].name \notin A
       /\ d + Len(p) = Len(r) \/ u.mode # "end"
  BY DEF Lies
<1> HIDE DEF l
<1>3. d \in Nat /\ l \in Nat /\ k \in 1 .. l /\ m \in Nat /\ m <= Len(r) BY <1>14 DEF l
<1>4. /\ \A i \in 1 .. l : r[d + i] = p[i]
      /\ \A i \in 1 .. l + 1 : f[d + i] = c[i]
  BY <1>14 DEF l
<1>5. r[m] = p[k] /\ f[m] = c[k] /\ f[m + 1] = c[k + 1]
  <2>1. k \in 1 .. l + 1 /\ k + 1 \in 1 .. l + 1 /\ m + 1 = d + (k + 1) BY <1>3
  <2> QED BY <1>3, <1>4, <2>1
<1>6. Goes(r[m], f[m], f[m + 1], B, Y) BY <1>1, <1>5 DEF Goes
<1>7. ASSUME r[m].kind = "if"
      PROVE  /\ r[m].cond.on \in {"bits", "info", "room"}
             /\ r[m].jump \in Nat /\ m + r[m].jump <= Len(r)
             /\ Jumps(r, m, f[m], f[m + 1 + r[m].jump])
  <2> DEFINE x == p[k].jump
  <2>1. /\ p[k].cond.on \in {"bits", "info", "room"} /\ x \in Nat /\ k + x <= l
        /\ Jumps(p, k, c[k], c[k + 1 + x])
    BY <1>1, <1>5, <1>7
  <2>2. r[m].jump = x BY <1>5
  <2> HIDE DEF x
  <2>3. k + 1 + x \in 1 .. l + 1 /\ m + 1 + x = d + (k + 1 + x) /\ m + x <= d + l BY <1>3, <2>1
  <2>4. f[m + 1 + x] = c[k + 1 + x] BY <1>4, <2>3
  <2>5. m + x <= Len(r)
    <3>1. d + l <= Len(r) /\ m + x \in Nat /\ d + l \in Nat BY <1>3, <1>14, <2>1 DEF l
    <3> QED BY <2>3, <3>1
  <2>6. c[k + 1 + x].mode = "end" => p[k].cond.on # "room" \/ p[k].cond.bytes # Metadata \/ d + l = Len(r)
    <3> SUFFICES ASSUME c[k + 1 + x].mode = "end", p[k].cond.on = "room", p[k].cond.bytes = Metadata
                 PROVE  d + l = Len(r)
      OBVIOUS
    <3>1. k + x = l BY <2>1 DEF Jumps, l, x
    <3>2. k + 1 + x = l + 1 BY <1>3, <2>1, <3>1
    <3> QED BY <1>2, <1>14, <3>2 DEF l
  <2>7. Jumps(r, d + k, c[k], c[k + 1 + x]) BY <1>3, <1>14, <2>1, <2>6, JumpsShift DEF l, x
  <2> QED BY <1>5, <2>1, <2>2, <2>4, <2>5, <2>7
<1>8. ASSUME r[m].kind = "skip"
      PROVE  m < Len(r) /\ r[m + 1].kind \in Scalars \cup {"array"}
  <2>1. k < l /\ p[k + 1].kind \in Scalars \cup {"array"} BY <1>1, <1>5, <1>8
  <2>2. k + 1 \in 1 .. l /\ m + 1 = d + (k + 1) /\ m < d + l BY <1>3, <2>1
  <2>3. d + l <= Len(r) /\ Len(r) \in Nat BY <1>14 DEF l
  <2>4. m < Len(r) BY <1>3, <2>2, <2>3
  <2> QED BY <1>4, <2>1, <2>2, <2>4
<1>9. ASSUME r[m].kind = "array", NEW i \in 1 .. Len(r), r[i].name = r[m].name
      PROVE  i = m
  <2>1. r[m].name \in A /\ \A j \in 1 .. l : p[j].name = p[k].name => j = k
    BY <1>1, <1>5, <1>9 DEF Goes
  <2>2. i \in d + 1 .. d + l BY <1>9, <1>14, <2>1 DEF l
  <2>3. i - d \in 1 .. l /\ d + (i - d) = i BY <1>3, <2>2
  <2>4. p[i - d].name = p[k].name BY <1>4, <1>5, <1>9, <2>3
  <2>5. i - d = k BY <2>1, <2>3, <2>4
  <2> QED BY <2>3, <2>5
<1> HIDE DEF m
<1> QED BY <1>6, <1>7, <1>8, <1>9 DEF m, Fares

LEMMA RouteJoin ==
  ASSUME NEW p, NEW q, NEW t, NEW s, NEW u, NEW A, NEW B, NEW X, NEW Y,
         Route(p, t, s, A, X), Route(q, s, u, B, Y), s.mode # "end", A \subseteq Y, B \subseteq X
  PROVE  Route(p \o q, t, u, A \cup B, X \cap Y)
<1> DEFINE n == Len(p)
           l == Len(q)
           r == p \o q
<1>1. PICK g : Along(p, g, t, s, A, X) BY DEF Route
<1>2. PICK h : Along(q, h, s, u, B, Y) BY DEF Route
<1>3. n \in Nat /\ l \in Nat BY SeqLen DEF Route
<1>4. /\ IsSeq(r) /\ Len(r) = n + l
      /\ \A k \in 1 .. n : r[0 + k] = p[k]
      /\ \A k \in 1 .. l : r[n + k] = q[k]
  BY SeqJoin DEF Route
<1> DEFINE f == [k \in 1 .. n + l + 1 |-> IF k <= n THEN g[k] ELSE h[k - n]]
<1>5. g[n + 1] = s /\ h[1] = s BY <1>1, <1>2 DEF Along
<1>6. /\ \A k \in 1 .. n : r[k].name \notin X
      /\ \A k \in 1 .. l : r[n + k].name \notin Y
  BY <1>1, <1>2, <1>4 DEF Along, Fares, Goes
<1> HIDE DEF n, l, r
<1>7. /\ \A k \in 1 .. n + 1 : f[0 + k] = g[k]
      /\ \A k \in 1 .. l + 1 : f[n + k] = h[k]
  <2>1. ASSUME NEW k \in 1 .. l + 1 PROVE f[n + k] = h[k]
    <3>1. n + k \in 1 .. n + l + 1 /\ ~(n + k <= n) /\ (n + k) - n = k BY <1>3
    <3> QED BY <3>1
  <2>2. ASSUME NEW k \in 1 .. n PROVE f[k] = g[k] BY <1>3
  <2> HIDE DEF f
  <2>3. f[n + 1] = g[n + 1]
    <3>1. 1 \in 1 .. l + 1 BY <1>3
    <3> QED BY <1>5, <2>1, <3>1
  <2>4. \A k \in 1 .. n + 1 : k \in 1 .. n \/ k = n + 1 BY <1>3
  <2> QED BY <2>1, <2>2, <2>3, <2>4
<1> HIDE DEF f
<1>8. /\ f[1] = t /\ f[n + l + 1] = u
      /\ \A k \in 1 .. n + l + 1 : f[k].o \in Nat /\ f[k].w \in Nat
  <2>1. /\ g[1] = t /\ h[l + 1] = u
        /\ \A k \in 1 .. n + 1 : g[k].o \in Nat /\ g[k].w \in Nat
        /\ \A k \in 1 .. l + 1 : h[k].o \in Nat /\ h[k].w \in Nat
    BY <1>1, <1>2 DEF Along, n, l
  <2>2. f[1] = t
    <3>1. 1 \in 1 .. n + 1 /\ 0 + 1 = 1 BY <1>3
    <3> QED BY <1>7, <2>1, <3>1
  <2>3. f[n + l + 1] = u
    <3>1. l + 1 \in 1 .. l + 1 /\ n + (l + 1) = n + l + 1 BY <1>3
    <3> QED BY <1>7, <2>1, <3>1
  <2>4. ASSUME NEW k \in 1 .. n + l + 1 PROVE f[k].o \in Nat /\ f[k].w \in Nat
    <3>1. CASE k <= n
      <4>1. k \in 1 .. n + 1 /\ 0 + k = k BY <1>3, <3>1
      <4> QED BY <1>7, <2>1, <4>1
    <3>2. CASE ~(k <= n)
      <4>1. k - n \in 1 .. l + 1 /\ n + (k - n) = k BY <1>3, <3>2
      <4>2. f[k] = h[k - n] BY <1>7, <4>1
      <4> QED BY <2>1, <4>1, <4>2
    <3> QED BY <3>1, <3>2
  <2> QED BY <2>2, <2>3, <2>4
<1> DEFINE C == A \cup B
           Z == X \cap Y
<1>14. A \subseteq C /\ B \subseteq C /\ Z \subseteq X /\ Z \subseteq Y OBVIOUS
<1> HIDE DEF C, Z
<1>9. ASSUME NEW k \in 1 .. n PROVE Fares(r, f, 0 + k, C, Z)
  <2>1. ASSUME NEW i \in 1 .. Len(r), i \notin 0 + 1 .. 0 + n PROVE r[i].name \notin A
    <3>1. i - n \in 1 .. l /\ n + (i - n) = i BY <1>3, <1>4, <2>1
    <3>2. r[n + (i - n)].name \notin Y BY <1>6, <3>1
    <3> QED BY <3>1, <3>2
  <2>2. 0 + n <= Len(r) /\ Len(r) \in Nat BY <1>3, <1>4
  <2>3. Lies(p, g, s, A, r, f, 0) BY <1>3, <1>4, <1>7, <2>1, <2>2 DEF n, Lies
  <2>4. k \in 1 .. Len(p) BY DEF n
  <2> QED BY <1>1, <1>14, <2>3, <2>4, AlongShift
<1>10. ASSUME NEW k \in 1 .. l PROVE Fares(r, f, n + k, C, Z)
  <2>1. ASSUME NEW i \in 1 .. Len(r), i \notin n + 1 .. n + l PROVE r[i].name \notin B
    <3>1. i \in 1 .. n BY <1>3, <1>4, <2>1
    <3> QED BY <1>6, <3>1
  <2>2. n + l <= Len(r) /\ Len(r) \in Nat /\ n + l = Len(r) BY <1>3, <1>4
  <2>3. Lies(q, h, u, B, r, f, n) BY <1>3, <1>4, <1>7, <2>1, <2>2 DEF l, Lies
  <2>4. k \in 1 .. Len(q) BY DEF l
  <2> QED BY <1>2, <1>14, <2>3, <2>4, AlongShift
<1>11. ASSUME NEW k \in 1 .. n + l PROVE Fares(r, f, k, C, Z)
  <2>1. CASE k <= n
    <3>1. k \in 1 .. n /\ 0 + k = k BY <1>3, <2>1
    <3>2. Fares(r, f, 0 + k, C, Z) BY <1>9, <3>1
    <3> QED BY <3>1, <3>2
  <2>2. CASE ~(k <= n)
    <3>1. k - n \in 1 .. l /\ n + (k - n) = k BY <1>3, <2>2
    <3>2. Fares(r, f, n + (k - n), C, Z) BY <1>10, <3>1
    <3> QED BY <3>1, <3>2
  <2> QED BY <2>1, <2>2
<1>12. Along(r, f, t, u, C, Z)
  <2>1. Len(r) = n + l BY <1>4
  <2> QED BY <2>1, <1>8, <1>11 DEF Along
<1> QED BY <1>4, <1>12 DEF Route, r, C, Z

LEMMA RouteIf ==
  ASSUME NEW cond, NEW p, NEW t, NEW s, NEW u, NEW A, NEW X, Route(p, s, u, A, X),
         t.o \in Nat, t.w \in Nat, "part" \notin X \cup A,
         cond.on \in {"bits", "info", "room"}, FitPart([cond |-> cond], t, s),
         Jumps(If(cond, p), 1, t, u)
  PROVE  Route(If(cond, p), t, u, A, X)
<1>1. PICK g : Along(p, g, s, u, A, X) BY DEF Route
<1> DEFINE n == Len(p)
           it == [kind |-> "if", name |-> "part", width |-> 0, cond |-> cond, jump |-> n]
           r == <<it>> \o p
           f == [k \in 1 .. n + 2 |-> IF k = 1 THEN t ELSE g[k - 1]]
<1>2. n \in Nat BY SeqLen DEF Route
<1>3. IsSeq(<<it>>) /\ Len(<<it>>) = 1 /\ <<it>>[1] = it
  <2> HIDE DEF it
  <2>1. <<it>> \in Seq({it}) OBVIOUS
  <2> QED BY <2>1 DEF IsSeq
<1>4. If(cond, p) = r BY DEF If
<1>5. it.kind = "if" /\ it.cond = cond /\ it.jump = n /\ it.name = "part" OBVIOUS
<1> HIDE DEF it
<1>6. /\ IsSeq(r) /\ Len(r) = 1 + n
      /\ r[1] = it
      /\ \A k \in 1 .. n : r[1 + k] = p[k]
  BY <1>3, SeqJoin DEF Route
<1>7. g[n + 1] = u /\ g[1] = s BY <1>1 DEF Along
<1>8. \A k \in 1 .. n + 1 : g[k].o \in Nat /\ g[k].w \in Nat BY <1>1 DEF Along
<1> HIDE DEF n, r
<1>9. f[1] = t /\ \A k \in 1 .. n + 1 : f[1 + k] = g[k]
  <2>1. f[1] = t BY <1>2
  <2>2. ASSUME NEW k \in 1 .. n + 1 PROVE f[1 + k] = g[k]
    <3>1. 1 + k \in 1 .. n + 2 /\ 1 + k # 1 /\ (1 + k) - 1 = k BY <1>2
    <3> QED BY <3>1
  <2> QED BY <2>1, <2>2
<1> HIDE DEF f
<1>10. f[1 + 1] = s /\ f[1 + n + 1] = u
  <2>1. 1 \in 1 .. n + 1 /\ n + 1 \in 1 .. n + 1 /\ 1 + n + 1 = 1 + (n + 1) BY <1>2
  <2> QED BY <1>7, <1>9, <2>1
<1>11. Fares(r, f, 1, A, X)
  <2>1. FitPart(it, t, s) BY <1>5 DEF FitPart
  <2>2. Fit(it, t, s) BY <1>5, <2>1 DEF Fit
  <2>3. Form(it) BY <1>5 DEF Form, Scalars, TimeNames
  <2>4. Goes(r[1], f[1], f[1 + 1], A, X) BY <1>5, <1>6, <1>9, <1>10, <2>2, <2>3 DEF Goes
  <2>5. Jumps(r, 1, f[1], f[1 + 1 + r[1].jump])
    <3>1. 1 + 1 + n = 1 + n + 1 BY <1>2
    <3> QED BY <1>4, <1>5, <1>6, <1>9, <1>10, <3>1
  <2> QED BY <1>2, <1>5, <1>6, <2>4, <2>5 DEF Fares
<1>12. ASSUME NEW k \in 1 .. n PROVE Fares(r, f, 1 + k, A, X)
  <2>1. ASSUME NEW i \in 1 .. Len(r), i \notin 1 + 1 .. 1 + n PROVE r[i].name \notin A
    <3>1. i = 1 BY <1>2, <1>6, <2>1
    <3> QED BY <1>5, <1>6, <3>1
  <2>2. 1 + n <= Len(r) /\ Len(r) \in Nat /\ 1 + n = Len(r) /\ 1 \in Nat BY <1>2, <1>6
  <2>3. Lies(p, g, u, A, r, f, 1) BY <1>2, <1>6, <1>9, <2>1, <2>2 DEF n, Lies
  <2>4. k \in 1 .. Len(p) BY DEF n
  <2> QED BY <1>1, <2>3, <2>4, AlongShift
<1>13. ASSUME NEW k \in 1 .. 1 + n PROVE Fares(r, f, k, A, X)
  <2>1. CASE k = 1 BY <1>11, <2>1
  <2>2. CASE k # 1
    <3>1. k - 1 \in 1 .. n /\ 1 + (k - 1) = k BY <1>2, <2>2
    <3>2. Fares(r, f, 1 + (k - 1), A, X) BY <1>12, <3>1
    <3> QED BY <3>1, <3>2
  <2> QED BY <2>1, <2>2
<1>14. ASSUME NEW k \in 1 .. 1 + n + 1 PROVE f[k].o \in Nat /\ f[k].w \in Nat
  <2>1. CASE k = 1 BY <1>9, <2>1
  <2>2. CASE k # 1
    <3>1. k - 1 \in 1 .. n + 1 /\ 1 + (k - 1) = k BY <1>2, <2>2
    <3>2. f[k] = g[k - 1] BY <1>9, <3>1
    <3> QED BY <1>8, <3>1, <3>2
  <2> QED BY <2>1, <2>2
<1>15. Along(r, f, t, u, A, X) BY <1>6, <1>9, <1>10, <1>13, <1>14 DEF Along
<1> QED BY <1>4, <1>6, <1>15 DEF Route

\* n items, none of them a part.
LEMMA RouteTuple ==
  ASSUME NEW p, NEW n \in Nat, p = [k \in 1 .. n |-> p[k]], NEW c, NEW A, NEW X,
         \A k \in 1 .. n + 1 : c[k].o \in Nat /\ c[k].w \in Nat,
         \A k \in 1 .. n :
           /\ Goes(p[k], c[k], c[k + 1], A, X) /\ p[k].kind # "if"
           /\ p[k].kind = "skip" => k < n /\ p[k + 1].kind \in Scalars \cup {"array"}
           /\ p[k].kind = "array" => \A i \in 1 .. n : p[i].name = p[k].name => i = k
  PROVE  Route(p, c[1], c[n + 1], A, X)
<1>1. IsSeq(p) /\ Len(p) = n BY SeqIs
<1>2. \A k \in 1 .. n : Fares(p, c, k, A, X) BY <1>1 DEF Fares
<1>3. Along(p, c, c[1], c[n + 1], A, X) BY <1>1, <1>2 DEF Along
<1> QED BY <1>1, <1>3 DEF Route

\* One item.
LEMMA RouteOne ==
  ASSUME NEW it, NEW t, NEW u, NEW A, NEW X, Goes(it, t, u, A, X), it.kind \notin {"if", "skip"},
         t.o \in Nat, t.w \in Nat, u.o \in Nat, u.w \in Nat
  PROVE  Route(<<it>>, t, u, A, X)
<1> DEFINE p == <<it>>
           c == <<t, u>>
<1>1. p = [k \in 1 .. 1 |-> p[k]] /\ p[1] = it /\ c[1] = t /\ c[2] = u OBVIOUS
<1> HIDE DEF p, c
<1>2. \A k \in 1 .. 1 + 1 : c[k].o \in Nat /\ c[k].w \in Nat
  <2>1. \A k \in 1 .. 1 + 1 : k = 1 \/ k = 2 OBVIOUS
  <2> QED BY <1>1, <2>1
<1>3. \A k \in 1 .. 1 : k = 1 /\ k + 1 = 2 OBVIOUS
<1>4. \A k \in 1 .. 1 :
           /\ Goes(p[k], c[k], c[k + 1], A, X) /\ p[k].kind # "if"
           /\ p[k].kind = "skip" => k < 1 /\ p[k + 1].kind \in Scalars \cup {"array"}
           /\ p[k].kind = "array" => \A i \in 1 .. 1 : p[i].name = p[k].name => i = k
  BY <1>1, <1>3
<1>5. Route(p, c[1], c[1 + 1], A, X) BY <1>1, <1>2, <1>4, RouteTuple
<1> QED BY <1>1, <1>5 DEF p

\* None.
LEMMA RouteNone == \A t, A, X : t.o \in Nat /\ t.w \in Nat => Route(<<>>, t, t, A, X)
<1> SUFFICES ASSUME NEW t, NEW A, NEW X, t.o \in Nat, t.w \in Nat PROVE Route(<<>>, t, t, A, X)
  OBVIOUS
<1> DEFINE p == <<>>
           c == <<t>>
<1>1. p = [k \in 1 .. 0 |-> p[k]] /\ c[1] = t OBVIOUS
<1> HIDE DEF p, c
<1>2. \A k \in 1 .. 0 + 1 : c[k].o \in Nat /\ c[k].w \in Nat BY <1>1
<1>3. \A k \in 1 .. 0 :
           /\ Goes(p[k], c[k], c[k + 1], A, X) /\ p[k].kind # "if"
           /\ p[k].kind = "skip" => k < 0 /\ p[k + 1].kind \in Scalars \cup {"array"}
           /\ p[k].kind = "array" => \A i \in 1 .. 0 : p[i].name = p[k].name => i = k
  OBVIOUS
<1>4. Route(p, c[1], c[0 + 1], A, X) BY <1>1, <1>2, <1>3, RouteTuple
<1> QED BY <1>1, <1>4 DEF p

LEMMA NoneMarked == Marked(<<>>)
<1>1. At(0, 0).o = 0 /\ At(0, 0).w = 0 BY DEF At
<1>2. Route(<<>>, At(0, 0), At(0, 0), {}, {}) BY <1>1, RouteNone
<1> QED BY <1>2, RouteMarked

\* n scalars of a structure, the first of them at byte o[1].
Run(p, n, o) ==
  /\ n \in Nat /\ p = [k \in 1 .. n |-> p[k]]
  /\ o[1] \in Nat
  /\ \A k \in 1 .. n :
       /\ p[k].kind \in Scalars /\ p[k].width \in {1, 2, 4, 8}
       /\ p[k].kind = "time" <=> p[k].name \in TimeNames
       /\ o[k] \in Nat /\ o[k + 1] = o[k] + p[k].width /\ o[k] % p[k].width = 0

LEMMA AlignedHere == \A a \in Nat, n \in {1, 2, 4, 8} : a % n = 0 => Aligned(a, n) = a
<1> SUFFICES ASSUME NEW a \in Nat, NEW n \in {1, 2, 4, 8}, a % n = 0 PROVE Aligned(a, n) = a OBVIOUS
<1>1. CASE n = 1 BY <1>1 DEF Aligned
<1>2. CASE n = 2 BY <1>2 DEF Aligned
<1>3. CASE n = 4 BY <1>3 DEF Aligned
<1>4. CASE n = 8 BY <1>4 DEF Aligned
<1> QED BY <1>1, <1>2, <1>3, <1>4

LEMMA RouteRun ==
  ASSUME NEW p, NEW n, NEW o, Run(p, n, o)
  PROVE  Route(p, At(o[1], o[1]), At(o[n + 1], o[n + 1]), {}, {})
<1> DEFINE c == [k \in 1 .. n + 1 |-> At(o[k], o[k])]
<1>1. n \in Nat /\ p = [k \in 1 .. n |-> p[k]] BY DEF Run
<1>2. \A k \in 1 .. n + 1 : c[k] = At(o[k], o[k]) OBVIOUS
<1>3. \A x, y : At(x, y).mode = "struct" /\ At(x, y).o = x /\ At(x, y).w = y BY DEF At
<1> HIDE DEF c
<1>4. ASSUME NEW k \in 1 .. n + 1 PROVE o[k] \in Nat
  <2>1. CASE k = 1 BY <2>1 DEF Run
  <2>2. CASE k # 1
    <3>1. k - 1 \in 1 .. n /\ (k - 1) + 1 = k BY <1>1, <2>2
    <3>2. /\ o[k - 1] \in Nat /\ o[(k - 1) + 1] = o[k - 1] + p[k - 1].width
          /\ p[k - 1].width \in {1, 2, 4, 8}
      BY <3>1 DEF Run
    <3> QED BY <3>1, <3>2
  <2> QED BY <2>1, <2>2
<1>5. \A k \in 1 .. n + 1 : c[k].o \in Nat /\ c[k].w \in Nat BY <1>2, <1>3, <1>4
<1>6. ASSUME NEW k \in 1 .. n
      PROVE  /\ Goes(p[k], c[k], c[k + 1], {}, {}) /\ p[k].kind # "if"
             /\ p[k].kind = "skip" => k < n /\ p[k + 1].kind \in Scalars \cup {"array"}
             /\ p[k].kind = "array" => \A i \in 1 .. n : p[i].name = p[k].name => i = k
  <2> DEFINE it == p[k]
             a == o[k]
             t == c[k]
             u == c[k + 1]
  <2>1. /\ it.kind \in Scalars /\ it.width \in {1, 2, 4, 8}
        /\ it.kind = "time" <=> it.name \in TimeNames
        /\ a \in Nat /\ o[k + 1] = a + it.width /\ a % it.width = 0
    BY DEF Run
  <2>2. k \in 1 .. n + 1 /\ k + 1 \in 1 .. n + 1 BY <1>1
  <2>3. t = At(a, a) /\ u = At(o[k + 1], o[k + 1]) BY <1>2, <2>2
  <2>4. /\ t.mode = "struct" /\ t.o = a /\ t.w = a
        /\ u.mode = "struct" /\ u.o = o[k + 1] /\ u.w = o[k + 1]
    BY <1>3, <2>3
  <2> HIDE DEF it, a, t, u
  <2>5. Aligned(a, it.width) = a BY <2>1, AlignedHere
  <2>6. FitScalar(it, t, u) BY <2>1, <2>4, <2>5 DEF FitScalar, Moves
  <2>7. Form(it) BY <2>1 DEF Form, Scalars
  <2>8. Goes(it, t, u, {}, {}) BY <2>1, <2>6, <2>7 DEF Goes, Fit, Scalars
  <2> QED BY <2>1, <2>8 DEF it, t, u, Scalars
<1>7. Route(p, c[1], c[n + 1], {}, {}) BY <1>1, <1>5, <1>6, RouteTuple
<1>8. 1 \in 1 .. n + 1 /\ n + 1 \in 1 .. n + 1 BY <1>1
<1> QED BY <1>2, <1>7, <1>8

LEMMA RouteOn ==
  ASSUME NEW p, NEW q, NEW t, NEW s, NEW u, Route(p, t, s, {}, {}), Route(q, s, u, {}, {}),
         s.mode # "end"
  PROVE  Route(p \o q, t, u, {}, {})
<1> DEFINE E == {}
<1>1. E \subseteq E /\ E = {} \cup {} /\ E = {} \cap {} /\ E \cup E = E /\ E \cap E = E OBVIOUS
<1>2. Route(p, t, s, E, E) /\ Route(q, s, u, E, E) OBVIOUS
<1> HIDE DEF E
<1>3. Route(p \o q, t, u, E \cup E, E \cap E) BY <1>1, <1>2, RouteJoin
<1>4. Route(p \o q, t, u, E, E) BY <1>1, <1>3
<1> QED BY <1>4 DEF E

LEMMA Modes ==
  /\ \A x, y : At(x, y).mode = "struct" /\ At(x, y).o = x /\ At(x, y).w = y
  /\ \A m : In(m).mode = m /\ In(m).o = 0 /\ In(m).w = 0
BY DEF At, In

LEMMA IfHead ==
  ASSUME NEW c, NEW p, IsSeq(p)
  PROVE  /\ Len(If(c, p)) = 1 + Len(p) /\ If(c, p)[1].cond = c /\ If(c, p)[1].jump = Len(p)
         /\ \A k \in 1 .. Len(p) : If(c, p)[1 + k] = p[k]
<1> DEFINE it == [kind |-> "if", name |-> "part", width |-> 0, cond |-> c, jump |-> Len(p)]
<1>1. it.cond = c /\ it.jump = Len(p) /\ If(c, p) = <<it>> \o p BY DEF If
<1> HIDE DEF it
<1>2. IsSeq(<<it>>) /\ Len(<<it>>) = 1 /\ <<it>>[1] = it
  <2>1. <<it>> \in Seq({it}) OBVIOUS
  <2> QED BY <2>1 DEF IsSeq
<1> QED BY <1>1, <1>2, SeqJoin

LEMMA RouteBits ==
  ASSUME NEW field, NEW b, NEW p, NEW t, NEW s, NEW u, NEW A, NEW X, Route(p, s, u, A, X),
         t.o \in Nat, t.w \in Nat, "part" \notin X \cup A, Packs(t, s), Packs(t, u),
         field = "xinfo" /\ b \in {{3}, {4}} => {s.mode, u.mode} \subseteq {"tail", "end"}
  PROVE  Route(If(Bits(field, b), p), t, u, A, X)
<1> DEFINE c == Bits(field, b)
<1>1. c.on = "bits" /\ PastBits(c, t, s) /\ PastBits(c, t, u) BY DEF Bits, PastBits, Unsure
<1> HIDE DEF c
<1>2. [cond |-> c].cond = c OBVIOUS
<1>3. FitPart([cond |-> c], t, s) BY <1>1, <1>2 DEF FitPart
<1>4. Jumps(If(c, p), 1, t, u)
  <2>1. If(c, p)[1].cond = c BY IfHead DEF Route
  <2> QED BY <1>1, <2>1 DEF Jumps
<1>5. Route(If(c, p), t, u, A, X) BY <1>1, <1>3, <1>4, RouteIf
<1> QED BY <1>5 DEF c

LEMMA RouteInfo ==
  ASSUME NEW set, NEW p, NEW t, NEW u, NEW A, NEW X, Route(p, t, u, A, X),
         t.o \in Nat, t.w \in Nat, "part" \notin X \cup A,
         t.mode = "packed" \/ (t.mode = "struct" /\ t.o = t.w), u.mode = "end"
  PROVE  Route(If(Info80(set), p), t, u, A, X)
<1> DEFINE c == Info80(set)
<1>1. c.on = "info" BY DEF Info80
<1> HIDE DEF c
<1>2. [cond |-> c].cond = c OBVIOUS
<1>3. FitPart([cond |-> c], t, t) BY <1>1, <1>2 DEF FitPart
<1>4. Jumps(If(c, p), 1, t, u)
  <2>1. If(c, p)[1].cond = c BY IfHead DEF Route
  <2> QED BY <1>1, <2>1 DEF Jumps
<1>5. Route(If(c, p), t, u, A, X) BY <1>1, <1>3, <1>4, RouteIf
<1> QED BY <1>5 DEF c

\* The first three numbers of p, a padding perhaps before the third.
Heads(p, n) ==
  \E z \in {3, 4} :
    /\ z <= Len(p) /\ {p[1].kind, p[2].kind, p[z].kind} \subseteq Scalars
    /\ n <= p[1].width + p[2].width + p[z].width
    /\ \A i \in 1 .. z : p[i].kind # "if"

LEMMA RouteRoom ==
  ASSUME NEW n \in Nat, n # Metadata, NEW p, NEW t, NEW u, NEW A, NEW X, Route(p, t, u, A, X),
         t.o \in Nat, t.w \in Nat, "part" \notin X \cup A,
         t.mode = "packed" \/ (t.mode = "struct" /\ t.o = t.w), Heads(p, n)
  PROVE  Route(If(Room(n), p), t, u, A, X)
<1> DEFINE c == Room(n)
           r == If(c, p)
<1>1. c.on = "room" /\ c.bytes = n BY DEF Room
<1> HIDE DEF c
<1>2. [cond |-> c].cond = c OBVIOUS
<1>3. FitPart([cond |-> c], t, t) BY <1>1, <1>2 DEF FitPart
<1>4. Jumps(r, 1, t, u)
  <2>1. /\ Len(r) = 1 + Len(p) /\ r[1].cond = c /\ r[1].jump = Len(p)
        /\ \A k \in 1 .. Len(p) : r[1 + k] = p[k]
    BY IfHead DEF Route
  <2>2. Len(p) \in Nat BY SeqLen DEF Route
  <2> HIDE DEF r
  <2>3. PICK z \in {3, 4} :
          /\ z <= Len(p) /\ {p[1].kind, p[2].kind, p[z].kind} \subseteq Scalars
          /\ n <= p[1].width + p[2].width + p[z].width
          /\ \A i \in 1 .. z : p[i].kind # "if"
    BY DEF Heads
  <2>4. 1 \in 1 .. Len(p) /\ 2 \in 1 .. Len(p) /\ z \in 1 .. Len(p) BY <2>2, <2>3
  <2>5. r[1 + 1] = p[1] /\ r[1 + 2] = p[2] /\ r[1 + z] = p[z] BY <2>1, <2>4
  <2>6. ASSUME NEW i \in 1 + 1 .. 1 + z PROVE r[i].kind # "if"
    <3>1. i - 1 \in 1 .. z /\ i - 1 \in 1 .. Len(p) /\ 1 + (i - 1) = i BY <2>2, <2>3
    <3>2. r[i] = p[i - 1] BY <2>1, <3>1
    <3> QED BY <2>3, <3>1, <3>2
  <2>7. 1 + z \in {1 + 3, 1 + 4} /\ 1 + z <= 1 + r[1].jump BY <2>1, <2>2, <2>3
  <2>8. Roomy(r, 1) BY SMTT(30), <1>1, <2>1, <2>3, <2>5, <2>6, <2>7 DEF Roomy
  <2> QED BY <1>1, <2>1, <2>8 DEF Jumps
<1>5. Route(r, t, u, A, X) BY <1>1, <1>3, <1>4, RouteIf
<1> QED BY <1>5 DEF c

LEMMA SmgrMarked == \A op \in DOMAIN describe_smgr_main : Marked(describe_smgr_main[op])
<1> DEFINE T == describe_smgr_main
           x == <<u32("forkNum")>>
           y == <<u32("blkno")>>
           z == <<flags("flags", 4, decode_smgr_truncate_flags)>>
<1>1. T.CREATE = Locator \o x /\ T.TRUNCATE = y \o Locator \o z BY DEF describe_smgr_main
<1>2. DOMAIN T = {"CREATE", "TRUNCATE"} BY DEF describe_smgr_main
<1>3. Run(Locator, 3, <<0, 4, 8, 12>>) /\ Run(Locator, 3, <<4, 8, 12, 16>>)
  BY DEF Run, Scalars, TimeNames, Locator, u32, Item
<1>4. Run(x, 1, <<12, 16>>) /\ Run(y, 1, <<0, 4>>) /\ Run(z, 1, <<16, 20>>)
  BY DEF Run, Scalars, TimeNames, u32, flags, Item
<1> HIDE DEF T, x, y, z
<1>5. /\ Route(Locator, At(0, 0), At(12, 12), {}, {})
      /\ Route(Locator, At(4, 4), At(16, 16), {}, {})
      /\ Route(x, At(12, 12), At(16, 16), {}, {}) /\ Route(y, At(0, 0), At(4, 4), {}, {})
      /\ Route(z, At(16, 16), At(20, 20), {}, {})
  BY <1>3, <1>4, RouteRun
<1>6. Route(T.CREATE, At(0, 0), At(16, 16), {}, {}) BY <1>1, <1>5, Modes, RouteOn
<1>7. Route(y \o Locator, At(0, 0), At(16, 16), {}, {}) BY <1>5, Modes, RouteOn
<1>8. Route(T.TRUNCATE, At(0, 0), At(20, 20), {}, {}) BY <1>1, <1>5, <1>7, Modes, RouteOn
<1> QED BY <1>2, <1>6, <1>8, RouteMarked DEF T

LEMMA RouteRest ==
  \A it, t : it.kind = "rest" /\ it.name \notin TimeNames /\ t.o \in Nat /\ t.w \in Nat
             => Route(<<it>>, t, In("end"), {}, {})
<1> TAKE it, t
<1> HAVE it.kind = "rest" /\ it.name \notin TimeNames /\ t.o \in Nat /\ t.w \in Nat
<1>1. Form(it) BY DEF Form, Scalars
<1>2. Fit(it, t, In("end")) BY Modes DEF Fit
<1>3. Goes(it, t, In("end"), {}, {}) BY <1>1, <1>2 DEF Goes
<1> QED BY <1>3, Modes, RouteOne

LEMMA SequenceMarked == \A op \in DOMAIN describe_seq_main : Marked(describe_seq_main[op])
<1> DEFINE T == describe_seq_main
           it == rest("tuple data", 1, TRUE)
           x == <<it>>
<1>1. T.LOG = Locator \o x /\ DOMAIN T = {"LOG"} BY DEF describe_seq_main
<1>2. Run(Locator, 3, <<0, 4, 8, 12>>) BY DEF Run, Scalars, TimeNames, Locator, u32, Item
<1>3. it.kind = "rest" /\ it.name \notin TimeNames BY DEF rest, TimeNames
<1> HIDE DEF T, it
<1>4. Route(x, At(12, 12), In("end"), {}, {}) BY <1>3, Modes, RouteRest
<1> HIDE DEF x
<1>5. Route(Locator, At(0, 0), At(12, 12), {}, {}) BY <1>2, RouteRun
<1>6. Route(T.LOG, At(0, 0), In("end"), {}, {}) BY <1>1, <1>4, <1>5, Modes, RouteOn
<1> QED BY <1>1, <1>6, RouteMarked DEF T

LEMMA UnlinkRoute == Route(btree_unlink, At(0, 0), At(36, 36), {}, {})
<1> DEFINE p == btree_unlink
           c == <<At(0, 0), At(4, 4), At(8, 8), At(12, 12), At(16, 12), At(24, 24), At(28, 28), At(32, 32),
                  At(36, 36)>>
<1>1. p = [k \in 1 .. 8 |-> p[k]] BY DEF btree_unlink
<1>2. \A k \in 1 .. 8 :
        /\ Goes(p[k], c[k], c[k + 1], {}, {}) /\ p[k].kind # "if"
        /\ p[k].kind = "skip" => k < 8 /\ p[k + 1].kind \in Scalars \cup {"array"}
        /\ p[k].kind = "array" => \A i \in 1 .. 8 : p[i].name = p[k].name => i = k
  BY SMTT(60) DEF Goes, Form, Fit, FitScalar, Moves, At, Scalars, TimeNames, Aligned, btree_unlink,
         u32, u64, skip, Item
<1>3. \A k \in 1 .. 8 + 1 : c[k].o \in Nat /\ c[k].w \in Nat BY DEF At
<1>4. c[1] = At(0, 0) /\ c[8 + 1] = At(36, 36) OBVIOUS
<1> HIDE DEF p, c
<1>5. Route(p, c[1], c[8 + 1], {}, {}) BY <1>1, <1>2, <1>3, RouteTuple
<1> QED BY <1>4, <1>5 DEF p

LEMMA MetadataRoutes ==
  /\ Route(parse_btree_metadata, At(0, 0), At(25, 25), {}, {})
  /\ Route(parse_btree_metadata, At(36, 36), At(61, 61), {}, {})
  /\ Route(parse_btree_metadata, In("never"), In("end"), {}, {})
<1> DEFINE p == parse_btree_metadata
<1>1. Run(p, 7, <<0, 4, 8, 12, 16, 20, 24, 25>>) /\ Run(p, 7, <<36, 40, 44, 48, 52, 56, 60, 61>>)
  BY DEF Run, Scalars, TimeNames, parse_btree_metadata, u32, u8, Item
<1> HIDE DEF p
<1>2. Route(p, At(0, 0), At(25, 25), {}, {}) /\ Route(p, At(36, 36), At(61, 61), {}, {})
  BY <1>1, RouteRun
<1> DEFINE c == [k \in 1 .. 8 |-> IF k = 8 THEN In("end") ELSE In("never")]
<1>3. c[1] = In("never") /\ c[7 + 1] = In("end") OBVIOUS
<1>4. \A k \in 1 .. 7 : /\ c[k] = In("never") /\ c[k + 1] \in {In("never"), In("end")}
  <2> TAKE k \in 1 .. 7
  <2>1. k \in 1 .. 8 /\ k # 8 /\ k + 1 \in 1 .. 8 OBVIOUS
  <2> QED BY <2>1
<1>5. \A k \in 1 .. 7 + 1 : c[k] \in {In("never"), In("end")} OBVIOUS
<1> HIDE DEF c
<1>6. p = [k \in 1 .. 7 |-> p[k]] BY <1>1 DEF Run
<1>7. ASSUME NEW k \in 1 .. 7
      PROVE  /\ Goes(p[k], c[k], c[k + 1], {}, {}) /\ p[k].kind # "if"
             /\ p[k].kind = "skip" => k < 7 /\ p[k + 1].kind \in Scalars \cup {"array"}
             /\ p[k].kind = "array" => \A i \in 1 .. 7 : p[i].name = p[k].name => i = k
  <2>1. /\ p[k].kind \in Scalars /\ p[k].width \in {1, 2, 4, 8}
        /\ p[k].kind = "time" <=> p[k].name \in TimeNames
    BY <1>1 DEF Run
  <2>2. Form(p[k]) BY <2>1 DEF Form, Scalars
  <2>3. Fit(p[k], c[k], c[k + 1])
    <3>1. c[k].mode = "never" /\ c[k + 1].mode \in {"never", "end"} BY <1>4, Modes
    <3> QED BY <3>1 DEF Fit
  <2> QED BY <2>1, <2>2, <2>3 DEF Goes, Scalars
<1>8. \A k \in 1 .. 7 + 1 : c[k].o \in Nat /\ c[k].w \in Nat BY <1>5, Modes
<1>9. Route(p, c[1], c[7 + 1], {}, {}) BY <1>6, <1>7, <1>8, RouteTuple
<1> QED BY <1>2, <1>3, <1>9 DEF p

LEMMA InsertMetaMarked == Marked(describe_btree_main.INSERT_META)
<1> DEFINE x == <<u16("offnum")>>
           m == parse_btree_metadata
           c == Room(28)
           t == At(2, 2)
           e == In("end")
<1>1. describe_btree_main.INSERT_META = x \o If(c, m) BY DEF describe_btree_main
<1>2. Run(x, 1, <<0, 2>>) BY DEF Run, Scalars, TimeNames, u16, Item
<1>3. c.on = "room" /\ c.bytes = Metadata /\ [cond |-> c].cond = c BY DEF Room, Metadata
<1>4. t.mode = "struct" /\ t.o = 2 /\ t.w = 2 /\ e.mode = "end" /\ In("never").mode = "never"
  BY Modes
<1>5. Route(m, In("never"), e, {}, {}) BY MetadataRoutes
<1>6. Route(x, At(0, 0), t, {}, {}) BY <1>2, RouteRun
<1> HIDE DEF x, m, c, t, e
<1>7. FitPart([cond |-> c], t, In("never")) BY <1>3, <1>4 DEF FitPart
<1>8. Jumps(If(c, m), 1, t, e)
  <2>1. Len(If(c, m)) = 1 + Len(m) /\ If(c, m)[1].cond = c /\ If(c, m)[1].jump = Len(m)
    BY <1>5, IfHead DEF Route
  <2> QED BY <1>3, <1>4, <2>1 DEF Jumps
<1>9. Route(If(c, m), t, e, {}, {}) BY <1>3, <1>4, <1>5, <1>7, <1>8, RouteIf
<1>10. Route(x \o If(c, m), At(0, 0), e, {}, {}) BY <1>4, <1>6, <1>9, RouteOn
<1> QED BY <1>1, <1>10, RouteMarked

LEMMA BtreeMarked == \A op \in DOMAIN describe_btree_main : Marked(describe_btree_main[op])
<1> DEFINE T == describe_btree_main
           M == parse_btree_metadata
           r == <<u32("block"), u64("snapshotConflictHorizon"), u8("isCatalogRel")>>
<1>1. Straight(T.INSERT_LEAF, 1, <<0, 2>>) /\ Straight(T.INSERT_UPPER, 1, <<0, 2>>)
  BY DEF Straight, Scalars, TimeNames, describe_btree_main, u16, Item
<1>2. Straight(T.INSERT_POST, 1, <<0, 2>>) /\ Straight(T.DEDUP, 1, <<0, 2>>)
  BY DEF Straight, Scalars, TimeNames, describe_btree_main, u16, Item
<1>3. Straight(T.DELETE, 4, <<0, 4, 6, 8, 9>>) /\ Straight(T.VACUUM, 2, <<0, 2, 4>>)
  BY DEF Straight, Scalars, TimeNames, describe_btree_main, u32, u16, u8, Item
<1>4. Straight(T.NEWROOT, 2, <<0, 4, 8>>)
  BY DEF Straight, Scalars, TimeNames, describe_btree_main, u32, Item
<1>5. Padded(T.MARK_PAGE_HALFDEAD, 6, <<0, 2, 4, 8, 12, 16>>, <<0, 2, 2, 8, 12, 16>>)
  BY SMTT(30) DEF Padded, Member, Aligned, Form, Scalars, TimeNames, describe_btree_main, u32, u16,
         skip, Item
<1>6. /\ T.SPLIT_L = btree_split /\ T.SPLIT_R = btree_split
      /\ T.UNLINK_PAGE = btree_unlink /\ T.UNLINK_PAGE_META = btree_unlink \o M
      /\ T.REUSE_PAGE = Locator \o r /\ T.META_CLEANUP = M
  BY DEF describe_btree_main
<1>7. Straight(btree_split, 4, <<0, 4, 6, 8, 10>>)
  BY DEF Straight, Scalars, TimeNames, btree_split, u32, u16, Item
<1>8. Run(Locator, 3, <<0, 4, 8, 12>>) /\ Run(r, 3, <<12, 16, 24, 25>>)
  BY DEF Run, Scalars, TimeNames, Locator, u32, u64, u8, Item
<1>9. Marked(T.INSERT_META) BY InsertMetaMarked
<1> HIDE DEF T, M, r
<1>10. Marked(T.SPLIT_L) /\ Marked(T.SPLIT_R) BY <1>6, <1>7, StraightMarked
<1>11. Marked(T.UNLINK_PAGE) /\ Marked(T.META_CLEANUP)
  BY <1>6, UnlinkRoute, MetadataRoutes, RouteMarked DEF M
<1>12. Marked(T.UNLINK_PAGE_META)
  <2>1. Route(btree_unlink \o M, At(0, 0), At(61, 61), {}, {})
    BY UnlinkRoute, MetadataRoutes, Modes, RouteOn DEF M
  <2> QED BY <1>6, <2>1, RouteMarked
<1>13. Marked(T.REUSE_PAGE)
  <2>1. Route(Locator, At(0, 0), At(12, 12), {}, {}) /\ Route(r, At(12, 12), At(25, 25), {}, {})
    BY <1>8, RouteRun
  <2>2. Route(Locator \o r, At(0, 0), At(25, 25), {}, {}) BY <2>1, Modes, RouteOn
  <2> QED BY <1>6, <2>2, RouteMarked
<1>14. /\ Marked(T.INSERT_LEAF) /\ Marked(T.INSERT_UPPER) /\ Marked(T.INSERT_POST)
       /\ Marked(T.DEDUP) /\ Marked(T.DELETE) /\ Marked(T.VACUUM) /\ Marked(T.NEWROOT)
       /\ Marked(T.MARK_PAGE_HALFDEAD)
  BY <1>1, <1>2, <1>3, <1>4, <1>5, StraightMarked, PaddedMarked
<1> QED BY BtreeOperations, <1>9, <1>10, <1>11, <1>12, <1>13, <1>14 DEF T

\* n numbers of a part, packed.
Loose(p, n) ==
  /\ n \in Nat /\ p = [k \in 1 .. n |-> p[k]]
  /\ \A k \in 1 .. n : /\ p[k].kind \in Scalars /\ p[k].width \in {1, 2, 4, 8}
                       /\ p[k].kind = "time" <=> p[k].name \in TimeNames

LEMMA RouteLoose ==
  ASSUME NEW p, NEW n, Loose(p, n)
  PROVE  Route(p, In("packed"), In("packed"), {}, {})
<1> DEFINE m == In("packed")
           c == [k \in 1 .. n + 1 |-> m]
<1>1. n \in Nat /\ p = [k \in 1 .. n |-> p[k]] BY DEF Loose
<1>2. \A k \in 1 .. n + 1 : c[k] = m OBVIOUS
<1>3. m.mode = "packed" /\ m.o = 0 /\ m.w = 0 BY Modes
<1> HIDE DEF m, c
<1>4. \A k \in 1 .. n : c[k] = m /\ c[k + 1] = m BY <1>1, <1>2
<1>5. c[1] = m /\ c[n + 1] = m BY <1>1, <1>2
<1>6. ASSUME NEW k \in 1 .. n
      PROVE  /\ Goes(p[k], c[k], c[k + 1], {}, {}) /\ p[k].kind # "if"
             /\ p[k].kind = "skip" => k < n /\ p[k + 1].kind \in Scalars \cup {"array"}
             /\ p[k].kind = "array" => \A i \in 1 .. n : p[i].name = p[k].name => i = k
  <2>1. /\ p[k].kind \in Scalars /\ p[k].width \in {1, 2, 4, 8}
        /\ p[k].kind = "time" <=> p[k].name \in TimeNames
    BY DEF Loose
  <2>2. FitScalar(p[k], m, m) BY <1>3, <2>1 DEF FitScalar, Packs
  <2>3. Form(p[k]) BY <2>1 DEF Form, Scalars
  <2>4. Goes(p[k], c[k], c[k + 1], {}, {}) BY <1>4, <2>1, <2>2, <2>3 DEF Goes, Fit, Scalars
  <2> QED BY <2>1, <2>4 DEF Scalars
<1>7. \A k \in 1 .. n + 1 : c[k].o \in Nat /\ c[k].w \in Nat BY <1>2, <1>3
<1>8. Route(p, c[1], c[n + 1], {}, {}) BY <1>1, <1>6, <1>7, RouteTuple
<1> QED BY <1>5, <1>8 DEF m

LEMMA PackedRoutes ==
  LET m == In("packed")
  IN  /\ m.mode = "packed" /\ m.o \in Nat /\ m.w \in Nat /\ Packs(m, m)
      /\ \A x \in Nat : Packs(At(x, x), m)
      /\ "part" \notin {} \cup {}
BY Modes DEF Packs

LEMMA HeaderRoutes ==
  /\ Route(parse_xl_heap_header, At(0, 0), At(5, 5), {}, {})
  /\ Route(parse_xl_heap_header, In("packed"), In("packed"), {}, {})
<1> DEFINE p == <<flags("t_infomask2", 2, decode_t_infomask2),
                  flags("t_infomask", 2, decode_t_infomask), u8("t_hoff")>>
<1>1. parse_xl_heap_header = If(Room(5), p) BY DEF parse_xl_heap_header
<1>2. Run(p, 3, <<0, 2, 4, 5>>) BY DEF Run, Scalars, TimeNames, flags, u8, Item
<1>3. Loose(p, 3) BY DEF Loose, Scalars, TimeNames, flags, u8, Item
<1>4. Heads(p, 5)
  <2>1. /\ 3 \in {3, 4} /\ 3 <= Len(p) /\ {p[1].kind, p[2].kind, p[3].kind} \subseteq Scalars
        /\ 5 <= p[1].width + p[2].width + p[3].width
    BY DEF Scalars, flags, u8, Item
  <2>2. \A i \in 1 .. 3 : p[i].kind # "if" BY DEF flags, u8, Item
  <2> HIDE DEF p
  <2> QED BY <2>1, <2>2 DEF Heads
<1> HIDE DEF p
<1>5. Route(p, At(0, 0), At(5, 5), {}, {}) BY <1>2, RouteRun
<1>6. Route(p, In("packed"), In("packed"), {}, {}) BY <1>3, RouteLoose
<1>7. 5 \in Nat /\ 5 # Metadata /\ "part" \notin {} \cup {} BY DEF Metadata
<1>8. Route(If(Room(5), p), At(0, 0), At(5, 5), {}, {}) BY <1>4, <1>5, <1>7, Modes, RouteRoom
<1>9. Route(If(Room(5), p), In("packed"), In("packed"), {}, {})
  BY <1>4, <1>6, <1>7, Modes, RouteRoom
<1> QED BY <1>1, <1>8, <1>9

\* A packed part behind a structure of n bytes.
LEMMA RouteFlagged ==
  ASSUME NEW p, NEW n \in Nat, Route(p, At(0, 0), At(n, n), {}, {}),
         NEW q, Route(q, In("packed"), In("packed"), {}, {}), NEW field, field # "xinfo", NEW b
  PROVE  Marked(p \o If(Bits(field, b), q))
<1>1. Route(If(Bits(field, b), q), At(n, n), In("packed"), {}, {}) BY Modes, PackedRoutes, RouteBits
<1>2. Route(p \o If(Bits(field, b), q), At(0, 0), In("packed"), {}, {}) BY <1>1, Modes, RouteOn
<1> QED BY <1>2, RouteMarked

LEMMA PruneMarked == Marked(prune)
<1> DEFINE p == <<u8("reason"), flags("flags", 1, fmt_prune_flags)>>
           q == <<u32("conflict_horizon")>>
<1>1. prune = p \o If(Bits("flags", {3}), q) BY DEF prune
<1>2. Run(p, 2, <<0, 1, 2>>) /\ Loose(q, 1)
  BY DEF Run, Loose, Scalars, TimeNames, flags, u8, u32, Item
<1> HIDE DEF p, q
<1>3. Route(p, At(0, 0), At(2, 2), {}, {}) /\ Route(q, In("packed"), In("packed"), {}, {})
  BY <1>2, RouteRun, RouteLoose
<1> QED BY <1>1, <1>3, RouteFlagged

LEMMA HeapLockMarked == Marked(heap_lock)
<1>1. Straight(heap_lock, 4, <<0, 4, 6, 7, 8>>)
  BY DEF Straight, Scalars, TimeNames, heap_lock, u32, u16, flags, Item
<1> QED BY <1>1, StraightMarked

LEMMA MultiInsertMarked == Marked(describe_heap2_main.MULTI_INSERT)
<1> DEFINE p == <<flags("flags", 1, decode_heap_insert_flags), skip(1), size("ntuples", 2)>>
           x == array("offsets", 2, 1, {"ntuples"}, 16, "clamped")
           c == <<At(0, 0), At(1, 1), At(2, 1), At(4, 4)>>
           N == {"offsets"}
<1>1. describe_heap2_main.MULTI_INSERT = p \o If(Info80(FALSE), <<x>>) BY DEF describe_heap2_main
<1>2. p = [k \in 1 .. 3 |-> p[k]] OBVIOUS
<1>3. \A k \in 1 .. 3 :
        /\ Goes(p[k], c[k], c[k + 1], {}, N) /\ p[k].kind # "if"
        /\ p[k].kind = "skip" => k < 3 /\ p[k + 1].kind \in Scalars \cup {"array"}
        /\ p[k].kind = "array" => \A i \in 1 .. 3 : p[i].name = p[k].name => i = k
  BY SMTT(30) DEF Goes, Form, Fit, FitScalar, Moves, At, Scalars, TimeNames, Aligned, flags, size,
      skip, Item
<1>4. \A k \in 1 .. 3 + 1 : c[k].o \in Nat /\ c[k].w \in Nat BY DEF At
<1>5. c[1] = At(0, 0) /\ c[3 + 1] = At(4, 4) OBVIOUS
<1>6. Goes(x, At(4, 4), In("end"), N, {}) /\ x.kind \notin {"if", "skip"}
  BY DEF Goes, Form, Fit, FitArray, At, In, Scalars, TimeNames, Aligned, array
<1>7. "part" \notin {} \cup N /\ N \subseteq N /\ {} \subseteq {} OBVIOUS
<1> HIDE DEF p, c, x, N
<1>8. Route(p, c[1], c[3 + 1], {}, N) BY <1>2, <1>3, <1>4, RouteTuple
<1>9. Route(<<x>>, At(4, 4), In("end"), N, {}) BY <1>6, Modes, RouteOne
<1>10. Route(If(Info80(FALSE), <<x>>), At(4, 4), In("end"), N, {})
  <2> DEFINE b == FALSE
  <2> HIDE DEF b
  <2>1. Route(If(Info80(b), <<x>>), At(4, 4), In("end"), N, {}) BY <1>7, <1>9, Modes, RouteInfo
  <2> QED BY <2>1 DEF b
<1>11. Route(p, At(0, 0), At(4, 4), {}, N) BY <1>5, <1>8
<1>12. Route(p \o If(Info80(FALSE), <<x>>), At(0, 0), In("end"), {} \cup N, N \cap {})
  BY ZenonT(30), <1>7, <1>10, <1>11, Modes, RouteJoin
<1> QED BY <1>1, <1>12, RouteMarked

LEMMA NewCidMarked == Marked(describe_heap2_main.NEW_CID)
<1> DEFINE p == <<u32("top_xid"), u32("cmin"), u32("cmax"), u32("combocid")>>
           q == <<u16("bi_hi"), u16("bi_lo"), u16("posid")>>
<1>1. describe_heap2_main.NEW_CID = p \o Locator \o q BY DEF describe_heap2_main
<1>2. Run(p, 4, <<0, 4, 8, 12, 16>>) /\ Run(q, 3, <<28, 30, 32, 34>>)
  BY DEF Run, Scalars, TimeNames, u32, u16, Item
<1>3. Run(Locator, 3, <<16, 20, 24, 28>>) BY DEF Run, Scalars, TimeNames, Locator, u32, Item
<1> HIDE DEF p, q
<1>4. /\ Route(p, At(0, 0), At(16, 16), {}, {}) /\ Route(Locator, At(16, 16), At(28, 28), {}, {})
      /\ Route(q, At(28, 28), At(34, 34), {}, {})
  BY <1>2, <1>3, RouteRun
<1>5. Route(p \o Locator, At(0, 0), At(28, 28), {}, {}) BY <1>4, Modes, RouteOn
<1>6. Route(p \o Locator \o q, At(0, 0), At(34, 34), {}, {}) BY <1>4, <1>5, Modes, RouteOn
<1> QED BY <1>1, <1>6, RouteMarked

LEMMA Heap2Marked == \A op \in DOMAIN describe_heap2_main : Marked(describe_heap2_main[op])
<1> DEFINE T == describe_heap2_main
<1>1. Padded(T.REWRITE, 8, <<0, 4, 8, 12, 16, 24, 28, 32>>, <<0, 4, 8, 12, 12, 24, 28, 28>>)
  BY SMTT(30) DEF Padded, Member, Aligned, Form, Scalars, TimeNames, describe_heap2_main, u32, u64,
         skip, Item
<1>2. Straight(T.VISIBLE, 2, <<0, 4, 5>>)
  BY DEF Straight, Scalars, TimeNames, describe_heap2_main, u32, flags, Item
<1>3. /\ T.PRUNE_ON_ACCESS = prune /\ T.PRUNE_VACUUM_SCAN = prune
      /\ T.PRUNE_VACUUM_CLEANUP = prune /\ T.LOCK_UPDATED = heap_lock
  BY DEF describe_heap2_main
<1> HIDE DEF T
<1> QED BY <1>1, <1>2, <1>3, Heap2Operations, StraightMarked, PaddedMarked, PruneMarked, HeapLockMarked,
           MultiInsertMarked, NewCidMarked DEF T

LEMMA HeapMarked == \A op \in DOMAIN describe_heap_main : Marked(describe_heap_main[op])
<1> DEFINE T == describe_heap_main
           H == parse_xl_heap_header
           d == <<u32("xmax"), u16("offnum"), flags("infobits_set", 1, decode_infobits),
                  flags("flags", 1, decode_heap_delete_flags)>>
           u == <<u32("old_xmax"), u16("old_offnum"), flags("old_infobits_set", 1, decode_infobits),
                  flags("flags", 1, decode_heap_update_flags), u32("new_xmax"), u16("new_offnum")>>
<1>1. Straight(T.INSERT, 2, <<0, 2, 3>>) /\ Straight(T.CONFIRM, 1, <<0, 2>>)
  BY DEF Straight, Scalars, TimeNames, describe_heap_main, u16, flags, Item
<1>2. Padded(T.TRUNCATE, 5, <<0, 4, 8, 9, 12>>, <<0, 4, 8, 9, 9>>)
  BY SMTT(30) DEF Padded, Member, Aligned, Form, Scalars, TimeNames, describe_heap_main, u32, size,
         flags, skip, array, Item
<1>3. Padded(T.INPLACE, 7, <<0, 2, 4, 8, 12, 13, 16>>, <<0, 2, 2, 8, 12, 13, 13>>)
  BY SMTT(30) DEF Padded, Member, Aligned, Form, Scalars, TimeNames, describe_heap_main, u32, u16,
         u8, skip, Item
<1>4. /\ T.UPDATE = heap_update /\ T.HOT_UPDATE = heap_update /\ T.LOCK = heap_lock
      /\ T.DELETE = d \o If(Bits("flags", {1, 2}), H)
  BY DEF describe_heap_main
<1>5. heap_update = u \o If(Bits("flags", {2, 3}), H) BY DEF heap_update
<1>6. Run(d, 4, <<0, 4, 6, 7, 8>>) /\ Run(u, 6, <<0, 4, 6, 7, 8, 12, 14>>)
  BY DEF Run, Scalars, TimeNames, u32, u16, flags, Item
<1>7. Route(H, In("packed"), In("packed"), {}, {}) BY HeaderRoutes
<1> HIDE DEF T, H, d, u
<1>8. Route(d, At(0, 0), At(8, 8), {}, {}) /\ Route(u, At(0, 0), At(14, 14), {}, {})
  BY <1>6, RouteRun
<1>9. Marked(T.DELETE) /\ Marked(heap_update) BY <1>4, <1>5, <1>7, <1>8, RouteFlagged
<1> QED BY <1>1, <1>2, <1>3, <1>4, HeapOperations, <1>9, HeapLockMarked, StraightMarked, PaddedMarked DEF T

LEMMA HeapBlockMarked ==
  \A op \in DOMAIN describe_heap_block_data : Marked(describe_heap_block_data[op])
<1> DEFINE T == describe_heap_block_data
           H == parse_xl_heap_header
           m == In("packed")
           e == In("end")
           z == At(0, 0)
           x == rest("tuple data", 1, FALSE)
           y == rest("new tuple data", 1, FALSE)
           u == indexed("prefix_from_old")
           v == indexed("suffix_from_old")
           b == Bits("flags", {5})
           d == Bits("flags", {6})
<1>1. /\ T.INSERT = H \o <<x>> /\ T.UPDATE = heap_new_tuple /\ T.HOT_UPDATE = heap_new_tuple
      /\ DOMAIN T = {"INSERT", "UPDATE", "HOT_UPDATE"}
  BY DEF describe_heap_block_data
<1>2. heap_new_tuple = If(b, <<u>>) \o If(d, <<v>>) \o H \o <<y>> BY DEF heap_new_tuple
<1>3. x.kind = "rest" /\ x.name \notin TimeNames /\ y.kind = "rest" /\ y.name \notin TimeNames
  BY DEF rest, TimeNames
<1>4. Route(H, z, At(5, 5), {}, {}) /\ Route(H, m, m, {}, {}) BY HeaderRoutes
<1>5. /\ m.mode = "packed" /\ m.o \in Nat /\ m.w \in Nat /\ Packs(m, m)
      /\ z.mode = "struct" /\ z.o \in Nat /\ z.w \in Nat /\ Packs(z, m)
      /\ At(5, 5).mode = "struct" /\ At(5, 5).o \in Nat /\ At(5, 5).w \in Nat
      /\ "part" \notin {} \cup {}
  BY Modes, PackedRoutes
<1>6. ASSUME NEW it, it \in {u, v} PROVE Goes(it, m, m, {}, {}) /\ it.kind \notin {"if", "skip"}
  <2>1. it.kind = "indexed" /\ it.name \notin TimeNames BY <1>6 DEF indexed, Item, TimeNames
  <2>2. Form(it) BY <2>1 DEF Form, Scalars
  <2>3. Fit(it, m, m) BY <1>5, <2>1 DEF Fit
  <2> QED BY <2>1, <2>2, <2>3 DEF Goes
<1> HIDE DEF T, H, m, x, y, u, v
<1>7. Route(<<u>>, m, m, {}, {}) /\ Route(<<v>>, m, m, {}, {}) BY <1>5, <1>6, RouteOne
<1>8. Route(If(b, <<u>>), z, m, {}, {}) BY <1>5, <1>7, RouteBits
<1>9. Route(If(d, <<v>>), m, m, {}, {}) BY <1>5, <1>7, RouteBits
<1> HIDE DEF b, d, z, e
<1>10. Route(<<x>>, At(5, 5), e, {}, {}) /\ Route(<<y>>, m, e, {}, {})
  BY <1>3, <1>5, RouteRest DEF e
<1>11. Route(If(b, <<u>>) \o If(d, <<v>>), z, m, {}, {}) BY <1>5, <1>8, <1>9, RouteOn
<1>12. Route(If(b, <<u>>) \o If(d, <<v>>) \o H, z, m, {}, {}) BY <1>4, <1>5, <1>11, RouteOn
<1>13. Route(heap_new_tuple, z, e, {}, {}) BY <1>2, <1>5, <1>10, <1>12, RouteOn
<1>14. Route(T.INSERT, z, e, {}, {}) BY <1>1, <1>4, <1>5, <1>10, RouteOn
<1>15. Marked(heap_new_tuple) /\ Marked(T.INSERT) BY <1>13, <1>14, RouteMarked DEF z
<1> QED BY <1>1, <1>15 DEF T

LEMMA CommitTsMarked ==
  \A op \in DOMAIN describe_commit_ts_main : Marked(describe_commit_ts_main[op])
<1> DEFINE T == describe_commit_ts_main
           x == rest("subxids", 4, FALSE)
           p == <<time("timestamp"), u16("nodeid"), skip(2), u32("mainxid"), x>>
           c == <<At(0, 0), At(8, 8), At(10, 10), At(12, 10), At(16, 16), In("end")>>
<1>1. T.ZEROPAGE = If(Room(14), p) /\ DOMAIN T = {"ZEROPAGE", "TRUNCATE"}
  BY DEF describe_commit_ts_main
<1>2. Straight(T.TRUNCATE, 2, <<0, 8, 12>>)
  BY DEF Straight, Scalars, TimeNames, describe_commit_ts_main, u64, u32, Item
<1>3. x.kind = "rest" /\ x.name = "subxids" BY DEF rest
<1> HIDE DEF T, x
<1>4. p = [k \in 1 .. 5 |-> p[k]] OBVIOUS
<1>5. \A k \in 1 .. 5 :
        /\ Goes(p[k], c[k], c[k + 1], {}, {}) /\ p[k].kind # "if"
        /\ p[k].kind = "skip" => k < 5 /\ p[k + 1].kind \in Scalars \cup {"array"}
        /\ p[k].kind = "array" => \A i \in 1 .. 5 : p[i].name = p[k].name => i = k
  <2>1. \A k \in 1 .. 5 : /\ p[k].kind \notin {"if", "array"}
                          /\ p[k].kind = "skip" => k < 5 /\ p[k + 1].kind \in Scalars
    BY <1>3 DEF time, u16, u32, skip, Item, Scalars
  <2>2. \A k \in 1 .. 2 : Goes(p[k], c[k], c[k + 1], {}, {})
    BY DEF Goes, Form, Fit, FitScalar, Moves, At, Scalars, TimeNames, Aligned, time, u16, Item
  <2>3. \A k \in 3 .. 4 : Goes(p[k], c[k], c[k + 1], {}, {})
    BY DEF Goes, Form, Fit, FitScalar, Moves, At, Scalars, TimeNames, Aligned, u32, skip, Item
  <2>4. Goes(p[5], c[5], c[5 + 1], {}, {})
    BY <1>3 DEF Goes, Form, Fit, In, Scalars, TimeNames
  <2>5. \A k \in 1 .. 5 : k \in 1 .. 2 \/ k \in 3 .. 4 \/ k = 5 OBVIOUS
  <2> HIDE DEF p, c
  <2> QED BY <2>1, <2>2, <2>3, <2>4, <2>5
<1>6. \A k \in 1 .. 5 + 1 : c[k].o \in Nat /\ c[k].w \in Nat BY DEF At, In
<1>7. c[1] = At(0, 0) /\ c[5 + 1] = In("end") OBVIOUS
<1>8. Heads(p, 14)
  <2>1. /\ 4 \in {3, 4} /\ 4 <= Len(p) /\ {p[1].kind, p[2].kind, p[4].kind} \subseteq Scalars
        /\ 14 <= p[1].width + p[2].width + p[4].width
    BY DEF Scalars, time, u16, u32, Item
  <2>2. \A i \in 1 .. 4 : p[i].kind # "if" BY DEF time, u16, u32, skip, Item
  <2> HIDE DEF p
  <2> QED BY <2>1, <2>2 DEF Heads
<1> HIDE DEF p, c
<1>9. Route(p, c[1], c[5 + 1], {}, {}) BY <1>4, <1>5, <1>6, RouteTuple
<1>10. 14 \in Nat /\ 14 # Metadata /\ "part" \notin {} \cup {} BY DEF Metadata
<1>11. Route(p, At(0, 0), In("end"), {}, {}) BY <1>7, <1>9
<1>12. Route(If(Room(14), p), At(0, 0), In("end"), {}, {}) BY <1>8, <1>10, <1>11, Modes, RouteRoom
<1>13. Marked(T.ZEROPAGE) BY <1>1, <1>12, RouteMarked
<1> QED BY <1>1, <1>2, <1>13, StraightMarked DEF T

XactArrays == {"subxid", "rel"}

\* With fewer promises.
LEMMA RouteThen ==
  ASSUME NEW p, NEW q, NEW t, NEW s, NEW u, NEW A, NEW B, NEW X, NEW Y,
         Route(p, t, s, A, X), Route(q, s, u, B, Y), s.mode # "end", A \subseteq Y, B \subseteq X,
         NEW C, NEW Z, A \cup B = C, X \cap Y = Z
  PROVE  Route(p \o q, t, u, C, Z)
<1>1. Route(p \o q, t, u, A \cup B, X \cap Y) BY RouteJoin
<1> QED BY <1>1

LEMMA RouteTwo ==
  ASSUME NEW it, NEW jt, NEW t, NEW s, NEW u, NEW A, NEW X,
         Goes(it, t, s, A, X), Goes(jt, s, u, A, X),
         it.kind \notin {"if", "skip", "array"}, jt.kind \notin {"if", "skip"},
         it.name # jt.name,
         t.o \in Nat, t.w \in Nat, s.o \in Nat, s.w \in Nat, u.o \in Nat, u.w \in Nat
  PROVE  Route(<<it, jt>>, t, u, A, X)
<1> DEFINE p == <<it, jt>>
           c == <<t, s, u>>
<1>1. p = [k \in 1 .. 2 |-> p[k]] /\ p[1] = it /\ p[2] = jt /\ c[1] = t /\ c[2] = s /\ c[3] = u
  OBVIOUS
<1> HIDE DEF p, c
<1>2. \A k \in 1 .. 2 + 1 : c[k].o \in Nat /\ c[k].w \in Nat
  <2>1. \A k \in 1 .. 2 + 1 : k = 1 \/ k = 2 \/ k = 3 OBVIOUS
  <2> QED BY <1>1, <2>1
<1>3. \A k \in 1 .. 2 : (k = 1 /\ k + 1 = 2) \/ (k = 2 /\ k + 1 = 3) OBVIOUS
<1>4. \A k \in 1 .. 2 :
           /\ Goes(p[k], c[k], c[k + 1], A, X) /\ p[k].kind # "if"
           /\ p[k].kind = "skip" => k < 2 /\ p[k + 1].kind \in Scalars \cup {"array"}
           /\ p[k].kind = "array" => \A i \in 1 .. 2 : p[i].name = p[k].name => i = k
  BY <1>1, <1>3
<1>5. Route(p, c[1], c[2 + 1], A, X) BY <1>1, <1>2, <1>4, RouteTuple
<1> QED BY <1>1, <1>5 DEF p

LEMMA XactPieces ==
  LET m == In("packed")
  IN  /\ Route(<<u32("dbId"), u32("tsId")>>, m, m, {}, XactArrays)
      /\ Route(<<count("nsubxacts"), array_over("subxid", 4, 1, {"nsubxacts"}, 8, "cast")>>, m, m,
               {"subxid"}, {"rel"})
      /\ Route(<<count("nrels"), array_over("rel", 4, 3, {"nrels"}, 8, "cast")>>, m, m,
               {"rel"}, {"subxid"})
      /\ LET t == In("tail")
         IN  /\ Route(<<u32("ninvals")>>, t, t, {}, XactArrays)
             /\ Route(<<u32("2pc_xid")>>, t, t, {}, XactArrays)
             /\ Route(<<cstr("gid")>>, t, t, {}, XactArrays)
             /\ Route(<<u64("origin_lsn"), time("origin_ts")>>, t, In("end"), {}, XactArrays)
<1> DEFINE m == In("packed")
           n == In("tail")
           e == In("end")
<1>1. /\ m.mode = "packed" /\ n.mode = "tail" /\ e.mode = "end"
      /\ m.o \in Nat /\ m.w \in Nat /\ n.o \in Nat /\ n.w \in Nat /\ e.o \in Nat /\ e.w \in Nat
  BY Modes
<1> HIDE DEF m, n, e
<1>2. Route(<<u32("dbId"), u32("tsId")>>, m, m, {}, XactArrays)
  <2>1. ASSUME NEW it, it \in {u32("dbId"), u32("tsId")}
        PROVE  Goes(it, m, m, {}, XactArrays) /\ it.kind = "int"
    BY <1>1, <2>1 DEF Goes, Form, Fit, FitScalar, Packs, Scalars, TimeNames, XactArrays, u32, Item
  <2>2. u32("dbId").name # u32("tsId").name BY DEF u32, Item
  <2> QED BY <1>1, <2>1, <2>2, RouteTwo
<1>3. Route(<<count("nsubxacts"), array_over("subxid", 4, 1, {"nsubxacts"}, 8, "cast")>>, m, m,
            {"subxid"}, {"rel"})
  <2> DEFINE it == count("nsubxacts")
             jt == array_over("subxid", 4, 1, {"nsubxacts"}, 8, "cast")
             A == {"subxid"}
             X == {"rel"}
  <2>1. Goes(it, m, m, A, X) /\ it.kind = "count"
    BY <1>1 DEF Goes, Form, Fit, FitScalar, Packs, Scalars, TimeNames, count, Item
  <2>2. Goes(jt, m, m, A, X) /\ jt.kind = "array" /\ it.name # jt.name
    BY <1>1 DEF Goes, Form, Fit, FitArray, Packs, Scalars, TimeNames, array, array_over, count, Item
  <2> HIDE DEF it, jt, A, X
  <2> QED BY <1>1, <2>1, <2>2, RouteTwo DEF it, jt, A, X
<1>4. Route(<<count("nrels"), array_over("rel", 4, 3, {"nrels"}, 8, "cast")>>, m, m,
            {"rel"}, {"subxid"})
  <2> DEFINE it == count("nrels")
             jt == array_over("rel", 4, 3, {"nrels"}, 8, "cast")
             A == {"rel"}
             X == {"subxid"}
  <2>1. Goes(it, m, m, A, X) /\ it.kind = "count"
    BY <1>1 DEF Goes, Form, Fit, FitScalar, Packs, Scalars, TimeNames, count, Item
  <2>2. Goes(jt, m, m, A, X) /\ jt.kind = "array" /\ it.name # jt.name
    BY <1>1 DEF Goes, Form, Fit, FitArray, Packs, Scalars, TimeNames, array, array_over, count, Item
  <2> HIDE DEF it, jt, A, X
  <2> QED BY <1>1, <2>1, <2>2, RouteTwo DEF it, jt, A, X
<1>5. /\ Route(<<u32("ninvals")>>, n, n, {}, XactArrays)
      /\ Route(<<u32("2pc_xid")>>, n, n, {}, XactArrays)
      /\ Route(<<cstr("gid")>>, n, n, {}, XactArrays)
      /\ Route(<<u64("origin_lsn"), time("origin_ts")>>, n, e, {}, XactArrays)
  <2>1. ASSUME NEW it, it \in {u32("ninvals"), u32("2pc_xid"), u64("origin_lsn")}
        PROVE  Goes(it, n, n, {}, XactArrays) /\ it.kind = "int"
    BY <1>1, <2>1 DEF Goes, Form, Fit, FitScalar, Packs, Scalars, TimeNames, XactArrays, u32, u64,
        Item
  <2>2. Goes(cstr("gid"), n, n, {}, XactArrays) /\ cstr("gid").kind = "cstr"
    BY <1>1 DEF Goes, Form, Fit, Packs, Scalars, TimeNames, XactArrays, cstr, Item
  <2>3. Goes(time("origin_ts"), n, e, {}, XactArrays) /\ time("origin_ts").kind = "time"
    BY <1>1 DEF Goes, Form, Fit, FitScalar, Packs, Scalars, TimeNames, XactArrays, time, Item
  <2>4. u64("origin_lsn").name # time("origin_ts").name BY DEF u64, time, Item
  <2> DEFINE v == u32("ninvals")
             x == u32("2pc_xid")
             y == cstr("gid")
             z == u64("origin_lsn")
             w == time("origin_ts")
  <2>5. /\ Goes(v, n, n, {}, XactArrays) /\ v.kind = "int"
        /\ Goes(x, n, n, {}, XactArrays) /\ x.kind = "int"
        /\ Goes(y, n, n, {}, XactArrays) /\ y.kind = "cstr"
        /\ Goes(z, n, n, {}, XactArrays) /\ z.kind = "int"
        /\ Goes(w, n, e, {}, XactArrays) /\ w.kind = "time" /\ z.name # w.name
    BY <2>1, <2>2, <2>3, <2>4
  <2> HIDE DEF v, x, y, z, w
  <2>6. /\ Route(<<v>>, n, n, {}, XactArrays) /\ Route(<<x>>, n, n, {}, XactArrays)
        /\ Route(<<y>>, n, n, {}, XactArrays)
    BY <1>1, <2>5, RouteOne
  <2>7. Route(<<z, w>>, n, e, {}, XactArrays) BY <1>1, <2>5, RouteTwo
  <2> QED BY <2>6, <2>7 DEF v, x, y, z, w
<1> QED BY <1>2, <1>3, <1>4, <1>5 DEF m, n, e

LEMMA SubrecordsRoute ==
  \A is_commit \in BOOLEAN :
    Route(parse_xact_subrecords(is_commit), At(12, 12), In("end"), XactArrays, {})
<1> TAKE is_commit \in BOOLEAN
<1> DEFINE B(n) == Bits("xinfo", {n})
           p1 == <<u32("dbId"), u32("tsId")>>
           p2 == <<count("nsubxacts"), array_over("subxid", 4, 1, {"nsubxacts"}, 8, "cast")>>
           p3 == <<count("nrels"), array_over("rel", 4, 3, {"nrels"}, 8, "cast")>>
           p4 == <<u32("ninvals")>>
           p5 == <<u32("2pc_xid")>>
           p6 == <<cstr("gid")>>
           p7 == <<u64("origin_lsn"), time("origin_ts")>>
           q4 == IF is_commit THEN If(B(3), p4) ELSE <<>>
           m == In("packed")
           z == At(12, 12)
           n == In("tail")
           e == In("end")
           t == IF is_commit THEN n ELSE m
<1>1. /\ Route(p1, m, m, {}, XactArrays) /\ Route(p2, m, m, {"subxid"}, {"rel"})
      /\ Route(p3, m, m, {"rel"}, {"subxid"}) /\ Route(p4, n, n, {}, XactArrays)
      /\ Route(p5, n, n, {}, XactArrays) /\ Route(p6, n, n, {}, XactArrays)
      /\ Route(p7, n, e, {}, XactArrays)
  BY XactPieces
<1>2. /\ m.mode = "packed" /\ m.o \in Nat /\ m.w \in Nat
      /\ z.mode = "struct" /\ z.o = z.w /\ z.o \in Nat /\ z.w \in Nat /\ e.mode = "end"
      /\ n.mode = "tail" /\ n.o \in Nat /\ n.w \in Nat
  BY Modes
<1>3. t \in {m, n} OBVIOUS
<1>4. "part" \notin XactArrays \cup {} /\ "part" \notin {"rel"} \cup {"subxid"} BY DEF XactArrays
<1>5. /\ Packs(z, m) /\ Packs(m, m) /\ Packs(m, n) /\ Packs(n, n) /\ Packs(n, e)
      /\ \A b \in {0, 1, 2, 5, 7} : {b} \notin {{3}, {4}}
  BY <1>2 DEF Packs
<1>6. parse_xact_subrecords(is_commit)
        = If(B(0), p1) \o If(B(1), p2) \o If(B(2), p3) \o q4 \o If(B(4), p5) \o If(B(7), p6)
            \o If(B(5), p7)
  BY DEF parse_xact_subrecords
<1> HIDE DEF p1, p2, p3, p4, p5, p6, p7, m, n, z, e
<1>7. /\ Route(If(B(0), p1), z, m, {}, XactArrays) /\ Route(If(B(1), p2), m, m, {"subxid"}, {"rel"})
      /\ Route(If(B(2), p3), m, m, {"rel"}, {"subxid"})
  BY <1>1, <1>2, <1>4, <1>5, RouteBits
<1>8. Route(If(B(3), p4), m, n, {}, XactArrays) BY <1>1, <1>2, <1>4, <1>5, RouteBits
<1>9. Route(q4, m, t, {}, XactArrays)
  <2>1. CASE is_commit BY <1>8, <2>1
  <2>2. CASE ~is_commit
    <3>1. q4 = <<>> /\ t = m BY <2>2
    <3>2. Route(<<>>, m, m, {}, XactArrays) BY <1>2, RouteNone
    <3> QED BY <3>1, <3>2
  <2> QED BY <2>1, <2>2
<1> HIDE DEF q4, t
<1>10. /\ Route(If(B(4), p5), t, n, {}, XactArrays) /\ Route(If(B(7), p6), n, n, {}, XactArrays)
       /\ Route(If(B(5), p7), n, e, {}, XactArrays)
  <2>1. t.o \in Nat /\ t.w \in Nat /\ Packs(t, n) BY <1>2, <1>3, <1>5
  <2> QED BY <1>1, <1>2, <1>4, <1>5, <2>1, RouteBits
<1> HIDE DEF B
<1> DEFINE r2 == If(B(0), p1) \o If(B(1), p2)
           r3 == r2 \o If(B(2), p3)
           r4 == r3 \o q4
           r5 == r4 \o If(B(4), p5)
           r6 == r5 \o If(B(7), p6)
           r7 == r6 \o If(B(5), p7)
<1>11. Route(r2, z, m, {"subxid"}, {"rel"})
  <2>1. {} \subseteq {"rel"} /\ {"subxid"} \subseteq XactArrays /\ {} \cup {"subxid"} = {"subxid"}
        /\ XactArrays \cap {"rel"} = {"rel"}
    BY DEF XactArrays
  <2> QED BY <1>2, <1>7, <2>1, RouteThen
<1> HIDE DEF r2
<1>12. Route(r3, z, m, XactArrays, {})
  <2>1. {"subxid"} \cup {"rel"} = XactArrays /\ {"rel"} \cap {"subxid"} = {} BY DEF XactArrays
  <2> QED BY <1>2, <1>7, <1>11, <2>1, RouteThen
<1> HIDE DEF r3
<1>13. /\ {} \subseteq {} /\ XactArrays \subseteq XactArrays /\ XactArrays \cup {} = XactArrays
       /\ {} \cap XactArrays = {}
  OBVIOUS
<1>14. Route(r4, z, t, XactArrays, {}) BY <1>2, <1>3, <1>9, <1>12, <1>13, RouteThen
<1> HIDE DEF r4
<1>15. Route(r5, z, n, XactArrays, {}) BY <1>2, <1>3, <1>10, <1>13, <1>14, RouteThen
<1> HIDE DEF r5
<1>16. Route(r6, z, n, XactArrays, {}) BY <1>2, <1>10, <1>13, <1>15, RouteThen
<1> HIDE DEF r6
<1>17. Route(r7, z, e, XactArrays, {}) BY <1>2, <1>10, <1>13, <1>16, RouteThen
<1> QED BY <1>6, <1>17 DEF r7, r6, r5, r4, r3, r2, z, e

LEMMA EndMarked == \A is_commit \in BOOLEAN : Marked(xact_end(is_commit))
<1> TAKE is_commit \in BOOLEAN
<1> DEFINE x == time("xact_time")
           y == Some(flags("xinfo", 4, decode_xact_xinfo))
           q == parse_xact_subrecords(is_commit)
           e == In("end")
           z == At(0, 0)
           t == At(8, 8)
           u == At(12, 12)
           c == Info80(TRUE)
<1>1. xact_end(is_commit) = <<x>> \o If(c, <<y>> \o q) BY DEF xact_end
<1>2. Goes(x, z, t, {}, XactArrays) /\ x.kind = "time"
  BY DEF Goes, Form, Fit, FitScalar, Moves, At, Scalars, TimeNames, Aligned, XactArrays, time, Item
<1>3. Goes(y, t, u, {}, XactArrays) /\ y.kind = "flags"
  BY DEF Goes, Form, Fit, FitScalar, Moves, At, Scalars, TimeNames, Aligned, XactArrays, Some, flags
<1>4. Route(q, u, e, XactArrays, {}) BY SubrecordsRoute
<1>5. /\ e.mode = "end" /\ z.o \in Nat /\ z.w \in Nat /\ t.mode = "struct" /\ t.o \in Nat
      /\ t.w \in Nat
      /\ t.o = t.w /\ u.mode = "struct" /\ u.o \in Nat /\ u.w \in Nat
  BY Modes
<1>6. "part" \notin {} \cup XactArrays BY DEF XactArrays
<1> HIDE DEF x, y, q, e, z, t, u
<1>7. Route(<<x>>, z, t, {}, XactArrays) /\ Route(<<y>>, t, u, {}, XactArrays)
  BY <1>2, <1>3, <1>5, RouteOne
<1>8. /\ {} \subseteq {} /\ XactArrays \subseteq XactArrays /\ {} \cup XactArrays = XactArrays
      /\ XactArrays \cap {} = {}
  OBVIOUS
<1>9. Route(<<y>> \o q, t, e, XactArrays, {}) BY <1>4, <1>5, <1>7, <1>8, RouteThen
<1>10. Route(If(c, <<y>> \o q), t, e, XactArrays, {})
  <2> DEFINE b == TRUE
  <2>1. c = Info80(b) OBVIOUS
  <2> HIDE DEF b, c
  <2>2. Route(If(Info80(b), <<y>> \o q), t, e, XactArrays, {}) BY <1>5, <1>6, <1>9, RouteInfo
  <2> QED BY <2>1, <2>2
<1> HIDE DEF c
<1>11. Route(xact_end(is_commit), z, e, XactArrays, {})
  <2> DEFINE r == If(c, <<y>> \o q)
  <2>1. Route(r, t, e, XactArrays, {}) BY <1>10
  <2> HIDE DEF r
  <2>2. Route(<<x>> \o r, z, e, XactArrays, {}) BY <1>5, <1>7, <1>8, <2>1, RouteThen
  <2> QED BY <1>1, <2>2 DEF r
<1> QED BY <1>11, RouteMarked DEF z

LEMMA XactMarked == \A op \in DOMAIN describe_xact_main : Marked(describe_xact_main[op])
<1> DEFINE T == describe_xact_main
           x == rest("invalidation messages", 1, TRUE)
<1>1. T.INVALIDATION = <<x>> BY DEF describe_xact_main
<1>2. x.kind = "rest" /\ x.name \notin TimeNames BY DEF rest, TimeNames
<1>3. Padded(T.ASSIGNMENT, 3, <<0, 4, 8>>, <<0, 4, 8>>)
  BY SMTT(30) DEF Padded, Member, Aligned, Form, Scalars, TimeNames, describe_xact_main, u32, count,
         array, Item
<1>4. /\ T.COMMIT = xact_end(TRUE) /\ T.COMMIT_PREPARED = xact_end(TRUE)
      /\ T.ABORT = xact_end(FALSE) /\ T.ABORT_PREPARED = xact_end(FALSE)
  BY DEF describe_xact_main
<1>5. Marked(T.PREPARE) BY PrepareMarked
<1> HIDE DEF T, x
<1>6. Marked(T.INVALIDATION)
  <2>1. Route(<<x>>, At(0, 0), In("end"), {}, {}) BY <1>2, Modes, RouteRest
  <2> QED BY <1>1, <2>1, RouteMarked
<1>7. Marked(T.ASSIGNMENT) BY <1>3, PaddedMarked
<1>8. Marked(T.COMMIT) /\ Marked(T.COMMIT_PREPARED) /\ Marked(T.ABORT) /\ Marked(T.ABORT_PREPARED)
  BY <1>4, EndMarked
<1> QED BY XactOperations, <1>5, <1>6, <1>7, <1>8 DEF T

LEMMA MainMarked == \A rmgr, op : Marked(describe_main_data(rmgr, op))
<1> TAKE rmgr, op
<1> DEFINE F(T) == \A o \in DOMAIN T : Marked(T[o])
<1>1. ASSUME NEW T, F(T) PROVE Marked(Program(T, op)) BY <1>1, NoneMarked DEF Program
<1>2. /\ F(describe_heap_main) /\ F(describe_heap2_main) /\ F(describe_xact_main)
      /\ F(describe_xlog_main) /\ F(describe_smgr_main) /\ F(describe_clog_main)
      /\ F(describe_database_main) /\ F(describe_tablespace_main) /\ F(describe_multixact_main)
      /\ F(describe_relmap_main) /\ F(describe_standby_main) /\ F(describe_btree_main)
      /\ F(describe_seq_main) /\ F(describe_commit_ts_main) /\ F(describe_replorigin_main)
      /\ F(describe_logical_msg_main)
  BY HeapMarked, Heap2Marked, XactMarked, XlogMarked, SmgrMarked, ClogMarked, DatabaseMarked,
     TablespaceMarked, MultixactMarked, RelmapMarked, StandbyMarked, BtreeMarked, SequenceMarked,
     CommitTsMarked, OriginMarked, LogicalMessageMarked
<1> HIDE DEF F
<1> DEFINE P(T) == Marked(Program(T, op))
<1>3. /\ P(describe_heap_main) /\ P(describe_heap2_main) /\ P(describe_xact_main)
      /\ P(describe_xlog_main) /\ P(describe_smgr_main) /\ P(describe_clog_main)
      /\ P(describe_database_main) /\ P(describe_tablespace_main) /\ P(describe_multixact_main)
      /\ P(describe_relmap_main) /\ P(describe_standby_main) /\ P(describe_btree_main)
      /\ P(describe_seq_main) /\ P(describe_commit_ts_main) /\ P(describe_replorigin_main)
      /\ P(describe_logical_msg_main)
  BY <1>1, <1>2
<1> QED BY <1>3, NoneMarked DEF describe_main_data

LEMMA BlockMarked == \A rmgr, op, idx : Marked(describe_block_data(rmgr, op, idx))
<1> TAKE rmgr, op, idx
<1> DEFINE x == rest("block data", 1, TRUE)
<1>1. Marked(Program(describe_heap_block_data, op)) BY HeapBlockMarked, NoneMarked DEF Program
<1>2. describe_heap2_block_data = <<x>> /\ x.kind = "rest" /\ x.name \notin TimeNames
  BY DEF describe_heap2_block_data, rest, TimeNames
<1> HIDE DEF x
<1>3. Marked(describe_heap2_block_data)
  <2>1. Route(<<x>>, At(0, 0), In("end"), {}, {}) BY <1>2, Modes, RouteRest
  <2> QED BY <1>2, <2>1, RouteMarked
<1> QED BY <1>1, <1>3, NoneMarked DEF describe_block_data

-----------------------------------------------------------------------------
(* The programs against the structures.  An item is alike the member that  *)
(* is written in its place; Alike programs read the structure that the     *)
(* server writes, up to parts at its end that they have no use for.        *)

Suits(a, b) ==
  \/ a = b /\ b.on \in {"bits", "info"}
  \/ a.on = "inside" /\ b.on = "room" /\ b.bytes # Metadata
Pair(a, b) ==
  /\ a.kind = b.kind \/ (a.kind \in {"int", "count"} /\ b.kind \in {"int", "unshown"})
  /\ a.width = b.width /\ (b.kind # "if" => a.name = b.name)
  /\ b.kind = "array" => a.numbers = b.numbers /\ a.of = b.of
  /\ b.kind = "sized" => a.of = b.of
  /\ b.kind = "if" => /\ Suits(a.cond, b.cond) /\ a.jump = b.jump
                      /\ a.name \in {"stats", "messages"} => Unsure(b.cond)
Extra(a) == a.kind \in {"rest", "if"} /\ a.width \in Nat /\ (a.kind = "if" => a.jump \in Nat)

\* A metapage that the parser would have room for in the main data, and that is not there.
Page(s, p, k) ==
  /\ s[k].kind = "if" /\ p[k].kind = "if" /\ s[k].width = p[k].width /\ s[k].jump = p[k].jump
  /\ s[k].name = "part" /\ s[k].cond.on = "block"
  /\ p[k].cond.on = "room" /\ p[k].cond.bytes = Metadata /\ Len(s) = Len(p)

Full(s, p) == IsSeq(s) /\ IsSeq(p) /\ Len(s) = Len(p) /\ \A k \in 1 .. Len(p) : Pair(s[k], p[k])
Alike(s, p) ==
  /\ IsSeq(s) /\ IsSeq(p) /\ Len(s) \in {Len(p), Len(p) + 1, Len(p) + 2}
  /\ \A k \in 1 .. Len(p) : Pair(s[k], p[k]) \/ Page(s, p, k)
  /\ \A k \in Len(p) + 1 .. Len(s) : Extra(s[k])
AlikeAll(S, T, except) == \A op \in DOMAIN T \ except : op \in DOMAIN S /\ Alike(S[op], T[op])

\* No part depends on flags.
Bare(p) == IsSeq(p) /\ \A k \in 1 .. Len(p) : p[k].kind = "if" => p[k].cond.on # "bits"
BareAll(T, except) == \A op \in DOMAIN T : Bare(T[op]) \/ T[op] \in except

\* n items, none of them a condition, and m members.
Echo(a, b) == Pair(a, b) /\ b.kind # "if"
Tuple(p, n) == p = [k \in 1 .. n |-> p[k]]
Flat(s, m, p, n) ==
  /\ n \in Nat /\ m \in {n, n + 1} /\ Tuple(s, m) /\ Tuple(p, n)
  /\ \A k \in 1 .. n : Echo(s[k], p[k])
  /\ m = n + 1 => Extra(s[m])

LEMMA Flats ==
  ASSUME NEW s, NEW m, NEW p, NEW n, Flat(s, m, p, n)
  PROVE  Alike(s, p) /\ Bare(p) /\ (m = n => Full(s, p))
<1>1. /\ n \in Nat /\ m \in {n, n + 1} /\ m \in Nat /\ \A k \in 1 .. n : Pair(s[k], p[k]) /\ p[k].kind # "if"
      /\ m = n + 1 => Extra(s[m])
  BY DEF Flat, Echo
<1>2. IsSeq(p) /\ Len(p) = n /\ IsSeq(s) /\ Len(s) = m BY <1>1, SeqIs DEF Flat, Tuple
<1>3. \A k \in n + 1 .. m : m = n + 1 /\ k = m BY <1>1
<1> QED BY <1>1, <1>2, <1>3 DEF Alike, Bare, Full

LEMMA FullIsAlike == ASSUME NEW s, NEW p, Full(s, p) PROVE Alike(s, p)
<1>1. Len(p) \in Nat BY SeqLen DEF Full
<1>2. \A k \in Len(p) + 1 .. Len(p) : FALSE BY <1>1
<1> QED BY <1>1, <1>2 DEF Full, Alike

LEMMA FullJoin == ASSUME NEW s, NEW p, NEW t, NEW q, Full(s, p), Full(t, q) PROVE Full(s \o t, p \o q)
<1> DEFINE l == Len(p)
           m == Len(q)
<1>1. IsSeq(s) /\ IsSeq(p) /\ IsSeq(t) /\ IsSeq(q) /\ Len(s) = l /\ Len(t) = m BY DEF Full
<1>2. /\ IsSeq(p \o q) /\ Len(p \o q) = l + m /\ l \in Nat /\ m \in Nat
      /\ \A k \in 1 .. l : (p \o q)[k] = p[k]
      /\ \A k \in 1 .. m : (p \o q)[l + k] = q[k]
  BY <1>1, SeqJoin, SeqLen
<1>3. /\ IsSeq(s \o t) /\ Len(s \o t) = l + m
      /\ \A k \in 1 .. l : (s \o t)[k] = s[k]
      /\ \A k \in 1 .. m : (s \o t)[l + k] = t[k]
  <2> HIDE DEF l, m
  <2> QED BY <1>1, SeqJoin
<1>4. (\A k \in 1 .. l : Pair(s[k], p[k])) /\ \A k \in 1 .. m : Pair(t[k], q[k]) BY DEF Full
<1> HIDE DEF l, m
<1>5. ASSUME NEW k \in 1 .. l + m PROVE Pair((s \o t)[k], (p \o q)[k])
  <2>1. CASE k \in 1 .. l BY <1>2, <1>3, <1>4, <2>1
  <2>2. CASE k \notin 1 .. l
    <3>1. k - l \in 1 .. m /\ k = l + (k - l) BY <1>2, <2>2
    <3>2. PICK i \in 1 .. m : k = l + i BY <3>1
    <3> QED BY <1>2, <1>3, <1>4, <3>2
  <2> QED BY <2>1, <2>2
<1> QED BY <1>2, <1>3, <1>5 DEF Full

LEMMA SeqOne == ASSUME NEW x PROVE IsSeq(<<x>>) /\ Len(<<x>>) = 1 /\ <<x>>[1] = x
<1>1. <<x>> \in Seq({x}) OBVIOUS
<1> QED BY <1>1 DEF IsSeq

\* One more at the front.
LEMMA SeqCons ==
  ASSUME NEW x, IsSeq(x), Len(x) = 1, NEW p, IsSeq(p)
  PROVE  /\ IsSeq(x \o p) /\ Len(x \o p) = 1 + Len(p) /\ (x \o p)[1] = x[1]
         /\ \A k \in 1 .. Len(p) : (x \o p)[1 + k] = p[k]
<1>1. ASSUME NEW y, NEW l, l = Len(y), IsSeq(y)
      PROVE  /\ IsSeq(y \o p) /\ Len(y \o p) = l + Len(p) /\ \A k \in 1 .. l : (y \o p)[k] = y[k]
             /\ \A k \in 1 .. Len(p) : (y \o p)[l + k] = p[k]
  BY <1>1, SeqJoin
<1>2. 1 \in 1 .. 1 OBVIOUS
<1> QED BY <1>1, <1>2

\* A part of a structure; unread is what is in front of it.
Part(unread, c, p) == <<[kind |-> "if", name |-> unread, width |-> 0, cond |-> c, jump |-> Len(p)]>> \o p

LEMMA PartIs ==
  /\ \A c, p : If(c, p) = Part("part", c, p)
  /\ \A unread, c, p : Behind(unread, c, p) = Part(unread, c, p)
  /\ \A p : Inner(p) = Part("part", [on |-> "inside"], p) /\ InBlock(p) = Part("part", [on |-> "block"], p)
BY DEF If, Behind, Inner, InBlock, Part

LEMMA FullPart ==
  ASSUME NEW s, NEW p, Full(s, p), NEW a, NEW c, Suits(a, c), NEW unread, unread = "part" \/ Unsure(c)
  PROVE  Full(Part(unread, a, s), If(c, p))
<1> DEFINE x == [kind |-> "if", name |-> unread, width |-> 0, cond |-> a, jump |-> Len(s)]
           y == [kind |-> "if", name |-> "part", width |-> 0, cond |-> c, jump |-> Len(p)]
<1>1. Pair(x, y) BY DEF Pair, Full
<1>2. Part(unread, a, s) = <<x>> \o s /\ If(c, p) = <<y>> \o p BY DEF Part, If
<1> HIDE DEF x, y
<1>3. Full(<<x>>, <<y>>) BY <1>1, SeqOne DEF Full
<1> QED BY <1>2, <1>3, FullJoin

\* Members behind those that the parser has items for.
LEMMA AlikeMore ==
  ASSUME NEW s, NEW p, Full(s, p), NEW e, IsSeq(e), NEW n \in {1, 2}, Len(e) = n,
         \A k \in 1 .. n : Extra(e[k])
  PROVE  Alike(s \o e, p)
<1> DEFINE l == Len(p)
<1>1. IsSeq(s) /\ IsSeq(p) /\ IsSeq(e) /\ Len(s) = l /\ Len(e) = n BY DEF Full
<1>2. /\ IsSeq(s \o e) /\ Len(s \o e) = l + n /\ l \in Nat
      /\ \A k \in 1 .. l : (s \o e)[k] = s[k]
      /\ \A k \in 1 .. n : (s \o e)[l + k] = e[k]
  BY <1>1, SeqJoin, SeqLen
<1>3. \A k \in 1 .. l : Pair(s[k], p[k]) BY DEF Full
<1> HIDE DEF l
<1>4. ASSUME NEW k \in l + 1 .. l + n PROVE Extra((s \o e)[k])
  <2>1. k - l \in 1 .. n /\ k = l + (k - l) BY <1>2
  <2>2. PICK i \in 1 .. n : k = l + i BY <2>1
  <2> QED BY <1>2, <2>2
<1> QED BY <1>1, <1>2, <1>3, <1>4 DEF Alike, l

LEMMA BareJoin == ASSUME NEW p, NEW q, Bare(p), Bare(q) PROVE Bare(p \o q)
<1> DEFINE r == p \o q
           l == Len(p)
           m == Len(q)
<1>1. /\ IsSeq(r) /\ Len(r) = l + m /\ l \in Nat /\ m \in Nat
      /\ \A k \in 1 .. l : r[k] = p[k]
      /\ \A k \in 1 .. m : r[l + k] = q[k]
  BY SeqJoin, SeqLen DEF Bare
<1>2. /\ \A k \in 1 .. l : p[k].kind = "if" => p[k].cond.on # "bits"
      /\ \A k \in 1 .. m : q[k].kind = "if" => q[k].cond.on # "bits"
  BY DEF Bare
<1> HIDE DEF r, l, m
<1>3. ASSUME NEW k \in 1 .. l + m, r[k].kind = "if" PROVE r[k].cond.on # "bits"
  <2>1. CASE k \in 1 .. l BY <1>1, <1>2, <1>3, <2>1
  <2>2. CASE k \notin 1 .. l
    <3>1. k - l \in 1 .. m /\ k = l + (k - l) BY <1>1, <2>2
    <3>2. PICK i \in 1 .. m : k = l + i BY <3>1
    <3> QED BY <1>1, <1>2, <1>3, <3>2
  <2> QED BY <2>1, <2>2
<1>4. Bare(r) BY <1>1, <1>3 DEF Bare
<1> QED BY <1>4 DEF r

LEMMA BareIf == ASSUME NEW c, c.on # "bits", NEW p, Bare(p) PROVE Bare(If(c, p))
<1> DEFINE it == [kind |-> "if", name |-> "part", width |-> 0, cond |-> c, jump |-> Len(p)]
<1>1. If(c, p) = <<it>> \o p /\ it.cond = c BY DEF If
<1> HIDE DEF it
<1>2. Bare(<<it>>) BY <1>1, SeqOne DEF Bare
<1> QED BY <1>1, <1>2, BareJoin

\* The items of the parsers and the members they read.
LEMMA Echoes ==
  /\ \A n : /\ Echo(u8(n), u8(n)) /\ Echo(u16(n), u16(n)) /\ Echo(u32(n), u32(n))
            /\ Echo(u64(n), u64(n)) /\ Echo(unshown(n), unshown(n)) /\ Echo(time(n), time(n))
            /\ Echo(count(n), count(n)) /\ Echo(count(n), u32(n)) /\ Echo(cstr(n), cstr(n))
            /\ Echo(name64(n), name64(n)) /\ Echo(indexed(n), indexed(n)) /\ Echo(skip(n), skip(n))
  /\ \A n, w : Echo(size(n, w), size(n, w)) /\ Echo(sized(n, w), sized(n, w))
  /\ \A n, w, t : Echo(bits(n, w), flags(n, w, t)) /\ Echo(bits(n, w), Some(flags(n, w, t)))
BY DEF Echo, Pair, u8, u16, u32, u64, unshown, time, count, cstr, name64, indexed, skip, size, sized,
       bits, flags, Some, Item
LEMMA ArrayEchoes ==
  \A n, w, m, of, cap, note :
    /\ Echo(elements(n, w, m, of), array(n, w, m, of, cap, note))
    /\ Echo(elements(n, w, m, of), array_over(n, w, m, of, cap, note))
BY DEF Echo, Pair, elements, array, array_over
LEMMA RestEchoes ==
  \A n : /\ Echo(units(n, 1), rest(n, 1, FALSE)) /\ Echo(units(n, 1), rest(n, 1, TRUE))
         /\ Echo(units(n, 4), rest(n, 4, FALSE))
BY DEF Echo, Pair, units, rest, Item
LEMMA FlatOne == ASSUME NEW a, NEW b, Echo(a, b) PROVE Flat(<<a>>, 1, <<b>>, 1) BY DEF Flat, Tuple
LEMMA Extras == \A n : \A w \in Nat : Extra(units(n, w))
BY DEF Extra, units, Item

\* The parts that operations share.
LEMMA LikeParts ==
  /\ Flat(Locator, 3, Locator, 3) /\ Flat(xl_heap_lock, 4, heap_lock, 4)
  /\ Flat(xl_btree_metadata, 7, parse_btree_metadata, 7) /\ Flat(xl_btree_split, 4, btree_split, 4)
  /\ Flat(xl_btree_unlink_page, 8, btree_unlink, 8) /\ Flat(CheckPoint, 19, checkpoint, 19)
  /\ Full(xl_heap_header, parse_xl_heap_header) /\ Bare(parse_xl_heap_header)
<1>1. Flat(Locator, 3, Locator, 3) /\ Flat(xl_heap_lock, 4, heap_lock, 4)
  BY Echoes DEF Flat, Tuple, Locator, heap_lock, xl_heap_lock
<1>2. Flat(xl_btree_metadata, 7, parse_btree_metadata, 7) /\ Flat(xl_btree_split, 4, btree_split, 4)
  BY Echoes DEF Flat, Tuple, parse_btree_metadata, btree_split, xl_btree_metadata, xl_btree_split
<1>3. Flat(xl_btree_unlink_page, 8, btree_unlink, 8)
  BY Echoes DEF Flat, Tuple, btree_unlink, xl_btree_unlink_page
<1>4. Flat(CheckPoint, 19, checkpoint, 19) BY Echoes DEF Flat, Tuple, CheckPoint, checkpoint
<1>5. Full(xl_heap_header, parse_xl_heap_header) /\ Bare(parse_xl_heap_header)
  <2> DEFINE c == Room(5)
             a == [on |-> "inside"]
             p == <<flags("t_infomask2", 2, decode_t_infomask2),
                    flags("t_infomask", 2, decode_t_infomask), u8("t_hoff")>>
             s == <<bits("t_infomask2", 2), bits("t_infomask", 2), u8("t_hoff")>>
  <2>1. parse_xl_heap_header = If(c, p) /\ xl_heap_header = Part("part", a, s)
    BY PartIs DEF parse_xl_heap_header, xl_heap_header
  <2>2. c.on # "bits" /\ Suits(a, c) BY DEF Room, Suits, Metadata
  <2>3. Flat(s, 3, p, 3) BY Echoes DEF Flat, Tuple
  <2> HIDE DEF c, p, s, a
  <2> QED BY <2>1, <2>2, <2>3, Flats, FullPart, BareIf
<1> QED BY <1>1, <1>2, <1>3, <1>4, <1>5

\* Resource manager by resource manager.
LEMMA LikeXlog == AlikeAll(xlog_structures, describe_xlog_main, {}) /\ BareAll(describe_xlog_main, {})
<1> DEFINE T == describe_xlog_main
           S == xlog_structures
<1>1. Flat(S.NEXTOID, 1, T.NEXTOID, 1) /\ Flat(S.BACKUP_END, 1, T.BACKUP_END, 1)
      /\ Flat(S.FPW_CHANGE, 1, T.FPW_CHANGE, 1)
  BY Echoes DEF Flat, Tuple, describe_xlog_main, xlog_structures
<1>2. Flat(S.PARAMETER_CHANGE, 8, T.PARAMETER_CHANGE, 8)
  BY Echoes DEF Flat, Tuple, describe_xlog_main, xlog_structures
<1>3. Flat(S.RESTORE_POINT, 2, T.RESTORE_POINT, 2) /\ Flat(S.END_OF_RECOVERY, 4, T.END_OF_RECOVERY, 4)
      /\ Flat(S.OVERWRITE_CONTRECORD, 2, T.OVERWRITE_CONTRECORD, 2)
  BY Echoes DEF Flat, Tuple, describe_xlog_main, xlog_structures
<1>4. /\ T.CHECKPOINT_SHUTDOWN = checkpoint /\ T.CHECKPOINT_ONLINE = checkpoint
      /\ S.CHECKPOINT_SHUTDOWN = CheckPoint /\ S.CHECKPOINT_ONLINE = CheckPoint
  BY DEF describe_xlog_main, xlog_structures
<1>5. DOMAIN S = DOMAIN T BY DEF describe_xlog_main, xlog_structures
<1> HIDE DEF T, S
<1>6. \A op \in DOMAIN T : Alike(S[op], T[op]) /\ Bare(T[op])
  BY <1>1, <1>2, <1>3, <1>4, XlogOperations, LikeParts, Flats DEF T
<1> QED BY <1>5, <1>6 DEF T, S, AlikeAll, BareAll

LEMMA LikeSmgr == AlikeAll(smgr_structures, describe_smgr_main, {}) /\ BareAll(describe_smgr_main, {})
<1> DEFINE T == describe_smgr_main
           S == smgr_structures
           x == <<u32("forkNum")>>
           y == <<u32("blkno")>>
           z == <<flags("flags", 4, decode_smgr_truncate_flags)>>
           zs == <<bits("flags", 4)>>
<1>1. /\ T.CREATE = Locator \o x /\ T.TRUNCATE = y \o Locator \o z /\ DOMAIN T = {"CREATE", "TRUNCATE"}
      /\ S.CREATE = Locator \o x /\ S.TRUNCATE = y \o Locator \o zs /\ DOMAIN S = {"CREATE", "TRUNCATE"}
  BY DEF describe_smgr_main, smgr_structures
<1>2. Flat(x, 1, x, 1) /\ Flat(y, 1, y, 1) /\ Flat(zs, 1, z, 1) BY Echoes DEF Flat, Tuple
<1> HIDE DEF T, S, x, y, z, zs
<1>3. /\ Bare(x) /\ Bare(y) /\ Bare(z) /\ Bare(Locator)
      /\ Full(x, x) /\ Full(y, y) /\ Full(zs, z) /\ Full(Locator, Locator)
  BY <1>2, Flats, LikeParts
<1>4. /\ Bare(Locator \o x) /\ Bare(y \o Locator)
      /\ Full(Locator \o x, Locator \o x) /\ Full(y \o Locator, y \o Locator)
  BY <1>3, BareJoin, FullJoin
<1>5. Bare(y \o Locator \o z) /\ Full(y \o Locator \o zs, y \o Locator \o z)
  BY <1>3, <1>4, BareJoin, FullJoin
<1> QED BY <1>1, <1>4, <1>5, FullIsAlike DEF T, S, AlikeAll, BareAll

LEMMA LikeSmall ==
  /\ AlikeAll(clog_structures, describe_clog_main, {}) /\ BareAll(describe_clog_main, {})
  /\ AlikeAll(relmap_structures, describe_relmap_main, {}) /\ BareAll(describe_relmap_main, {})
  /\ AlikeAll(tablespace_structures, describe_tablespace_main, {}) /\ BareAll(describe_tablespace_main, {})
  /\ AlikeAll(replorigin_structures, describe_replorigin_main, {}) /\ BareAll(describe_replorigin_main, {})
  /\ AlikeAll(logical_msg_structures, describe_logical_msg_main, {}) /\ BareAll(describe_logical_msg_main, {})
<1>1. /\ Flat(clog_structures.ZEROPAGE, 1, describe_clog_main.ZEROPAGE, 1)
      /\ Flat(clog_structures.TRUNCATE, 3, describe_clog_main.TRUNCATE, 3)
      /\ DOMAIN describe_clog_main = {"ZEROPAGE", "TRUNCATE"} /\ DOMAIN clog_structures = {"ZEROPAGE", "TRUNCATE"}
  BY Echoes DEF Flat, Tuple, describe_clog_main, clog_structures
<1>2. /\ Flat(relmap_structures.UPDATE, 4, describe_relmap_main.UPDATE, 3)
      /\ DOMAIN describe_relmap_main = {"UPDATE"} /\ DOMAIN relmap_structures = {"UPDATE"}
  BY Echoes, Extras DEF Flat, Tuple, describe_relmap_main, relmap_structures
<1>3. /\ Flat(tablespace_structures.CREATE, 2, describe_tablespace_main.CREATE, 2)
      /\ Flat(tablespace_structures.DROP, 1, describe_tablespace_main.DROP, 1)
      /\ DOMAIN describe_tablespace_main = {"CREATE", "DROP"} /\ DOMAIN tablespace_structures = {"CREATE", "DROP"}
  BY Echoes DEF Flat, Tuple, describe_tablespace_main, tablespace_structures
<1>4. /\ Flat(replorigin_structures.SET, 3, describe_replorigin_main.SET, 3)
      /\ Flat(replorigin_structures.DROP, 1, describe_replorigin_main.DROP, 1)
      /\ DOMAIN describe_replorigin_main = {"SET", "DROP"} /\ DOMAIN replorigin_structures = {"SET", "DROP"}
  BY Echoes DEF Flat, Tuple, describe_replorigin_main, replorigin_structures
<1>5. /\ Flat(logical_msg_structures.MESSAGE, 7, describe_logical_msg_main.MESSAGE, 6)
      /\ DOMAIN describe_logical_msg_main = {"MESSAGE"} /\ DOMAIN logical_msg_structures = {"MESSAGE"}
  BY Echoes, Extras DEF Flat, Tuple, describe_logical_msg_main, logical_msg_structures
<1> QED BY <1>1, <1>2, <1>3, <1>4, <1>5, Flats DEF AlikeAll, BareAll

LEMMA LikeCounted ==
  /\ AlikeAll(database_structures, describe_database_main, {}) /\ BareAll(describe_database_main, {})
  /\ AlikeAll(multixact_structures, describe_multixact_main, {}) /\ BareAll(describe_multixact_main, {})
  /\ AlikeAll(standby_structures, describe_standby_main, {}) /\ BareAll(describe_standby_main, {})
<1>1. LET T == describe_database_main
          S == database_structures
      IN  /\ Flat(S.CREATE_FILE_COPY, 4, T.CREATE_FILE_COPY, 4)
          /\ Flat(S.CREATE_WAL_LOG, 2, T.CREATE_WAL_LOG, 2) /\ Flat(S.DROP, 3, T.DROP, 3)
          /\ DOMAIN T = {"CREATE_FILE_COPY", "CREATE_WAL_LOG", "DROP"} /\ DOMAIN S = DOMAIN T
  BY Echoes, ArrayEchoes DEF Flat, Tuple, describe_database_main, database_structures
<1>2. LET T == describe_multixact_main
          S == multixact_structures
      IN  /\ Flat(S.ZERO_OFF_PAGE, 1, T.ZERO_OFF_PAGE, 1) /\ Flat(S.ZERO_MEM_PAGE, 1, T.ZERO_MEM_PAGE, 1)
          /\ Flat(S.CREATE_ID, 4, T.CREATE_ID, 4) /\ Flat(S.TRUNCATE_ID, 5, T.TRUNCATE_ID, 5)
          /\ DOMAIN T = {"ZERO_OFF_PAGE", "ZERO_MEM_PAGE", "CREATE_ID", "TRUNCATE_ID"} /\ DOMAIN S = DOMAIN T
  BY Echoes, ArrayEchoes DEF Flat, Tuple, describe_multixact_main, multixact_structures
<1>3. LET T == describe_standby_main
          S == standby_structures
      IN  /\ Flat(S.LOCK, 2, T.LOCK, 2) /\ Flat(S.RUNNING_XACTS, 8, T.RUNNING_XACTS, 8)
          /\ Flat(S.INVALIDATIONS, 6, T.INVALIDATIONS, 5)
          /\ DOMAIN T = {"LOCK", "RUNNING_XACTS", "INVALIDATIONS"} /\ DOMAIN S = DOMAIN T
  BY Echoes, ArrayEchoes, Extras DEF Flat, Tuple, describe_standby_main, standby_structures
<1> QED BY <1>1, <1>2, <1>3, Flats DEF AlikeAll, BareAll

LEMMA LikeHeap2 ==
  /\ AlikeAll(heap2_structures, describe_heap2_main, {}) /\ BareAll(describe_heap2_main, {prune})
  /\ Alike(<<units("block data", 1)>>, describe_heap2_block_data) /\ Bare(describe_heap2_block_data)
<1> DEFINE T == describe_heap2_main
           S == heap2_structures
           x == <<flags("flags", 1, decode_heap_insert_flags), skip(1), size("ntuples", 2)>>
           xs == <<bits("flags", 1), skip(1), size("ntuples", 2)>>
           y == <<array("offsets", 2, 1, {"ntuples"}, 16, "clamped")>>
           ys == <<elements("offsets", 2, 1, {"ntuples"})>>
           c == Info80(FALSE)
           u == <<u32("top_xid"), u32("cmin"), u32("cmax"), u32("combocid")>>
           v == <<u16("bi_hi"), u16("bi_lo"), u16("posid")>>
           z == <<u8("reason"), flags("flags", 1, fmt_prune_flags)>>
           zs == <<u8("reason"), bits("flags", 1)>>
           d == Bits("flags", {3})
           h == <<u32("conflict_horizon")>>
<1>1. Flat(S.REWRITE, 9, T.REWRITE, 8) /\ Flat(S.VISIBLE, 2, T.VISIBLE, 2)
  BY Echoes, Extras DEF Flat, Tuple, describe_heap2_main, heap2_structures
<1>2. /\ T.PRUNE_ON_ACCESS = prune /\ T.PRUNE_VACUUM_SCAN = prune /\ T.PRUNE_VACUUM_CLEANUP = prune
      /\ T.MULTI_INSERT = x \o If(c, y) /\ T.LOCK_UPDATED = heap_lock /\ T.NEW_CID = u \o Locator \o v
      /\ DOMAIN T = {"REWRITE", "PRUNE_ON_ACCESS", "PRUNE_VACUUM_SCAN", "PRUNE_VACUUM_CLEANUP",
                     "VISIBLE", "MULTI_INSERT", "LOCK_UPDATED", "NEW_CID"}
  BY DEF describe_heap2_main
<1>3. /\ S.PRUNE_ON_ACCESS = xl_heap_prune /\ S.PRUNE_VACUUM_SCAN = xl_heap_prune
      /\ S.PRUNE_VACUUM_CLEANUP = xl_heap_prune /\ S.MULTI_INSERT = xs \o If(c, ys)
      /\ S.LOCK_UPDATED = xl_heap_lock /\ S.NEW_CID = u \o Locator \o v
      /\ DOMAIN S = {"REWRITE", "PRUNE_ON_ACCESS", "PRUNE_VACUUM_SCAN", "PRUNE_VACUUM_CLEANUP",
                     "VISIBLE", "MULTI_INSERT", "LOCK_UPDATED", "NEW_CID"}
  BY DEF heap2_structures
<1>4. prune = z \o If(d, h) /\ xl_heap_prune = zs \o If(d, h) BY DEF prune, xl_heap_prune
<1>5. /\ Flat(xs, 3, x, 3) /\ Flat(ys, 1, y, 1) /\ Flat(u, 4, u, 4) /\ Flat(v, 3, v, 3)
      /\ Flat(zs, 2, z, 2) /\ Flat(h, 1, h, 1)
  BY Echoes, ArrayEchoes DEF Flat, Tuple
<1>6. c.on # "bits" /\ Suits(c, c) /\ Suits(d, d) BY DEF Info80, Bits, Suits
<1>7. Flat(<<units("block data", 1)>>, 1, describe_heap2_block_data, 1)
  BY FlatOne, RestEchoes, Zenon DEF describe_heap2_block_data
<1> HIDE DEF T, S, x, xs, y, ys, c, u, v, z, zs, d, h
<1>8. Bare(x \o If(c, y)) /\ Bare(u \o Locator \o v)
  BY <1>5, <1>6, LikeParts, Flats, BareIf, BareJoin
<1>9. /\ Full(zs \o If(d, h), z \o If(d, h)) /\ Full(xs \o If(c, ys), x \o If(c, y))
      /\ Full(u \o Locator \o v, u \o Locator \o v)
  <2>1. Full(If(d, h), If(d, h)) /\ Full(If(c, ys), If(c, y)) BY <1>5, <1>6, Flats, FullPart, PartIs
  <2>2. Full(u, u) /\ Full(Locator, Locator) /\ Full(xs, x) /\ Full(zs, z) /\ Full(v, v)
    BY <1>5, LikeParts, Flats
  <2>3. Full(u \o Locator \o v, u \o Locator \o v)
    <3>1. Full(u \o Locator, u \o Locator) BY <2>2, FullJoin
    <3> QED BY <2>2, <3>1, FullJoin
  <2>4. Full(zs \o If(d, h), z \o If(d, h)) BY <2>1, <2>2, FullJoin
  <2>5. Full(xs \o If(c, ys), x \o If(c, y)) BY <2>1, <2>2, FullJoin
  <2> QED BY <2>3, <2>4, <2>5
<1>10. AlikeAll(S, T, {})
  <2>1. Alike(S.REWRITE, T.REWRITE) /\ Alike(S.VISIBLE, T.VISIBLE) BY <1>1, Flats
  <2>2. Alike(S.MULTI_INSERT, T.MULTI_INSERT) /\ Alike(S.NEW_CID, T.NEW_CID) BY <1>2, <1>3, <1>9, FullIsAlike
  <2>3. Alike(xl_heap_prune, prune) BY <1>4, <1>9, FullIsAlike
  <2>4. Alike(S.LOCK_UPDATED, T.LOCK_UPDATED) BY <1>2, <1>3, LikeParts, Flats
  <2> QED BY <1>2, <1>3, <2>1, <2>2, <2>3, <2>4 DEF AlikeAll
<1>11. BareAll(T, {prune}) BY <1>1, <1>2, <1>8, LikeParts, Flats DEF BareAll
<1> QED BY <1>7, <1>10, <1>11, Flats DEF T, S

LEMMA LikeHeap ==
  /\ AlikeAll(heap_structures, describe_heap_main, {})
  /\ BareAll(describe_heap_main, {heap_update, describe_heap_main.DELETE})
<1> DEFINE T == describe_heap_main
           S == heap_structures
           H == parse_xl_heap_header
           Hs == xl_heap_header
           x == <<u32("xmax"), u16("offnum"), flags("infobits_set", 1, decode_infobits),
                  flags("flags", 1, decode_heap_delete_flags)>>
           xs == <<u32("xmax"), u16("offnum"), bits("infobits_set", 1), bits("flags", 1)>>
           y == <<u32("old_xmax"), u16("old_offnum"), flags("old_infobits_set", 1, decode_infobits),
                  flags("flags", 1, decode_heap_update_flags), u32("new_xmax"), u16("new_offnum")>>
           ys == <<u32("old_xmax"), u16("old_offnum"), bits("old_infobits_set", 1), bits("flags", 1),
                   u32("new_xmax"), u16("new_offnum")>>
           c == Bits("flags", {1, 2})
           d == Bits("flags", {2, 3})
           e(b) == If(b, <<units("old tuple", 1)>>)
<1>1. Flat(S.INSERT, 2, T.INSERT, 2) /\ Flat(S.CONFIRM, 1, T.CONFIRM, 1)
  BY Echoes DEF Flat, Tuple, describe_heap_main, heap_structures
<1>2. Flat(S.TRUNCATE, 5, T.TRUNCATE, 5)
  BY Echoes, ArrayEchoes DEF Flat, Tuple, describe_heap_main, heap_structures
<1>3. Flat(S.INPLACE, 8, T.INPLACE, 7)
  BY Echoes, Extras DEF Flat, Tuple, describe_heap_main, heap_structures
<1>4. /\ T.LOCK = heap_lock /\ T.UPDATE = heap_update /\ T.HOT_UPDATE = heap_update
      /\ T.DELETE = x \o If(c, H)
      /\ DOMAIN T = {"INSERT", "DELETE", "UPDATE", "HOT_UPDATE", "TRUNCATE", "CONFIRM", "LOCK", "INPLACE"}
  BY DEF describe_heap_main
<1>5. /\ S.LOCK = xl_heap_lock /\ S.UPDATE = xl_heap_update /\ S.HOT_UPDATE = xl_heap_update
      /\ S.DELETE = xs \o If(c, Hs) \o e(c)
      /\ DOMAIN S = {"INSERT", "DELETE", "UPDATE", "HOT_UPDATE", "TRUNCATE", "CONFIRM", "LOCK", "INPLACE"}
  BY DEF heap_structures
<1>6. heap_update = y \o If(d, H) /\ xl_heap_update = ys \o If(d, Hs) \o e(d)
  BY DEF heap_update, xl_heap_update
<1>7. Flat(xs, 4, x, 4) /\ Flat(ys, 6, y, 6) BY Echoes DEF Flat, Tuple
<1>8. Suits(c, c) /\ Suits(d, d) BY DEF Bits, Suits
<1>9. ASSUME NEW b PROVE IsSeq(e(b)) /\ Len(e(b)) = 2 /\ \A k \in 1 .. 2 : Extra(e(b)[k])
  <2> DEFINE g == units("old tuple", 1)
             f == [kind |-> "if", name |-> "part", width |-> 0, cond |-> b, jump |-> Len(<<g>>)]
  <2>1. e(b) = <<f>> \o <<g>> /\ Extra(f) /\ Extra(g) BY Extras DEF Extra, If
  <2> HIDE DEF e, f, g
  <2>2. /\ IsSeq(<<f>> \o <<g>>) /\ Len(<<f>> \o <<g>>) = 2
        /\ (<<f>> \o <<g>>)[1] = f /\ (<<f>> \o <<g>>)[1 + 1] = g
    <3> DEFINE fs == <<f>>
               gs == <<g>>
    <3>1. IsSeq(fs) /\ Len(fs) = 1 /\ fs[1] = f /\ IsSeq(gs) /\ Len(gs) = 1 /\ gs[1] = g BY SeqOne
    <3> HIDE DEF fs, gs
    <3>2. 1 \in 1 .. 1 OBVIOUS
    <3>3. IsSeq(fs \o gs) /\ Len(fs \o gs) = 2 /\ (fs \o gs)[1] = f /\ (fs \o gs)[1 + 1] = g
      <4>1. /\ IsSeq(fs \o gs) /\ Len(fs \o gs) = 1 + Len(gs) /\ (fs \o gs)[1] = fs[1]
            /\ \A k \in 1 .. Len(gs) : (fs \o gs)[1 + k] = gs[k]
        BY <3>1, SeqCons, Zenon
      <4>2. 1 \in 1 .. Len(gs) /\ 1 + Len(gs) = 2 BY <3>1
      <4> QED BY <3>1, <4>1, <4>2
    <3> QED BY <3>3 DEF fs, gs
  <2> DEFINE r == <<f>> \o <<g>>
  <2> HIDE DEF r
  <2>3. IsSeq(r) /\ Len(r) = 2 /\ r[1] = f /\ r[2] = g BY <2>2 DEF r
  <2>4. e(b) = r BY <2>1 DEF r
  <2>5. \A k \in 1 .. 2 : Extra(r[k])
    <3>1. \A k \in 1 .. 2 : k = 1 \/ k = 2 OBVIOUS
    <3> QED BY <2>1, <2>3, <3>1
  <2> QED BY <2>3, <2>4, <2>5
<1> HIDE DEF T, S, H, Hs, x, xs, y, ys, c, d, e
<1>10. Full(xs \o If(c, Hs), x \o If(c, H)) /\ Full(ys \o If(d, Hs), y \o If(d, H))
  <2>1. Full(If(c, Hs), If(c, H)) /\ Full(If(d, Hs), If(d, H))
    BY <1>8, LikeParts, FullPart, PartIs DEF H, Hs
  <2> QED BY <1>7, <2>1, Flats, FullJoin
<1>11. Alike(S.DELETE, T.DELETE) /\ Alike(S.UPDATE, T.UPDATE) /\ Alike(S.HOT_UPDATE, T.HOT_UPDATE)
  <2>1. \A b : \E n \in {1, 2} : IsSeq(e(b)) /\ Len(e(b)) = n /\ \A k \in 1 .. n : Extra(e(b)[k])
    BY <1>9
  <2> QED BY <1>4, <1>5, <1>6, <1>10, <2>1, AlikeMore
<1>12. AlikeAll(S, T, {}) BY <1>1, <1>2, <1>3, <1>4, <1>5, <1>11, LikeParts, Flats DEF AlikeAll
<1>13. BareAll(T, {heap_update, T.DELETE}) BY <1>1, <1>2, <1>3, <1>4, LikeParts, Flats DEF BareAll
<1> QED BY <1>12, <1>13 DEF T, S

LEMMA LikeHeapBlock ==
  /\ AlikeAll(heap_block_structures, describe_heap_block_data, {})
  /\ BareAll(describe_heap_block_data, {heap_new_tuple})
<1> DEFINE B == describe_heap_block_data
           S == heap_block_structures
           H == parse_xl_heap_header
           Hs == xl_heap_header
           x == <<rest("tuple data", 1, FALSE)>>
           xs == <<units("tuple data", 1)>>
           y == <<rest("new tuple data", 1, FALSE)>>
           ys == <<units("new tuple data", 1)>>
           c == Bits("flags", {5})
           d == Bits("flags", {6})
           p == <<indexed("prefix_from_old")>>
           q == <<indexed("suffix_from_old")>>
<1>1. B.INSERT = H \o x /\ B.UPDATE = heap_new_tuple /\ B.HOT_UPDATE = heap_new_tuple
      /\ DOMAIN B = {"INSERT", "UPDATE", "HOT_UPDATE"}
  BY DEF describe_heap_block_data
<1>2. S.INSERT = Hs \o xs /\ S.UPDATE = xl_heap_new_tuple /\ S.HOT_UPDATE = xl_heap_new_tuple
      /\ DOMAIN S = {"INSERT", "UPDATE", "HOT_UPDATE"}
  BY DEF heap_block_structures
<1>3. /\ heap_new_tuple = If(c, p) \o If(d, q) \o H \o y
      /\ xl_heap_new_tuple = If(c, p) \o If(d, q) \o Hs \o ys
  BY DEF heap_new_tuple, xl_heap_new_tuple
<1>4. Flat(xs, 1, x, 1) /\ Flat(ys, 1, y, 1) /\ Flat(p, 1, p, 1) /\ Flat(q, 1, q, 1)
  <2>1. Flat(xs, 1, x, 1) /\ Flat(ys, 1, y, 1) BY FlatOne, RestEchoes, Zenon
  <2>2. Flat(p, 1, p, 1) /\ Flat(q, 1, q, 1) BY Echoes DEF Flat, Tuple
  <2> QED BY <2>1, <2>2, Zenon
<1>5. Suits(c, c) /\ Suits(d, d) BY DEF Bits, Suits
<1> HIDE DEF B, S, H, Hs, x, xs, y, ys, c, d, p, q
<1>6. /\ Full(If(c, p), If(c, p)) /\ Full(If(d, q), If(d, q)) /\ Full(Hs, H)
      /\ Full(xs, x) /\ Full(ys, y) /\ Bare(H) /\ Bare(x)
  BY <1>4, <1>5, Flats, FullPart, PartIs, LikeParts DEF H, Hs
<1>7. Full(If(c, p) \o If(d, q) \o Hs \o ys, If(c, p) \o If(d, q) \o H \o y) /\ Full(Hs \o xs, H \o x)
  <2>1. Full(If(c, p) \o If(d, q), If(c, p) \o If(d, q)) BY <1>6, FullJoin
  <2>2. Full(If(c, p) \o If(d, q) \o Hs, If(c, p) \o If(d, q) \o H) BY <1>6, <2>1, FullJoin
  <2> QED BY <1>6, <2>2, FullJoin
<1>8. AlikeAll(S, B, {}) BY <1>1, <1>2, <1>3, <1>7, FullIsAlike DEF AlikeAll
<1>9. BareAll(B, {heap_new_tuple}) BY <1>1, <1>6, BareJoin DEF BareAll
<1> QED BY <1>8, <1>9 DEF B, S

LEMMA LikeBtree ==
  /\ AlikeAll(btree_structures, describe_btree_main, {"UNLINK_PAGE_META", "META_CLEANUP"})
  /\ BareAll(describe_btree_main, {})
<1> DEFINE T == describe_btree_main
           S == btree_structures
           M == parse_btree_metadata
           x == <<u16("offnum")>>
           c == Room(28)
           a == [on |-> "block"]
           r == <<u32("block"), u64("snapshotConflictHorizon"), u8("isCatalogRel")>>
<1>1. Flat(S.INSERT_LEAF, 1, T.INSERT_LEAF, 1) /\ Flat(S.INSERT_UPPER, 1, T.INSERT_UPPER, 1)
      /\ Flat(S.INSERT_POST, 1, T.INSERT_POST, 1)
  BY Echoes DEF Flat, Tuple, describe_btree_main, btree_structures
<1>2. Flat(S.DEDUP, 1, T.DEDUP, 1) /\ Flat(S.DELETE, 4, T.DELETE, 4) /\ Flat(S.VACUUM, 2, T.VACUUM, 2)
  BY Echoes DEF Flat, Tuple, describe_btree_main, btree_structures
<1>3. Flat(S.MARK_PAGE_HALFDEAD, 6, T.MARK_PAGE_HALFDEAD, 6) /\ Flat(S.NEWROOT, 2, T.NEWROOT, 2)
  BY Echoes DEF Flat, Tuple, describe_btree_main, btree_structures
<1>4. /\ T.INSERT_META = x \o If(c, M) /\ T.SPLIT_L = btree_split /\ T.SPLIT_R = btree_split
      /\ T.UNLINK_PAGE = btree_unlink /\ T.UNLINK_PAGE_META = btree_unlink \o M
      /\ T.REUSE_PAGE = Locator \o r /\ T.META_CLEANUP = M
  BY DEF describe_btree_main
<1>5. /\ S.INSERT_META = x \o InBlock(xl_btree_metadata) /\ S.SPLIT_L = xl_btree_split
      /\ S.SPLIT_R = xl_btree_split /\ S.UNLINK_PAGE = xl_btree_unlink_page
      /\ S.REUSE_PAGE = Locator \o r /\ DOMAIN S = DOMAIN T
  BY DEF btree_structures, describe_btree_main
<1>6. Flat(x, 1, x, 1) /\ Flat(r, 3, r, 3) BY Echoes DEF Flat, Tuple
<1>7. c.on = "room" /\ c.bytes = Metadata BY DEF Room, Metadata
<1>8. Full(xl_btree_metadata, M) /\ Bare(M) /\ Bare(btree_unlink) /\ Full(Locator, Locator) /\ Bare(Locator)
  BY LikeParts, Flats
<1> HIDE DEF T, S, M, x, c, r
<1>9. Alike(S.INSERT_META, T.INSERT_META)
  <2> DEFINE g == [kind |-> "if", name |-> "part", width |-> 0, cond |-> c, jump |-> Len(M)]
             h == [kind |-> "if", name |-> "part", width |-> 0, cond |-> a, jump |-> Len(xl_btree_metadata)]
             p == <<g>> \o M
             s == <<h>> \o xl_btree_metadata
             m == Len(M)
  <2>1. T.INSERT_META = x \o p /\ S.INSERT_META = x \o s BY <1>4, <1>5, PartIs DEF Part, If
  <2>2. /\ IsSeq(M) /\ IsSeq(xl_btree_metadata) /\ Len(xl_btree_metadata) = m /\ m \in Nat
        /\ \A k \in 1 .. m : Pair(xl_btree_metadata[k], M[k])
    BY <1>8, SeqLen DEF Full
  <2>3. IsSeq(x) /\ Len(x) = 1 /\ Pair(x[1], x[1])
    <3>1. 1 \in 1 .. 1 OBVIOUS
    <3> QED BY <1>6, <3>1, SeqIs DEF Flat, Tuple, Echo
  <2>4. /\ g.kind = "if" /\ h.kind = "if" /\ h.name = "part" /\ g.width = h.width /\ g.cond = c
        /\ h.cond.on = "block" /\ h.jump = g.jump
    BY <2>2
  <2> HIDE DEF g, h, m
  <2>5. /\ IsSeq(p) /\ Len(p) = 1 + m /\ p[1] = g /\ \A k \in 1 .. m : p[1 + k] = M[k]
        /\ IsSeq(s) /\ Len(s) = 1 + m /\ s[1] = h /\ \A k \in 1 .. m : s[1 + k] = xl_btree_metadata[k]
    <3>1. 1 \in 1 .. 1 OBVIOUS
    <3> QED BY <2>2, <3>1, SeqOne, SeqJoin DEF m
  <2> HIDE DEF p, s
  <2>6. /\ IsSeq(x \o p) /\ Len(x \o p) = 2 + m /\ (x \o p)[1] = x[1] /\ (x \o p)[2] = g
        /\ \A k \in 1 .. m : (x \o p)[2 + k] = M[k]
    <3>1. /\ 1 \in 1 .. 1 /\ 1 \in 1 .. 1 + m /\ 1 + (1 + m) = 2 + m
          /\ \A k \in 1 .. m : 1 + k \in 1 .. 1 + m /\ 1 + (1 + k) = 2 + k
      BY <2>2
    <3>2. IsSeq(x \o p) /\ Len(x \o p) = 1 + (1 + m) /\ (x \o p)[1] = x[1]
          /\ \A k \in 1 .. 1 + m : (x \o p)[1 + k] = p[k]
      <4>1. IsSeq(x) /\ Len(x) = 1 BY <2>3
      <4>2. IsSeq(p) /\ Len(p) = 1 + m BY <2>5
      <4> QED BY <4>1, <4>2, SeqCons
    <3> QED BY <2>5, <3>1, <3>2
  <2>7. /\ IsSeq(x \o s) /\ Len(x \o s) = 2 + m /\ (x \o s)[1] = x[1] /\ (x \o s)[2] = h
        /\ \A k \in 1 .. m : (x \o s)[2 + k] = xl_btree_metadata[k]
    <3>1. /\ 1 \in 1 .. 1 /\ 1 \in 1 .. 1 + m /\ 1 + (1 + m) = 2 + m
          /\ \A k \in 1 .. m : 1 + k \in 1 .. 1 + m /\ 1 + (1 + k) = 2 + k
      BY <2>2
    <3>2. IsSeq(x \o s) /\ Len(x \o s) = 1 + (1 + m) /\ (x \o s)[1] = x[1]
          /\ \A k \in 1 .. 1 + m : (x \o s)[1 + k] = s[k]
      <4>1. IsSeq(x) /\ Len(x) = 1 BY <2>3
      <4>2. IsSeq(s) /\ Len(s) = 1 + m BY <2>5
      <4> QED BY <4>1, <4>2, SeqCons
    <3> QED BY <2>5, <3>1, <3>2
  <2>8. ASSUME NEW k \in 1 .. 2 + m PROVE Pair((x \o s)[k], (x \o p)[k]) \/ Page(x \o s, x \o p, k)
    <3>1. CASE k = 1 BY <2>3, <2>6, <2>7, <3>1
    <3>2. CASE k = 2 BY <1>7, <2>4, <2>6, <2>7, <3>2 DEF Page
    <3>3. CASE k > 2
      <4>1. k - 2 \in 1 .. m /\ k = 2 + (k - 2) BY <2>2, <3>3
      <4>2. PICK i \in 1 .. m : k = 2 + i BY <4>1
      <4>3. (x \o s)[k] = xl_btree_metadata[i] /\ (x \o p)[k] = M[i] BY <2>6, <2>7, <4>2
      <4>4. Pair(xl_btree_metadata[i], M[i]) BY <2>2
      <4> QED BY <4>3, <4>4
    <3>4. k = 1 \/ k = 2 \/ k > 2 BY <2>2
    <3> QED BY <3>1, <3>2, <3>3, <3>4, Zenon
  <2>9. \A k \in 2 + m + 1 .. 2 + m : FALSE BY <2>2
  <2> QED BY <2>1, <2>6, <2>7, <2>8, <2>9 DEF Alike
<1>10. Alike(S.REUSE_PAGE, T.REUSE_PAGE) BY <1>4, <1>5, <1>6, <1>8, Flats, FullJoin, FullIsAlike
<1>11. AlikeAll(S, T, {"UNLINK_PAGE_META", "META_CLEANUP"})
  BY <1>1, <1>2, <1>3, <1>4, <1>5, <1>9, <1>10, BtreeOperations, LikeParts, Flats DEF AlikeAll, T
<1>12. Bare(x \o If(c, M)) /\ Bare(btree_unlink \o M) /\ Bare(Locator \o r)
  BY <1>6, <1>7, <1>8, Flats, BareIf, BareJoin
<1>13. BareAll(T, {}) BY <1>1, <1>2, <1>3, <1>4, <1>8, <1>12, BtreeOperations, LikeParts, Flats DEF BareAll, T
<1> QED BY <1>11, <1>13 DEF T, S

LEMMA LikeSequence == AlikeAll(sequence_structures, describe_seq_main, {}) /\ BareAll(describe_seq_main, {})
<1> DEFINE x == <<rest("tuple data", 1, TRUE)>>
           xs == <<units("tuple data", 1)>>
<1>1. /\ describe_seq_main.LOG = Locator \o x /\ DOMAIN describe_seq_main = {"LOG"}
      /\ sequence_structures.LOG = Locator \o xs /\ DOMAIN sequence_structures = {"LOG"}
  BY DEF describe_seq_main, sequence_structures
<1>2. Flat(xs, 1, x, 1) BY FlatOne, RestEchoes, Zenon
<1> HIDE DEF x, xs
<1>3. Bare(Locator \o x) /\ Alike(Locator \o xs, Locator \o x)
  BY <1>2, LikeParts, Flats, BareJoin, FullJoin, FullIsAlike
<1> QED BY <1>1, <1>3 DEF AlikeAll, BareAll

LEMMA LikeCommitTs ==
  AlikeAll(commit_ts_structures, describe_commit_ts_main, {"ZEROPAGE"}) /\ BareAll(describe_commit_ts_main, {})
<1> DEFINE T == describe_commit_ts_main
           c == Room(14)
           a == units("subxids", 4)
           b == rest("subxids", 4, FALSE)
           p == <<time("timestamp"), u16("nodeid"), skip(2), u32("mainxid"), b>>
           q == <<time("timestamp"), u16("nodeid"), skip(2), u32("mainxid"), a>>
<1>1. T.ZEROPAGE = If(c, p) /\ DOMAIN T = {"ZEROPAGE", "TRUNCATE"} /\ c.on # "bits"
      /\ DOMAIN commit_ts_structures = {"ZEROPAGE", "TRUNCATE"}
  BY DEF describe_commit_ts_main, commit_ts_structures, Room
<1>2. Flat(commit_ts_structures.TRUNCATE, 2, T.TRUNCATE, 2)
  BY Echoes DEF Flat, Tuple, describe_commit_ts_main, commit_ts_structures
<1>3. Flat(q, 5, p, 5)
  <2>1. Echo(a, b) BY RestEchoes
  <2> HIDE DEF a, b
  <2> QED BY <2>1, Echoes DEF Flat, Tuple
<1> HIDE DEF T, c, p, q
<1>4. Bare(If(c, p)) BY <1>1, <1>3, Flats, BareIf
<1> QED BY <1>1, <1>2, <1>4, Flats DEF T, AlikeAll, BareAll

LEMMA LikeXact ==
  /\ AlikeAll(xact_structures, describe_xact_main, {"PREPARE"})
  /\ BareAll(describe_xact_main, {xact_end(TRUE), xact_end(FALSE)})
<1> DEFINE T == describe_xact_main
           S == xact_structures
<1>1. Flat(T.PREPARE, 17, T.PREPARE, 17) BY Echoes DEF Flat, Tuple, describe_xact_main
<1>2. Flat(S.ASSIGNMENT, 3, T.ASSIGNMENT, 3) /\ Flat(S.INVALIDATION, 1, T.INVALIDATION, 1)
  <2> DEFINE n == "invalidation messages"
  <2>1. Flat(<<units(n, 1)>>, 1, <<rest(n, 1, TRUE)>>, 1) BY FlatOne, RestEchoes, Zenon
  <2>2. S.INVALIDATION = <<units(n, 1)>> /\ T.INVALIDATION = <<rest(n, 1, TRUE)>>
    BY DEF xact_structures, describe_xact_main
  <2> HIDE DEF n
  <2>3. Flat(S.ASSIGNMENT, 3, T.ASSIGNMENT, 3)
    BY Echoes, ArrayEchoes DEF Flat, Tuple, describe_xact_main, xact_structures
  <2> QED BY <2>1, <2>2, <2>3
<1>3. /\ DOMAIN T = {"COMMIT", "COMMIT_PREPARED", "ABORT", "ABORT_PREPARED", "PREPARE",
                     "ASSIGNMENT", "INVALIDATION"}
      /\ T.COMMIT = xact_end(TRUE) /\ T.COMMIT_PREPARED = xact_end(TRUE)
      /\ T.ABORT = xact_end(FALSE) /\ T.ABORT_PREPARED = xact_end(FALSE)
  BY DEF describe_xact_main
<1>4. /\ DOMAIN S = DOMAIN T
      /\ S.COMMIT = xl_xact(TRUE) /\ S.COMMIT_PREPARED = xl_xact(TRUE)
      /\ S.ABORT = xl_xact(FALSE) /\ S.ABORT_PREPARED = xl_xact(FALSE)
  BY DEF xact_structures, describe_xact_main
<1>5. ASSUME NEW b \in BOOLEAN PROVE Full(xl_xact(b), xact_end(b))
  <2> DEFINE c(i) == Bits("xinfo", {i})
             p0 == <<u32("dbId"), u32("tsId")>>
             p1 == <<count("nsubxacts"), array_over("subxid", 4, 1, {"nsubxacts"}, 8, "cast")>>
             s1 == <<count("nsubxacts"), elements("subxid", 4, 1, {"nsubxacts"})>>
             p2 == <<count("nrels"), array_over("rel", 4, 3, {"nrels"}, 8, "cast")>>
             s2 == <<count("nrels"), elements("rel", 4, 3, {"nrels"})>>
             p3 == <<u32("ninvals")>>
             s3 == <<count("ninvals")>>
             p4 == <<u32("2pc_xid")>>
             p7 == <<cstr("gid")>>
             p5 == <<u64("origin_lsn"), time("origin_ts")>>
             p8 == <<time("xact_time")>>
             p9 == <<Some(flags("xinfo", 4, decode_xact_xinfo))>>
             s9 == <<bits("xinfo", 4)>>
             v == IF b THEN "messages" ELSE "stats"
             P3 == IF b THEN If(c(3), p3) ELSE <<>>
             S3 == IF b THEN Behind("stats", c(3), s3) ELSE <<>>
             P == If(c(0), p0) \o If(c(1), p1) \o If(c(2), p2) \o P3 \o If(c(4), p4)
             Q == If(c(0), p0) \o If(c(1), s1) \o If(c(2), s2) \o S3 \o Behind(v, c(4), p4)
  <2>1. /\ parse_xact_subrecords(b) = P \o If(c(7), p7) \o If(c(5), p5)
        /\ xact_parts(b) = Q \o If(c(7), p7) \o If(c(5), p5)
    BY DEF parse_xact_subrecords, xact_parts
  <2>2. /\ xact_end(b) = p8 \o If(Info80(TRUE), p9 \o parse_xact_subrecords(b))
        /\ xl_xact(b) = p8 \o If(Info80(TRUE), s9 \o xact_parts(b))
    BY DEF xact_end, xl_xact
  <2>3. /\ Flat(p0, 2, p0, 2) /\ Flat(s1, 2, p1, 2) /\ Flat(s2, 2, p2, 2) /\ Flat(s3, 1, p3, 1)
        /\ Flat(p4, 1, p4, 1) /\ Flat(p7, 1, p7, 1) /\ Flat(p5, 2, p5, 2) /\ Flat(p8, 1, p8, 1)
        /\ Flat(s9, 1, p9, 1) /\ Flat(<<>>, 0, <<>>, 0)
    BY Echoes, ArrayEchoes DEF Flat, Tuple
  <2>4. (\A i : Suits(c(i), c(i))) /\ Suits(Info80(TRUE), Info80(TRUE)) BY DEF Suits, Bits, Info80
  <2>5. Unsure(c(3)) /\ Unsure(c(4)) BY DEF Unsure, Bits
  <2> HIDE DEF c, p0, p1, s1, p2, s2, p3, s3, p4, p7, p5, p8, p9, s9, v
  <2>6. /\ Full(p0, p0) /\ Full(s1, p1) /\ Full(s2, p2) /\ Full(s3, p3) /\ Full(p4, p4) /\ Full(p7, p7)
        /\ Full(p5, p5) /\ Full(p8, p8) /\ Full(s9, p9) /\ Full(<<>>, <<>>)
    BY <2>3, Flats
  <2>7. /\ Full(If(c(0), p0), If(c(0), p0)) /\ Full(If(c(1), s1), If(c(1), p1))
        /\ Full(If(c(2), s2), If(c(2), p2)) /\ Full(If(c(7), p7), If(c(7), p7))
        /\ Full(If(c(5), p5), If(c(5), p5))
    BY <2>4, <2>6, FullPart, PartIs
  <2>8. /\ Full(Behind("stats", c(3), s3), If(c(3), p3)) /\ Full(Behind(v, c(4), p4), If(c(4), p4))
    BY <2>4, <2>5, <2>6, FullPart, PartIs
  <2>9. Full(S3, P3) BY <2>6, <2>8
  <2> HIDE DEF P3, S3
  <2>10. Full(Q, P)
    <3>1. Full(If(c(0), p0) \o If(c(1), s1), If(c(0), p0) \o If(c(1), p1)) BY <2>7, FullJoin
    <3>2. Full(If(c(0), p0) \o If(c(1), s1) \o If(c(2), s2), If(c(0), p0) \o If(c(1), p1) \o If(c(2), p2))
      BY <2>7, <3>1, FullJoin
    <3>3. Full(If(c(0), p0) \o If(c(1), s1) \o If(c(2), s2) \o S3,
               If(c(0), p0) \o If(c(1), p1) \o If(c(2), p2) \o P3)
      BY <2>9, <3>2, FullJoin
    <3> QED BY <2>8, <3>3, FullJoin
  <2> HIDE DEF Q, P
  <2>11. Full(Q \o If(c(7), p7), P \o If(c(7), p7)) BY <2>7, <2>10, FullJoin
  <2>12. Full(xact_parts(b), parse_xact_subrecords(b)) BY <2>1, <2>7, <2>11, FullJoin
  <2>13. Full(s9 \o xact_parts(b), p9 \o parse_xact_subrecords(b)) BY <2>6, <2>12, FullJoin
  <2>14. Full(If(Info80(TRUE), s9 \o xact_parts(b)), If(Info80(TRUE), p9 \o parse_xact_subrecords(b)))
    BY <2>4, <2>13, FullPart, PartIs
  <2> QED BY <2>2, <2>6, <2>14, FullJoin
<1> HIDE DEF T, S
<1>6. Alike(xl_xact(TRUE), xact_end(TRUE)) /\ Alike(xl_xact(FALSE), xact_end(FALSE))
  BY <1>5, FullIsAlike
<1>7. AlikeAll(S, T, {"PREPARE"}) BY <1>2, <1>3, <1>4, <1>6, Flats DEF AlikeAll
<1>8. BareAll(T, {xact_end(TRUE), xact_end(FALSE)}) BY <1>1, <1>2, <1>3, Flats DEF BareAll
<1> QED BY <1>7, <1>8 DEF T, S

LEMMA MainAlike ==
  ASSUME NEW rmgr, NEW op, <<rmgr, op>> \notin Mistaken, describe_main_data(rmgr, op) # <<>>
  PROVE  Alike(MainStructure(rmgr, op), describe_main_data(rmgr, op))
<1> DEFINE G(S, T) == Program(T, op) # <<>> => Alike(Program(S, op), Program(T, op))
<1>1. ASSUME NEW S, NEW T, NEW except, AlikeAll(S, T, except), op \notin except PROVE G(S, T)
  BY <1>1 DEF AlikeAll, Program
<1>2. G(heap_structures, describe_heap_main) /\ G(heap2_structures, describe_heap2_main)
      /\ G(xlog_structures, describe_xlog_main) /\ G(smgr_structures, describe_smgr_main)
      /\ G(clog_structures, describe_clog_main) /\ G(database_structures, describe_database_main)
  BY <1>1, LikeHeap, LikeHeap2, LikeXlog, LikeSmgr, LikeSmall, LikeCounted
<1>3. G(tablespace_structures, describe_tablespace_main) /\ G(multixact_structures, describe_multixact_main)
      /\ G(relmap_structures, describe_relmap_main) /\ G(standby_structures, describe_standby_main)
      /\ G(sequence_structures, describe_seq_main) /\ G(replorigin_structures, describe_replorigin_main)
      /\ G(logical_msg_structures, describe_logical_msg_main)
  BY <1>1, LikeSmall, LikeCounted, LikeSequence
<1>4. /\ rmgr = "Xact" => op \notin {"PREPARE"}
      /\ rmgr = "Btree" => op \notin {"UNLINK_PAGE_META", "META_CLEANUP"}
      /\ rmgr = "CommitTs" => op \notin {"ZEROPAGE"}
  BY DEF Mistaken
<1>5. /\ rmgr = "Xact" => G(xact_structures, describe_xact_main)
      /\ rmgr = "Btree" => G(btree_structures, describe_btree_main)
      /\ rmgr = "CommitTs" => G(commit_ts_structures, describe_commit_ts_main)
  BY <1>1, <1>4, LikeXact, LikeBtree, LikeCommitTs
<1>6. describe_main_data(rmgr, op) = <<>> \/ Alike(MainStructure(rmgr, op), describe_main_data(rmgr, op))
  BY <1>2, <1>3, <1>5 DEF describe_main_data, MainStructure
<1> QED BY <1>6

LEMMA BlockAlike ==
  ASSUME NEW rmgr, NEW op, NEW idx, describe_block_data(rmgr, op, idx) # <<>>
  PROVE  Alike(BlockStructure(rmgr, op, idx), describe_block_data(rmgr, op, idx))
<1> DEFINE S == heap_block_structures
           T == describe_heap_block_data
<1>1. Program(T, op) # <<>> => Alike(Program(S, op), Program(T, op))
  BY LikeHeapBlock DEF AlikeAll, Program
<1> HIDE DEF S, T
<1> QED BY <1>1, LikeHeap2 DEF describe_block_data, BlockStructure, S, T
=============================================================================
