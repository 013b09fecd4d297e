------------------------------- MODULE Payloads -------------------------------
(***************************************************************************)
(* Where the members that Structures lists are in a payload: those of a C  *)
(* structure at a multiple of their width each, and the parts that are     *)
(* there only sometimes behind it, packed.                                 *)
(***************************************************************************)
EXTENDS Structures, FiniteSets

Message   == 16   \* bytes of a SharedInvalidationMessage
StatsItem == 16   \* ... and of an xl_xact_stats_item

\* The number of elements that counts give.
CountOf(it, value) ==
  IF Cardinality(it.of) = 1 THEN value[CHOOSE c \in it.of : TRUE]
  ELSE value["xcnt"] + value["subxcnt"]

IsThere(cond, info, value) ==
  CASE cond.on = "bits"   -> value[cond.field] \cap cond.bits # {}
    [] cond.on = "info"   -> TopBit(info) = cond.set
    [] cond.on = "inside" -> TRUE
    [] cond.on = "block"  -> FALSE

\* The bytes of the part that Behind puts in front: xl_xact_stats_items when there is
\* HAS_DROPPED_STATS, and the messages of xl_xact_invals when there is HAS_INVALS.
InFront(it, value) ==
  CASE it.name = "stats" /\ 8 \in value["xinfo"]    -> 4 + StatsItem * value["nstats"]
    [] it.name = "messages" /\ 3 \in value["xinfo"] -> Message * value["ninvals"]
    [] OTHER -> 0

(***************************************************************************)
(* Before an item: the next free byte, whether an optional part has been   *)
(* met, and the last item of a part that is not there.                     *)
(***************************************************************************)
Aligned(at, w) == ((at + w - 1) \div w) * w

\* Bytes: texts, and numbers that are taken apart into bytes.
ByteKinds == {"indexed", "name", "cstr", "sized", "rest"}
Offset(it, w) == IF w.packed \/ it.kind \in ByteKinds THEN w.at ELSE Aligned(w.at, it.width)

\* The elements of an item, and the bytes of one.
Elements(it, value) ==
  CASE it.kind = "array" -> CountOf(it, value)
    [] it.kind = "sized" -> IF value[it.of] > 0 THEN 1 ELSE 0
    [] OTHER -> 1
Stride(it) == IF it.kind = "array" THEN it.width * it.numbers ELSE it.width

Bytes(it, value) ==
  CASE it.kind = "array" -> Stride(it) * CountOf(it, value)
    [] it.kind = "cstr"  -> value[it.name]
    [] it.kind = "sized" -> value[it.of]
    [] it.kind = "rest"  -> it.width * value[it.name]
    [] OTHER -> it.width

After(it, k, info, value, w) ==
  IF k <= w.without THEN w
  ELSE IF it.kind = "if"
       THEN [at      |-> w.at + InFront(it, value),
             packed  |-> w.packed \/ it.cond.on = "bits",
             without |-> IF IsThere(it.cond, info, value) THEN w.without ELSE k + it.jump]
  ELSE IF it.kind = "skip" THEN w
  ELSE [w EXCEPT !.at = Offset(it, w) + Bytes(it, value)]

Laid(prog, info, value) ==
  LET w[k \in 1..(Len(prog) + 1)] ==
        IF k = 1 THEN [at |-> 0, packed |-> FALSE, without |-> 0]
        ELSE After(prog[k - 1], k - 1, info, value, w[k - 1])
  IN  w

\* The items that are written.
Written(prog, w) ==
  {k \in 1..Len(prog) : k > w[k].without /\ prog[k].kind \notin {"if", "skip"}}

\* No member is written behind a part that no parser reads.
UnreadLast(prog, value, w) ==
  \A k \in 1..Len(prog) :
    prog[k].kind = "if" /\ k > w[k].without /\ InFront(prog[k], value) # 0
      => \A m \in Written(prog, w) : m < k

(***************************************************************************)
(* Where the fields and the elements of arrays are.                        *)
(***************************************************************************)
PlacesAre(prog, value, w, place) ==
  /\ \A k \in Written(prog, w) :
       prog[k].kind # "rest" =>
         \A i \in 0..(Elements(prog[k], value) - 1) :
           /\ <<prog[k].name, i>> \in DOMAIN place
           /\ place[<<prog[k].name, i>>] = Offset(prog[k], w[k]) + i * Stride(prog[k])
  /\ \A f \in DOMAIN place :
       \E k \in Written(prog, w) :
         /\ prog[k].kind # "rest" /\ prog[k].name = f[1]
         /\ f[2] \in 0..(Elements(prog[k], value) - 1)
=============================================================================
