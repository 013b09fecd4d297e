------------------------------ MODULE MCDescribe ------------------------------
(***************************************************************************)
(* Payloads for Describe: those that a server writes, as Structures and    *)
(* Payloads lay them out, with small values in them, and arbitrary bytes.  *)
(***************************************************************************)
EXTENDS Describe, SequencesExt

CONSTANTS
  Counts,          \* what a count or a size may be
  Lengths          \* the lengths of payloads of arbitrary bytes

SomeBits   == {{}, {1, 2}, 0..7}
SomeCounts == {-2, 0, 1, 40, I32 \div 2 - 1}

Text == 4      \* bytes of a C string, with its NUL
Rest == 3      \* units of a rest

\* The names of the members of a structure are different.
PlacesOf(members, value, w) ==
  LET fields == {k \in Written(members, w) : members[k].kind # "rest"}
      named  == UNION {{<<members[k].name, i>> : i \in 0..(Elements(members[k], value) - 1)}
                       : k \in fields}
      of(f)  == CHOOSE k \in fields : members[k].name = f[1]
  IN  [f \in named |-> Offset(members[of(f)], w[of(f)]) + f[2] * Stride(members[of(f)])]

\* The values of the members that are written: of flags, every choice of the bits
\* that announce a part, with all the other flags or none.
Bitsets(members, it) ==
  LET under == UNION {members[k].cond.bits : k \in {k \in DOMAIN members :
                 /\ members[k].kind = "if" /\ members[k].cond.on = "bits"
                 /\ members[k].cond.field = it.name}}
      read  == under \cup (IF it.name = "xinfo" THEN {3, 8} ELSE {})
  IN  {s \cup t : s \in SUBSET read, t \in {{}, (0..(8 * it.width - 1)) \ read}}
ValuesOf(members, it) ==
  CASE it.kind = "flags" -> Bitsets(members, it)
    [] it.kind = "cstr" -> {Text}
    [] it.kind = "rest" -> {Rest}
    [] it.kind = "time" -> {Moment(2024, 2, 29, 1, 0, 1, 2)}
    [] OTHER -> Counts

RECURSIVE Valuations(_, _, _, _)
Valuations(members, info, k, value) ==
  IF k > Len(members) THEN {value}
  ELSE LET it   == members[k]
           with == IF it.name = "stats" /\ 8 \in value["xinfo"]
                   THEN {("nstats" :> n) @@ value : n \in Counts} ELSE {value}
       IN  IF it.kind = "if"
           THEN UNION {Valuations(members, info,
                         IF IsThere(it.cond, info, v) THEN k + 1 ELSE k + 1 + it.jump, v) : v \in with}
           ELSE IF it.kind \in {"flags", "count", "size", "cstr", "time", "rest"}
           THEN UNION {Valuations(members, info, k + 1, (it.name :> v) @@ value)
                       : v \in ValuesOf(members, it)}
           ELSE Valuations(members, info, k + 1, value)

Infos(rmgr) ==
  {16 * n + top : n \in 0..(Len(Ops(rmgr)) - 1),
                  top \in IF rmgr \in {"Heap", "Heap2", "Brin", "Xact"} THEN {0, 128} ELSE {0}}

Job(rmgr, info, block, main_flags, len, place, value, intact) ==
  [rmgr |-> rmgr, info |-> info, block |-> block, main_flags |-> main_flags, len |-> len,
   place |-> place, value |-> value, intact |-> intact]

\* A payload with these values.
Intact(rmgr, info, block, main_flags, value) ==
  LET members == StructureOf(rmgr, info, block)
      w       == Laid(members, info, value)
  IN  Job(rmgr, info, block, main_flags, w[Len(members) + 1].at,
          PlacesOf(members, value, w), value, TRUE)

MainFlags(block) == IF block = MAIN THEN {{}} ELSE SUBSET {5, 6}

\* Only what ends a prepared transaction has its xid and perhaps its gid, and only a
\* commit has invalidation messages.
IsXact(rmgr, info, value) ==
  LET op == from_xl_info(rmgr, info)
  IN  rmgr = "Xact" /\ "xinfo" \in DOMAIN value =>
        /\ 4 \in value["xinfo"] <=> op \in {"COMMIT_PREPARED", "ABORT_PREPARED"}
        /\ 7 \in value["xinfo"] => 4 \in value["xinfo"]
        /\ 3 \in value["xinfo"] => op \in {"COMMIT", "COMMIT_PREPARED"}

\* The flags that the data of a block depends on are in the main data.
IntactOf(rmgr, info, block) ==
  LET members == StructureOf(rmgr, info, block)
  IN  IF ParserOf(rmgr, info, block) = <<>> THEN {} ELSE
      UNION {{Intact(rmgr, info, block, main, value)
              : value \in {v \in Valuations(members, info, 1,
                                            IF block = MAIN THEN <<>> ELSE "flags" :> main) :
                            IsXact(rmgr, info, v)}}
             : main \in MainFlags(block)}
DamagedOf(rmgr, info, block) ==
  {Job(rmgr, info, block, main, len, <<>>, <<>>, FALSE) : main \in MainFlags(block), len \in Lengths}

Names == {Rmgrs[k] : k \in DOMAIN Rmgrs}
Over(Of(_, _, _)) ==
  UNION {UNION {UNION {Of(rmgr, info, block) : block \in {MAIN, 0}} : info \in Infos(rmgr)}
         : rmgr \in Names}

\* Commits at the first and the last microsecond of the first and the last day of
\* the months around the ends of February and of the year, in the cycles of the
\* calendar from 400 years before year 0 on, from year 0, and from 2000.
Moments ==
  UNION {{Moment(y, m, 1, 0, 0, 0, 0),
          Moment(y, m, DaysIn(y, m), Day \div Hour - 1, Hour \div Minute - 1, Minute - 1, Second - 1)}
         : y \in (-400)..400 \cup 2000..2400, m \in {1, 2, 3, 12}}
ClockJobs == {Intact("Xact", 0, MAIN, {}, "xact_time" :> t) : t \in Moments}

\* Two structures are mistaken in a way that no line shows: one that is in a block
\* and leaves nothing to read, and one that is too short for what the parser expects.
Unnoticed == {"META_CLEANUP", "ZEROPAGE"}

IntactJobs ==
  {j \in Over(IntactOf) : ReadThrough(j) \/ from_xl_info(j.rmgr, j.info) \in Unnoticed}
DamagedJobs == Over(DamagedOf)
AllJobs     == IntactJobs \cup ClockJobs \cup DamagedJobs

\* COMMIT_PREPARED with dropped statistics and invalidation messages.
UnreadJobs ==
  {j \in IntactOf("Xact", 16 * 3 + 128, MAIN) :
     {3, 8} \subseteq j.value["xinfo"] /\ j.value["nstats"] > 0 /\ j.value["ninvals"] > 0}
=============================================================================
