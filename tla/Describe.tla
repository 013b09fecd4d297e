------------------------------- MODULE Describe -------------------------------
(***************************************************************************)
(* describe_main_data and describe_block_data (walmain.rs): the lines of   *)
(* the DETAILS pane about one payload of a record.  The parser that        *)
(* Descriptions gives for the record runs here one call of                 *)
(* walmisc::Reader at a time, on the payload a server wrote or, for a      *)
(* record that failed its checksum and is listed all the same, on          *)
(* arbitrary bytes.                                                        *)
(***************************************************************************)
EXTENDS Payloads, Timestamps, Functions, TLC

CONSTANTS
  Jobs,            \* the payloads to describe
  Usize, I32,      \* 2^width of a usize and of an i32, both scaled down
  GarbageBits,     \* what a flags field may turn out to be in arbitrary bytes,
  GarbageCounts    \* ... and a count or a size

VARIABLES
  job,     \* the record, and the payload to describe:
           \*   rmgr, info    its resource manager and xl_info
           \*   block         the number of the block, or MAIN
           \*   main_flags    the eighth byte of its main data, as a set of bits
           \*   len           the length of the payload
           \*   intact        did a server write it?  If so:
           \*   place         where each field <<name, 0>> and element <<name, i>> is
           \*   value         what the fields hold that decide what follows, the
           \*                 moments in those that hold a timestamp, and how long
           \*                 texts and rests are
  pc,      \* "start", "reading", "done" or "panicked"
  item,    \* position in the program
  elem,    \* elements of the current array that have been read
  pos,     \* Reader::pos
  got,     \* the flags, counts and sizes read so far
  lines    \* Vec<String> of the parser

vars == <<job, pc, item, elem, pos, got, lines>>

MAIN == -1

\* i32 and usize of an integer: the release build wraps around.
Signed(n)   == ((n + I32 \div 2) % I32) - (I32 \div 2)
Unsigned(n) == n % Usize
AtLeast0(n) == IF n > 0 THEN n ELSE 0
Least(a, b) == IF a < b THEN a ELSE b

ParserOf(rmgr, info, block) ==
  LET op == from_xl_info(rmgr, info)
  IN  IF block = MAIN THEN describe_main_data(rmgr, op) ELSE describe_block_data(rmgr, op, block)
\* What the payload is.
StructureOf(rmgr, info, block) ==
  LET op == from_xl_info(rmgr, info)
  IN  IF block = MAIN THEN MainStructure(rmgr, op) ELSE BlockStructure(rmgr, op, block)
Parser == ParserOf(job.rmgr, job.info, job.block)

\* The counts and the sizes that a server wrote are integers, and the texts it
\* wrote end within the payload; of bytes that nobody wrote nothing is known.
ASSUME DescribeAssumption ==
  /\ Usize \in Nat \ {0} /\ I32 \in Nat \ {0}
  /\ GarbageCounts \subseteq Int
  /\ \A j \in Jobs :
       /\ j.len \in Nat
       /\ LET prog == ParserOf(j.rmgr, j.info, j.block)
          IN  \A k \in 1..Len(prog) :
                LET it == prog[k]
                IN  <<it.name, 0>> \in DOMAIN j.place =>
                      /\ it.kind \in {"count", "size"} => j.value[it.name] \in Int
                      /\ it.kind = "cstr" =>
                           /\ j.place[<<it.name, 0>>] \in Nat /\ j.value[it.name] \in Nat
                           /\ j.place[<<it.name, 0>>] + j.value[it.name] <= j.len

\* What a server writes is laid out as Structures and Payloads say.  Its counts and
\* sizes are not negative, the payload is not larger than the machine can count, and
\* an empty one holds no field.
LaidOut(j) ==
  LET members == StructureOf(j.rmgr, j.info, j.block)
      w       == Laid(members, j.info, j.value)
  IN  /\ j.len = w[Len(members) + 1].at /\ j.len \in 0..(Usize - 1)
      /\ PlacesAre(members, j.value, w, j.place)
      /\ j.len = 0 => DOMAIN j.place = {}
      /\ j.block # MAIN => j.value["flags"] = j.main_flags
      /\ \A k \in Written(members, w) :
           LET it == members[k]
           IN  /\ it.kind \in {"count", "size", "rest"} => j.value[it.name] \in Nat
               /\ it.kind = "sized" => j.value[it.of] \in Nat
               /\ it.kind = "cstr" => j.value[it.name] \in Nat \ {0}
               /\ it.kind = "time" => IsMoment(j.value[it.name])
               /\ it.kind = "array" => CountOf(it, j.value) \in 0..(I32 \div 2 - 1)
      /\ \A k \in 1..Len(members) :
           members[k].kind = "if" /\ k > w[k].without => InFront(members[k], j.value) \in Nat

ASSUME PayloadAssumption ==
  \A j \in Jobs : j.intact /\ ParserOf(j.rmgr, j.info, j.block) # <<>> => LaidOut(j)

\* The operations whose parsers read another structure than the server writes.
Mistaken ==
  {<<"Xact", "PREPARE">>, <<"Btree", "UNLINK_PAGE_META">>, <<"Btree", "META_CLEANUP">>,
   <<"CommitTs", "ZEROPAGE">>}

\* A payload of another operation, in which nothing that a parser shows is behind the
\* dropped statistics or the invalidation messages that no parser steps over.
ReadThrough(j) ==
  LET members == StructureOf(j.rmgr, j.info, j.block)
  IN  /\ <<j.rmgr, from_xl_info(j.rmgr, j.info)>> \notin Mistaken
      /\ UnreadLast(members, j.value, Laid(members, j.info, j.value))

\* The item that is next, while there is one.
NextItems == IF pc = "reading" /\ item <= Len(Parser) THEN {Parser[item]} ELSE {}

-----------------------------------------------------------------------------
(* walmisc::Reader.                                                        *)

remaining == AtLeast0(job.len - pos)

\* read_u8 .. read_i64_le: all the bytes or none.
Reads(width) == remaining >= width
AfterRead(width) == IF Reads(width) THEN pos + width ELSE pos

\* Faulty: the cursor is not held back at the end.
skip_to_Unclamped(n) == Unsigned(pos + n)

skip_to(n) == Least(Unsigned(pos + n), job.len)

\* What the bytes at pos hold, read as the field: what was written there for it,
\* or anything.
Garbage(it) == IF it.kind = "flags" THEN GarbageBits
               ELSE IF it.kind = "size" THEN {n \in GarbageCounts : n >= 0} ELSE GarbageCounts
Absent(it) == IF it.kind = "flags" THEN {} ELSE 0
Values(it) ==
  IF ~Reads(it.width) THEN {Absent(it)}
  ELSE IF <<it.name, 0>> \in DOMAIN job.place /\ job.place[<<it.name, 0>>] = pos
       THEN {IF it.kind = "time" THEN TimestampTz(job.value[it.name]) ELSE job.value[it.name]}
       ELSE Garbage(it)

-----------------------------------------------------------------------------
(* Lines.  One shows a field or an element: where it was read (NOWHERE     *)
(* when unwrap_or(0) stands in), and the names of its bits or the moment   *)
(* it stands for; or how many elements were left out.                      *)

NOWHERE == -1
Line(name, i, at, names) ==
  [name |-> name, index |-> i, at |-> at, names |-> names, moment |-> <<>>, more |-> 0]
More(name, n) == [Line(name, 0, NOWHERE, {}) EXCEPT !.more = n]
Note(text) == Line(text, 0, NOWHERE, {})
Where(width) == IF Reads(width) THEN pos ELSE NOWHERE

Init ==
  /\ job \in Jobs
  /\ pc = "start" /\ item = 1 /\ elem = 0 /\ pos = 0 /\ lines = <<>>
  \* describe_heap_block_data takes the flags out of the main data, if all of it is there.
  /\ got = IF job.block = MAIN THEN <<>> ELSE [flags |-> job.main_flags]

\* An empty payload and a record without a parser are told before any reading.
Begin ==
  /\ pc = "start"
  /\ IF job.len = 0 \/ Parser = <<>>
     THEN /\ pc' = "done"
          /\ lines' = IF job.block # MAIN THEN <<>>
                      ELSE IF job.len = 0 THEN <<Note("no main data")>> ELSE <<Note("bytes")>>
     ELSE pc' = "reading" /\ lines' = <<>>
  /\ UNCHANGED <<job, item, elem, pos, got>>

\* let x = r.read_..().unwrap_or(0)
ReadNumber(it) ==
  /\ it.kind \in {"int", "unshown"}
  /\ pos' = AfterRead(it.width)
  /\ lines' = IF it.kind = "int" THEN Append(lines, Line(it.name, 0, Where(it.width), {})) ELSE lines
  /\ item' = item + 1
  /\ UNCHANGED <<job, pc, elem, got>>

\* ... of a timestamp, which may well be negative.
ReadTimestamp(it) ==
  /\ it.kind = "time"
  /\ \E us \in Values(it) :
       lines' = Append(lines, [Line(it.name, 0, Where(it.width), {}) EXCEPT !.moment = fmt_pg_ts(us)])
  /\ pos' = AfterRead(it.width)
  /\ item' = item + 1
  /\ UNCHANGED <<job, pc, elem, got>>

\* ... of one that decides what comes next; if let Some(xinfo) .. shows it or nothing.
ReadControl(it) ==
  /\ it.kind \in {"flags", "count", "size"}
  /\ \E v \in Values(it) :
       /\ got' = [n \in DOMAIN got \cup {it.name} |-> IF n = it.name THEN v ELSE got[n]]
       /\ lines' = IF it.kind = "flags" /\ it.optional /\ ~Reads(it.width) THEN lines
                   ELSE Append(lines, Line(it.name, 0, Where(it.width),
                                           IF it.kind = "flags" THEN Named(it.table, v) ELSE {}))
  /\ pos' = AfterRead(it.width)
  /\ item' = item + 1
  /\ UNCHANGED <<job, pc, elem>>

Skip(it) ==
  /\ it.kind = "skip"
  /\ pos' = skip_to(it.width)
  /\ item' = item + 1
  /\ UNCHANGED <<job, pc, elem, got, lines>>

Holds(cond) ==
  CASE cond.on = "bits" -> got[cond.field] \cap cond.bits # {}
    [] cond.on = "info" -> TopBit(job.info) = cond.set
    [] cond.on = "room" -> remaining >= cond.bytes

Branch(it) ==
  /\ it.kind = "if"
  /\ item' = IF Holds(it.cond) THEN item + 1 ELSE item + 1 + it.jump
  /\ UNCHANGED <<job, pc, elem, pos, got, lines>>

\* How many elements the counts give, and how many of them are read.
Total(it) == Signed(CountOf(it, got))
\* Faulty: every element is read.
Shown_Uncapped(it) == AtLeast0(Total(it))

Shown(it) == Least(AtLeast0(Total(it)), it.cap)

\* The announcement of the rest, after the cast or the clamp; 0 for none.
\* Faulty: the elements shown are announced as well.
Left_Whole(it) == IF Total(it) > it.cap THEN Total(it) ELSE 0

Left(it) ==
  CASE it.note = "none"    -> 0
    [] it.note = "clamped" -> AtLeast0(Total(it) - it.cap)
    [] it.note = "cast"    -> IF Unsigned(Total(it)) > it.cap
                              THEN Signed(Total(it) - it.cap) ELSE 0

\* An element of several numbers has its line even where bytes are missing.
ReadElement(it) ==
  /\ it.kind = "array" /\ elem < Shown(it)
  /\ LET bytes == it.width * it.numbers
     IN  /\ pos' = pos + it.width * Least(it.numbers, remaining \div it.width)
         /\ lines' = IF it.numbers = 1 /\ ~Reads(bytes) THEN lines
                     ELSE Append(lines, Line(it.name, elem, Where(bytes), {}))
  /\ elem' = elem + 1
  /\ UNCHANGED <<job, pc, item, got>>

EndArray(it) ==
  /\ it.kind = "array" /\ elem >= Shown(it)
  /\ lines' = IF Left(it) # 0 THEN Append(lines, More(it.name, Left(it))) ELSE lines
  /\ pos' = IF it.over /\ Left(it) # 0
            THEN skip_to((Unsigned(Total(it)) - it.cap) * it.width * it.numbers) ELSE pos
  /\ elem' = 0 /\ item' = item + 1
  /\ UNCHANGED <<job, pc, got>>

\* Up to the first NUL and past it: where the text was written, or anywhere in
\* arbitrary bytes.
ReadCstr(it) ==
  /\ it.kind = "cstr"
  /\ pos' \in IF <<it.name, 0>> \in DOMAIN job.place /\ job.place[<<it.name, 0>>] = pos
              THEN {pos + job.value[it.name]} ELSE (pos + 1)..job.len \cup {job.len}
  /\ lines' = Append(lines, Line(it.name, 0, pos, {}))
  /\ item' = item + 1
  /\ UNCHANGED <<job, pc, elem, got>>

\* if size > 0 && r.remaining() >= size: a text that peek_bytes gives.
ShowSized(it) ==
  /\ it.kind = "sized"
  /\ lines' = IF got[it.of] > 0 /\ remaining >= got[it.of]
              THEN Append(lines, Line(it.name, 0, pos, {})) ELSE lines
  /\ item' = item + 1
  /\ UNCHANGED <<job, pc, elem, pos, got>>

\* &name_bytes[..position of a NUL, or 64] of the bytes that peek_bytes(64) gives.
ShowName(it) ==
  /\ it.kind = "name"
  /\ \E nul_found \in IF <<it.name, 0>> \in DOMAIN job.place THEN {TRUE}
                      ELSE IF remaining = 0 THEN {FALSE} ELSE BOOLEAN :
       IF nul_found \/ Reads(it.width)
       THEN /\ lines' = Append(lines, Line(it.name, 0, pos, {}))
            /\ item' = item + 1 /\ UNCHANGED pc
       ELSE pc' = "panicked" /\ UNCHANGED <<lines, item>>
  /\ UNCHANGED <<job, elem, pos, got>>

\* data[offset] and data[offset + 1], whether they are there or not.
ReadIndexed(it) ==
  /\ it.kind = "indexed"
  /\ IF Reads(it.width)
     THEN /\ lines' = Append(lines, Line(it.name, 0, pos, {}))
          /\ pos' = pos + it.width /\ item' = item + 1 /\ UNCHANGED pc
     ELSE pc' = "panicked" /\ UNCHANGED <<lines, pos, item>>
  /\ UNCHANGED <<job, elem, got>>

ShowRest(it) ==
  /\ it.kind = "rest"
  /\ lines' = IF it.always \/ remaining \div it.width > 0
              THEN Append(lines, Line(it.name, 0, pos, {})) ELSE lines
  /\ item' = item + 1
  /\ UNCHANGED <<job, pc, elem, pos, got>>

Finish ==
  /\ pc = "reading" /\ item > Len(Parser)
  /\ pc' = "done"
  /\ UNCHANGED <<job, item, elem, pos, got, lines>>

\* The lines are handed to build_detail_lines.
Stop == pc \in {"done", "panicked"} /\ UNCHANGED vars

ReadItem(it) ==
  \/ ReadNumber(it) \/ ReadTimestamp(it) \/ ReadControl(it) \/ Skip(it) \/ Branch(it)
  \/ ReadElement(it) \/ EndArray(it) \/ ReadCstr(it) \/ ShowSized(it) \/ ShowName(it)
  \/ ReadIndexed(it) \/ ShowRest(it)

Next == Begin \/ (\E it \in NextItems : ReadItem(it)) \/ Finish \/ Stop

Spec == Init /\ [][Next]_vars

-----------------------------------------------------------------------------
(* Properties.                                                             *)

\* A line about a payload that the server wrote shows a field that is there, and
\* shows it from the place where Structures has it: paddings, arrays with their
\* rests and optional parts, those that are not shown among them, are stepped over
\* exactly (describe_*_main).
FieldsAreWritten ==
  job.intact /\ pc = "done" =>
    LET rests == {it.name : it \in {it \in Range(Parser) : it.kind = "rest"}}
    IN  \A i \in DOMAIN lines :
          LET field == <<lines[i].name, lines[i].index>>
          IN  lines[i].more = 0 /\ lines[i].name \notin rests \cup {"bytes", "no main data"}
                => field \in DOMAIN job.place /\ lines[i].at = job.place[field]

\* A timestamp that the server wrote is shown as the moment it stamped the record
\* with: leap days, the ends of centuries and the years before 2000 and before 1
\* included (fmt_pg_ts and civil_from_days, on what the parser read).
TimestampIsRight ==
  job.intact /\ pc = "done" =>
    LET times == {it.name : it \in {it \in Range(Parser) : it.kind = "time"}}
    IN  \A i \in DOMAIN lines :
          lines[i].name \in times => lines[i].moment = job.value[lines[i].name]

\* The optional parts, and the flags that announce each of them by name.
AnnouncedBy ==
  LET of == [dbId |-> {"HAS_DBINFO"}, tsId |-> {"HAS_DBINFO"}, nsubxacts |-> {"HAS_SUBXACTS"},
             nrels |-> {"HAS_RELFILELOCATORS"}, ninvals |-> {"HAS_INVALS"}, gid |-> {"HAS_GID"},
             origin_lsn |-> {"HAS_ORIGIN"}, conflict_horizon |-> {"HAS_CONFLICT_HORIZON"},
             t_hoff |-> {"CONTAINS_OLD_TUPLE", "CONTAINS_OLD_KEY"},
             prefix_from_old |-> {"PREFIX_FROM_OLD"}, suffix_from_old |-> {"SUFFIX_FROM_OLD"}]
  IN  [part \in DOMAIN of \cup {"2pc_xid"} |->
         IF part = "2pc_xid" THEN {"HAS_TWOPHASE"} ELSE of[part]]

\* The names that the pane shows for the flags, in this description or in that
\* of the main data.
NamesShown == (UNION {lines[i].names : i \in DOMAIN lines})
                \cup (IF job.block = MAIN THEN {}
                      ELSE Named(decode_heap_update_flags, job.main_flags))
UnderFlags ==
  LET prog == Parser
      ifs  == {j \in DOMAIN prog : prog[j].kind = "if" /\ prog[j].cond.on = "bits"}
  IN  UNION {{prog[k].name : k \in (j + 1)..(j + prog[j].jump)} : j \in ifs}

\* What the flags line says a record has is what the lines after it show, and
\* nothing else: the decode_* tables of names and the conditions of the parsers
\* read the same bits.  Two flags are named and never shown, and no part stands for
\* them here: HAS_DROPPED_STATS, and HAS_INVALS of an abort.
NamedIsShown ==
  job.intact /\ pc = "done" =>
    \A part \in DOMAIN AnnouncedBy \cap UnderFlags :
      (\E i \in DOMAIN lines : lines[i].name = part) <=> AnnouncedBy[part] \cap NamesShown # {}

Arrays == {it \in Range(Parser) : it.kind = "array"}

\* Of an array that a server wrote and whose rest is announced, the elements
\* shown and those announced make up the count.
EveryElementCounted ==
  job.intact /\ pc = "done" =>
    \A it \in Arrays :
      it.note # "none" /\ <<it.name, 0>> \in DOMAIN job.place
        => LET own  == {l \in Range(lines) : l.name = it.name}
               more == {l \in own : l.more # 0}
           IN  Total(it) = Cardinality(own \ more)
                             + (IF more = {} THEN 0 ELSE (CHOOSE l \in more : TRUE).more)

\* The most lines that the first k items of a program push: one for each, and the
\* elements that are shown of an array; and one for a payload without any.
LinesOf(it) == 1 + (IF it.kind = "array" THEN it.cap ELSE 0)
MostLines(prog) ==
  LET most[k \in 0..Len(prog)] == IF k = 0 THEN 1 ELSE most[k - 1] + LinesOf(prog[k])
  IN  most[Len(prog)]

\* However large the counts in damaged bytes are, a description has no more than
\* a line for each read and a capped number for each array, and one for its rest.
LinesAreBounded == pc \in {"done", "panicked"} => Len(lines) <= MostLines(Parser)

\* The cursor stays within the payload, whatever the bytes say: the slices that
\* peek_bytes takes from it cannot fail.
CursorInPayload == pos \in 0..job.len
=============================================================================
