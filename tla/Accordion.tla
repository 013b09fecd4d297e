------------------------------ MODULE Accordion ------------------------------
(***************************************************************************)
(* What the DETAILS pane promises: a record has headings, some of them are *)
(* open, and the cursor is on a heading, not at a number.  There are no    *)
(* lists or indices here, and no lines.                                    *)
(***************************************************************************)
EXTENDS Integers, Sequences

CONSTANTS Shapes, NoRecord

VARIABLES record, at, open

vars == <<record, at, open>>

Headings(rec) ==
  {<<"Header", 0>>}
  \cup {<<"Block", i>> : i \in 1 .. Len(rec.blocks)}
  \cup {<<"BlockFpi", i>> : i \in {j \in 1 .. Len(rec.blocks) : rec.blocks[j].has_image}}
  \cup IF rec.has_main THEN {<<"MainData", 0>>} ELSE {}

\* An image is seen in its block only.
Seen == {h \in Headings(record) : h[1] = "BlockFpi" => <<"Block", h[2]>> \in open}

\* From top to bottom.
Place(h) ==
  CASE h[1] = "Header"   -> 0
    [] h[1] = "Block"    -> 2 * h[2]
    [] h[1] = "BlockFpi" -> 2 * h[2] + 1
    [] h[1] = "MainData" -> 2 * Len(record.blocks) + 2

Below == {h \in Seen : Place(h) > Place(at)}
Above == {h \in Seen : Place(h) < Place(at)}

Init == record \in Shapes \cup {NoRecord} /\ at = <<"Header", 0>> /\ open = {}

Down ==
  /\ Below # {}
  /\ at' = CHOOSE h \in Below : \A g \in Below : Place(h) <= Place(g)
  /\ UNCHANGED <<record, open>>

Up ==
  /\ Above # {}
  /\ at' = CHOOSE h \in Above : \A g \in Above : Place(h) >= Place(g)
  /\ UNCHANGED <<record, open>>

\* What is in a heading closes with it.
Close == at \in open /\ open' = {h \in open \ {at} : ~(at[1] = "Block" /\ h = <<"BlockFpi", at[2]>>)}

Open == at \notin open /\ open' = open \cup {at}

Toggle == record # NoRecord /\ (Open \/ Close) /\ UNCHANGED <<record, at>>

Select == record' \in Shapes /\ at' = <<"Header", 0>> /\ open' = {}

Next == Down \/ Up \/ Toggle \/ Select

Spec == Init /\ [][Next]_vars
=============================================================================
