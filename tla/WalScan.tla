------------------------------- MODULE WalScan -------------------------------
(***************************************************************************)
(* What the scan of a WAL segment promises, with no page, no buffer and no *)
(* LSN in sight.  The records of the segment are numbered 1, 2, ... in WAL *)
(* order, and the server may be adding to them.  The scan shows them in    *)
(* that order, none skipped and none twice; it shows at most one broken    *)
(* record, as the last; and as long as some intact record that was there   *)
(* when it began has not been shown, it goes on.                           *)
(***************************************************************************)
EXTENDS Naturals, Sequences

VARIABLES
  durable,   \* how many records the file holds by now
  at_open,   \* how many it held when the scan began
  intact,    \* how many of the WAL's records precede the first damage
  shown,     \* the intact records shown, by number
  broken,    \* was a broken record shown after them?
  scanning

vars == <<durable, at_open, intact, shown, broken, scanning>>

Owed == IF at_open < intact THEN at_open ELSE intact

Init ==
  /\ durable \in Nat /\ at_open = durable /\ intact \in Nat
  /\ shown = <<>> /\ broken = FALSE /\ scanning = TRUE

Write ==
  /\ durable' \in Nat /\ durable' > durable
  /\ UNCHANGED <<at_open, intact, shown, broken, scanning>>

Show ==
  /\ scanning /\ ~broken
  /\ Len(shown) < durable /\ Len(shown) < intact
  /\ shown' = Append(shown, Len(shown) + 1)
  /\ UNCHANGED <<durable, at_open, intact, broken, scanning>>

ShowBroken ==
  /\ scanning /\ ~broken /\ Len(shown) >= Owed
  /\ broken' = TRUE
  /\ UNCHANGED <<durable, at_open, intact, shown, scanning>>

Stop ==
  /\ scanning /\ Len(shown) >= Owed
  /\ scanning' = FALSE
  /\ UNCHANGED <<durable, at_open, intact, shown, broken>>

Next == Write \/ Show \/ ShowBroken \/ Stop

Spec == Init /\ [][Next]_vars /\ WF_vars(Show \/ Stop)
=============================================================================
