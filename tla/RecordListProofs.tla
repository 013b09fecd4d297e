-------------------------- MODULE RecordListProofs --------------------------
(***************************************************************************)
(* Proofs about RecordList, for every list of records and every sequence   *)
(* of keys and heights of the pane.                                        *)
(***************************************************************************)
EXTENDS RecordList, TLAPS, WellFoundedInduction

-----------------------------------------------------------------------------
(* Least and greatest elements of sets of indices.                         *)

LEMMA Least ==
  ASSUME NEW T, T \subseteq Nat, T # {}
  PROVE  \E m \in T : \A k \in T : m <= k
<1>1. PICK m \in T : \A k \in T : ~ (<<k, m>> \in OpToRel(<, Nat))
  BY NatLessThanWellFounded, WFMin
<1>2. ASSUME NEW k \in T PROVE m <= k
  <2>1. ~ (k < m)
    BY <1>1 DEF OpToRel
  <2> QED
    BY <2>1
<1> QED
  BY <1>2

LEMMA Greatest ==
  ASSUME NEW n \in Nat, NEW T, T \subseteq 0 .. n, T # {}
  PROVE  \E m \in T : \A k \in T : m >= k
<1> DEFINE S == {n - k : k \in T}
<1>1. S \subseteq Nat /\ S # {}
  OBVIOUS
<1>2. PICK s \in S : \A k \in S : s <= k
  BY <1>1, Least
<1>3. PICK m \in T : s = n - m
  OBVIOUS
<1>4. ASSUME NEW k \in T PROVE m >= k
  <2>1. s <= n - k
    BY <1>2
  <2> QED
    BY <1>3, <2>1
<1> QED
  BY <1>4

-----------------------------------------------------------------------------
(* The cached extent of a transaction.                                     *)

LEMMA RangeIsExtent ==
  ASSUME xids \in Seq(Nat), NEW i \in Indices
  PROVE  /\ xid_range_of(i) \in Nat \X Nat
         /\ At(i) # 0 =>
              LET mine == {j \in Indices : At(j) = At(i)} IN
              /\ xid_range_of(i)[1] \in mine /\ \A k \in mine : xid_range_of(i)[1] <= k
              /\ xid_range_of(i)[2] \in mine /\ \A k \in mine : xid_range_of(i)[2] >= k
<1> DEFINE mine == {j \in Indices : At(j) = At(i)}
           first == CHOOSE j \in mine : \A k \in mine : j <= k
           last  == CHOOSE j \in mine : \A k \in mine : j >= k
<1>1. i \in mine /\ mine \subseteq Nat /\ mine \subseteq 0 .. Len(xids) - 1 /\ Len(xids) - 1 \in Nat
  BY DEF Indices
<1> HIDE DEF mine
<1>2. \E j \in mine : \A k \in mine : j <= k
  BY <1>1, Least
<1>3. \E j \in mine : \A k \in mine : j >= k
  BY <1>1, Greatest
<1>4. /\ first \in mine /\ \A k \in mine : first <= k
      /\ last \in mine /\ \A k \in mine : last >= k
  BY <1>2, <1>3
<1>5. first \in Nat /\ last \in Nat
  BY <1>1, <1>4
<1>6. CASE At(i) = 0
  BY <1>6 DEF xid_range_of
<1>7. CASE At(i) # 0
  <2>1. xid_range_of(i) = <<first, last>>
    BY <1>7 DEF xid_range_of, mine
  <2> HIDE DEF first, last
  <2>2. /\ xid_range_of(i) \in Nat \X Nat
        /\ xid_range_of(i)[1] \in mine /\ \A k \in mine : xid_range_of(i)[1] <= k
        /\ xid_range_of(i)[2] \in mine /\ \A k \in mine : xid_range_of(i)[2] >= k
    BY <1>4, <1>5, <2>1
  <2> QED
    BY <2>2 DEF mine
<1> QED
  BY <1>6, <1>7

-----------------------------------------------------------------------------
(* The inductive invariant: there is a selection when there is a record,   *)
(* and the extent is the one of the selected record's transaction.         *)

CacheIsFresh ==
  /\ selected = NONE <=> xids = <<>>
  /\ xid_range = IF selected = NONE THEN NoRange ELSE xid_range_of(selected)

ListInv == TypeOK /\ CacheIsFresh /\ SelectedIsShown /\ WindowIsFull

LEMMA InitListInv == Init => ListInv
<1> SUFFICES ASSUME Init PROVE ListInv
  OBVIOUS
<1>1. xids \in Seq(Nat) /\ Len(xids) \in Nat
  BY ListAssumption DEF Init
<1>2. CASE xids = <<>>
  BY <1>1, <1>2 DEF Init, ListInv, TypeOK, CacheIsFresh, SelectedIsShown, WindowIsFull, NONE, NoRange
<1>3. CASE xids # <<>>
  <2>1. 0 \in Indices
    BY <1>1, <1>3 DEF Indices
  <2>2. xid_range_of(0) \in Nat \X Nat
    BY <1>1, <2>1, RangeIsExtent
  <2> QED
    BY <1>3, <2>1, <2>2
       DEF Init, ListInv, TypeOK, CacheIsFresh, SelectedIsShown, WindowIsFull, NONE
<1> QED
  BY <1>2, <1>3

\* Any key that selects a record, or none.
LEMMA SelectInv ==
  ASSUME ListInv, Stale, NEW idx \in Nat,
         select(idx) \/ UNCHANGED <<selected, xid_range>>
  PROVE  ListInv'
<1>1. /\ xids \in Seq(Nat) /\ Len(xids) \in Nat /\ xids' = xids /\ list_offset' = list_offset
      /\ shown' = 0
  BY ListAssumption DEF ListInv, TypeOK, Stale
<1>2. SelectedIsShown' /\ WindowIsFull'
  BY <1>1 DEF SelectedIsShown, WindowIsFull
<1>3. CASE UNCHANGED <<selected, xid_range>>
  BY <1>1, <1>2, <1>3 DEF ListInv, TypeOK, CacheIsFresh, Indices, xid_range_of, At
<1>4. CASE xids # <<>> /\ selected' = Smaller(idx, Len(xids) - 1)
           /\ xid_range' = xid_range_of(selected')
  <2>1. selected' \in Indices /\ selected' # NONE
    BY <1>1, <1>4 DEF Smaller, Indices, NONE
  <2>2. xid_range' \in Nat \X Nat
    BY <1>1, <1>4, <2>1, RangeIsExtent
  <2>3. TypeOK'
    BY <1>1, <2>1, <2>2 DEF ListInv, TypeOK, Indices
  <2>4. CacheIsFresh'
    BY <1>1, <1>4, <2>1 DEF CacheIsFresh, xid_range_of, Indices, At
  <2> QED
    BY <1>2, <2>3, <2>4 DEF ListInv
<1> QED
  BY <1>3, <1>4 DEF select

LEMMA KeyInv == ListInv /\ Key => ListInv'
<1> SUFFICES ASSUME ListInv, Key PROVE ListInv'
  OBVIOUS
<1>1. xids \in Seq(Nat) /\ Len(xids) \in Nat /\ (selected = NONE \/ selected \in Nat)
  BY ListAssumption DEF ListInv, TypeOK, Indices
<1>2. Current \in Nat
  BY <1>1 DEF Current
<1>3. CASE move_record_down
  BY <1>1, <1>3, SelectInv DEF move_record_down
<1>4. CASE move_record_up
  BY <1>1, <1>4, SelectInv DEF move_record_up, saturating_sub
<1>5. CASE move_top
  BY <1>5, SelectInv DEF move_top
<1>6. CASE move_bottom
  BY <1>1, <1>6, SelectInv DEF move_bottom, saturating_sub
<1>7. CASE page_up \/ page_down
  BY <1>2, <1>7, ListAssumption, SelectInv DEF page_up, page_down, saturating_sub
<1>8. CASE move_next_same_xid
  <2>1. CASE Later # {}
    <3>1. Later \subseteq Nat
      BY DEF Later, Indices
    <3>2. \E i \in Later : \A j \in Later : i <= j
      BY <2>1, <3>1, Least
    <3>3. next_same_xid \in Nat
      BY <3>1, <3>2 DEF next_same_xid
    <3> QED
      BY <1>8, <3>3, SelectInv DEF move_next_same_xid
  <2>2. CASE Later = {}
    BY <1>8, <2>2, SelectInv DEF move_next_same_xid
  <2> QED
    BY <2>1, <2>2
<1>9. CASE move_prev_same_xid
  <2>1. CASE Earlier # {}
    <3>1. Earlier \subseteq 0 .. Len(xids)
      BY <1>1 DEF Earlier, Indices
    <3>2. \E i \in Earlier : \A j \in Earlier : i >= j
      BY <1>1, <2>1, <3>1, Greatest
    <3>3. prev_same_xid \in Earlier
      BY <3>2 DEF prev_same_xid
    <3>4. prev_same_xid \in Nat
      BY <1>1, <3>1, <3>3
    <3> QED
      BY <1>9, <3>4, SelectInv DEF move_prev_same_xid
  <2>2. CASE Earlier = {}
    BY <1>9, <2>2, SelectInv DEF move_prev_same_xid
  <2> QED
    BY <2>1, <2>2
<1> QED
  BY <1>3, <1>4, <1>5, <1>6, <1>7, <1>8, <1>9 DEF Key

LEMMA RenderInv ==
  ASSUME ListInv, NEW visible \in Heights, render_record_list(visible)
  PROVE  ListInv'
<1>1. /\ xids \in Seq(Nat) /\ Len(xids) \in Nat /\ visible \in Nat /\ list_offset \in Nat
      /\ selected \in 0 .. Len(xids) - 1 \/ selected = NONE
      /\ xids' = xids /\ selected' = selected /\ xid_range' = xid_range /\ shown' = visible
  BY ListAssumption DEF ListInv, TypeOK, Indices, render_record_list
<1>2. Current \in Nat /\ (selected # NONE => Current = selected /\ Current < Len(xids))
  BY <1>1 DEF Current, NONE
<1>3. Followed(visible) \in Nat /\ saturating_sub(Len(xids), visible) \in Nat
  BY <1>1, <1>2 DEF Followed, saturating_sub
<1>4. list_offset' \in Nat
  BY <1>1, <1>3 DEF render_record_list, Filled, Smaller
<1>5. TypeOK'
  BY <1>1, <1>4 DEF ListInv, TypeOK, Indices
<1>6. CacheIsFresh'
  BY <1>1 DEF ListInv, CacheIsFresh, xid_range_of, Indices, At
<1>7. CASE visible = 0
  BY <1>1, <1>5, <1>6, <1>7 DEF ListInv, SelectedIsShown, WindowIsFull
<1>8. CASE visible > 0
  <2>1. list_offset' = Smaller(Followed(visible), saturating_sub(Len(xids), visible))
    BY <1>8 DEF render_record_list, Filled
  <2>2. WindowIsFull'
    BY <1>1, <1>3, <2>1 DEF WindowIsFull, Smaller, saturating_sub
  <2>3. ASSUME selected # NONE
        PROVE  list_offset' <= selected /\ selected < list_offset' + visible
    <3> DEFINE f == Followed(visible)
               full == saturating_sub(Len(xids), visible)
    <3>1. selected \in Nat /\ selected < Len(xids) /\ Current = selected
      BY <1>1, <1>2, <2>3
    <3>2. f <= selected /\ selected < f + visible
      BY <1>1, <1>8, <3>1 DEF Followed
    <3>3. full + visible >= Len(xids)
      BY <1>1 DEF saturating_sub
    <3> HIDE DEF f, full
    <3>4. list_offset' = Smaller(f, full) /\ f \in Nat /\ full \in Nat
      BY <1>3, <2>1 DEF f, full
    <3> QED
      BY <1>1, <3>1, <3>2, <3>3, <3>4 DEF Smaller
  <2>4. SelectedIsShown'
    BY <1>1, <2>3 DEF SelectedIsShown
  <2> QED
    BY <1>5, <1>6, <2>2, <2>4 DEF ListInv
<1> QED
  BY <1>1, <1>7, <1>8

LEMMA ListInvariant == Spec => []ListInv
<1>1. ListInv /\ [Next]_vars => ListInv'
  <2> SUFFICES ASSUME ListInv, [Next]_vars PROVE ListInv'
    OBVIOUS
  <2>1. CASE Key
    BY <2>1, KeyInv
  <2>2. CASE Render
    BY <2>2, RenderInv DEF Render
  <2>3. CASE UNCHANGED vars
    BY <2>3 DEF vars, ListInv, TypeOK, CacheIsFresh, SelectedIsShown, WindowIsFull, xid_range_of,
                Indices, At
  <2> QED
    BY <2>1, <2>2, <2>3 DEF Next
<1> QED
  BY <1>1, InitListInv, PTL DEF Spec

-----------------------------------------------------------------------------
(* What the cached extent makes of the graph.                              *)

LEMMA InvGraphIsExact == ListInv => GraphIsExact
<1> SUFFICES ASSUME ListInv, NEW i \in Indices PROVE prefix(i) = GraphOf(i)
  BY DEF GraphIsExact
<1>1. xids \in Seq(Nat) /\ Indices \subseteq Nat
  BY ListAssumption DEF ListInv, TypeOK, Indices
<1>2. CASE selected = NONE
  BY <1>2 DEF ListInv, CacheIsFresh, prefix, GraphOf
<1>3. CASE selected # NONE
  <2> DEFINE first == xid_range[1]
             last == xid_range[2]
             mine == {j \in Indices : At(j) = At(selected)}
  <2>1. selected \in Indices /\ xid_range = xid_range_of(selected) /\ xid_range \in Nat \X Nat
    BY <1>1, <1>3, RangeIsExtent DEF ListInv, TypeOK, CacheIsFresh
  <2>2. xid_range # NoRange
    BY <2>1 DEF NoRange
  <2>3. CASE At(selected) = 0
    <3>1. first = 0 /\ last = 0
      BY <2>1, <2>3 DEF xid_range_of
    <3> QED
      BY <1>1, <1>3, <2>2, <2>3, <3>1 DEF prefix, GraphOf
  <2>4. CASE At(selected) # 0
    <3>1. /\ first \in mine /\ \A k \in mine : first <= k
          /\ last \in mine /\ \A k \in mine : last >= k
      BY <1>1, <2>1, <2>4, RangeIsExtent
    <3> HIDE DEF mine
    <3>2. mine \subseteq Nat /\ i \in Nat /\ first \in mine /\ last \in mine
      BY <1>1, <3>1 DEF mine
    <3> HIDE DEF first, last
    <3>3. (\E j \in mine : j < i) <=> first < i
      <4>1. ASSUME NEW j \in mine, j < i PROVE first < i
        <5>1. first <= j /\ first \in Nat /\ j \in Nat /\ i \in Nat
          BY <3>1, <3>2
        <5> QED
          BY <4>1, <5>1
      <4> QED
        BY <3>2, <4>1
    <3>4. (\E j \in mine : j > i) <=> i < last
      <4>1. ASSUME NEW j \in mine, j > i PROVE i < last
        <5>1. last >= j /\ last \in Nat /\ j \in Nat /\ i \in Nat
          BY <3>1, <3>2
        <5> QED
          BY <4>1, <5>1
      <4> QED
        BY <3>2, <4>1
    <3>5. i \in mine <=> At(i) = At(selected)
      BY DEF mine
    <3>6. CASE i \in mine
      <4>1. first <= i /\ i <= last /\ first \in Nat /\ last \in Nat
        BY <3>1, <3>2, <3>6
      <4> QED
        BY <1>3, <2>2, <2>4, <3>2, <3>3, <3>4, <3>5, <3>6, <4>1 DEF prefix, GraphOf, mine, first, last
    <3>7. CASE i \notin mine
      BY <1>3, <2>2, <2>4, <3>2, <3>3, <3>4, <3>5, <3>7 DEF prefix, GraphOf, mine, first, last
    <3> QED
      BY <3>6, <3>7
  <2> QED
    BY <2>3, <2>4
<1> QED
  BY <1>2, <1>3

-----------------------------------------------------------------------------
(* The types of the list's state: the selection is always a record.        *)
THEOREM ListTypeCorrect == Spec => []TypeOK
  BY ListInvariant, PTL DEF ListInv

(* The window of every frame contains the selected row.                    *)
THEOREM WindowHasSelection == Spec => []SelectedIsShown
  BY ListInvariant, PTL DEF ListInv

(* No frame leaves rows empty that could show a record.                    *)
THEOREM WindowHasNoGap == Spec => []WindowIsFull
  BY ListInvariant, PTL DEF ListInv

(* The graph beside the list is that of the selected transaction, although *)
(* it is drawn from an extent computed when the selection last changed.    *)
THEOREM GraphOfSelection == Spec => []GraphIsExact
  BY InvGraphIsExact, ListInvariant, PTL

(* The window moves by as little as shows the selection.                   *)
THEOREM WindowMovesLittle == Spec => WindowMovesByNeed
<1> DEFINE need ==
      shown' > 0 =>
        /\ list_offset' > list_offset => selected = list_offset' + shown' - 1
        /\ list_offset' < list_offset => \/ selected = list_offset'
                                         \/ list_offset' = saturating_sub(Len(xids), shown')
<1>1. ASSUME ListInv, NEW visible \in Heights, render_record_list(visible), visible > 0
      PROVE  need
  <2> DEFINE f == Followed(visible)
             full == saturating_sub(Len(xids), visible)
  <2>1. /\ Len(xids) \in Nat /\ visible \in Nat /\ list_offset \in Nat /\ shown' = visible
        /\ \/ selected \in Nat /\ selected < Len(xids) /\ Current = selected
           \/ selected = NONE /\ Current = 0 /\ Len(xids) = 0
    <3>1. /\ xids \in Seq(Nat) /\ Len(xids) \in Nat /\ visible \in Nat /\ list_offset \in Nat
          /\ shown' = visible
      BY <1>1, ListAssumption DEF ListInv, TypeOK, render_record_list
    <3>2. CASE selected = NONE
      BY <1>1, <3>1, <3>2 DEF ListInv, CacheIsFresh, Current
    <3>3. CASE selected # NONE
      BY <1>1, <3>1, <3>3 DEF ListInv, TypeOK, Indices, Current
    <3> QED
      BY <3>1, <3>2, <3>3
  <2>2. full \in Nat /\ full + visible >= Len(xids) /\ (full > 0 => full + visible = Len(xids))
    BY <2>1 DEF saturating_sub
  <2>3. /\ f \in Nat
        /\ f > list_offset => Current # 0 /\ f = Current + 1 - visible
        /\ f < list_offset => f = Current
        /\ Current < list_offset => f < list_offset
    BY <1>1, <2>1 DEF Followed
  <2> HIDE DEF f
  <2>4. list_offset' = Smaller(f, full)
    BY <1>1 DEF render_record_list, Filled, f
  <2>5. list_offset' \in Nat
    BY <2>2, <2>3, <2>4 DEF Smaller
  <2>6. CASE list_offset' > list_offset
    <3>1. f > list_offset /\ full > list_offset /\ selected = Current /\ f = selected + 1 - visible
      BY <2>1, <2>2, <2>3, <2>4, <2>6 DEF Smaller
    <3>2. list_offset' = f
      BY <2>1, <2>2, <2>3, <2>4, <3>1 DEF Smaller
    <3> QED
      BY <2>1, <2>2, <2>3, <2>6, <3>1, <3>2
  <2>7. CASE list_offset' < list_offset
    <3>1. CASE list_offset' = full
      BY <2>1, <2>5, <2>7, <3>1
    <3>2. CASE list_offset' = f /\ f # full
      <4>1. f = Current /\ f < full
        BY <2>1, <2>2, <2>3, <2>4, <2>7, <3>2 DEF Smaller
      <4>2. Current = selected
        BY <2>1, <2>2, <2>3, <4>1
      <4> QED
        BY <2>1, <2>5, <2>7, <3>2, <4>1, <4>2
    <3> QED
      BY <2>4, <3>1, <3>2 DEF Smaller
  <2> QED
    BY <2>1, <2>5, <2>6, <2>7
<1>2. ListInv /\ [Next]_vars => [need]_vars
  <2> SUFFICES ASSUME ListInv, Next PROVE need
    OBVIOUS
  <2>1. CASE Key
    BY <2>1 DEF Key, Stale, move_record_down, move_record_up, move_top, move_bottom, page_up,
                page_down, move_next_same_xid, move_prev_same_xid
  <2>2. CASE Render
    <3>1. PICK visible \in Heights : render_record_list(visible)
      BY <2>2 DEF Render
    <3>2. shown' = visible
      BY <3>1 DEF render_record_list
    <3> QED
      BY <1>1, <3>1, <3>2
  <2> QED
    BY <2>1, <2>2 DEF Next
<1> QED
  BY <1>2, ListInvariant, PTL DEF Spec, WindowMovesByNeed

(* The keys s and r go where the graph says the transaction goes on.       *)
THEOREM KeysGoAlongGraph == Spec => []KeysFollowGraph
<1>1. ListInv => KeysFollowGraph
  <2> SUFFICES ASSUME ListInv, normal_xid PROVE KeysFollowGraph
    BY DEF KeysFollowGraph
  <2> DEFINE mine == {j \in Indices : At(j) = At(selected)}
  <2>1. /\ xids \in Seq(Nat) /\ Indices \subseteq Nat /\ Indices \subseteq 0 .. Len(xids)
        /\ Len(xids) \in Nat
        /\ selected \in mine /\ selected # NONE /\ At(selected) # 0
    BY ListAssumption DEF ListInv, TypeOK, Indices, At, normal_xid
  <2>2. ASSUME NEW i \in Indices PROVE prefix(i) = GraphOf(i)
    BY InvGraphIsExact DEF GraphIsExact
  <2>3. Marked = mine
    BY <2>1, <2>2 DEF Marked, GraphOf
  <2>4. /\ (Later = {}) <=> prefix(selected) \in {"single", "last"}
        /\ (Earlier = {}) <=> prefix(selected) \in {"single", "first"}
    BY <2>1, <2>2 DEF GraphOf, Later, Earlier
  <2>5. ASSUME Later # {}
        PROVE  next_same_xid \in Marked /\ \A i \in Marked : i > selected => next_same_xid <= i
    <3>1. \E i \in Later : \A j \in Later : i <= j
      BY <2>1, <2>5, Least DEF Later
    <3>2. next_same_xid \in Later /\ \A j \in Later : next_same_xid <= j
      BY <3>1 DEF next_same_xid
    <3> QED
      BY <2>3, <3>2 DEF Later
  <2>6. ASSUME Earlier # {}
        PROVE  prev_same_xid \in Marked /\ \A i \in Marked : i < selected => prev_same_xid >= i
    <3>1. \E i \in Earlier : \A j \in Earlier : i >= j
      BY <2>1, <2>6, Greatest DEF Earlier
    <3>2. prev_same_xid \in Earlier /\ \A j \in Earlier : prev_same_xid >= j
      BY <3>1 DEF prev_same_xid
    <3> QED
      BY <2>3, <3>2 DEF Earlier
  <2> QED
    BY <2>4, <2>5, <2>6 DEF KeysFollowGraph
<1> QED
  BY <1>1, ListInvariant, PTL
=============================================================================
