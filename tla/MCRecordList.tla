---------------------------- MODULE MCRecordList ----------------------------
(***************************************************************************)
(* Lists of up to five records of no transaction, of the bootstrap one and *)
(* of two real ones, and a longer one of three that are entangled.         *)
(***************************************************************************)
EXTENDS RecordList

Xids == {0, 1, 3, 4}

SmallLists == UNION {[1 .. n -> Xids] : n \in 0 .. 5} \cup {<<3, 4, 3, 0, 4, 3, 5, 4, 5>>}
=============================================================================
