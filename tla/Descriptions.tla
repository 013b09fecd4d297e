----------------------------- MODULE Descriptions -----------------------------
(***************************************************************************)
(* What the description modules (walmain.rs, rmgr.rs, the *desc.rs files)  *)
(* say about a record, as tables: the name of its operation, the names of  *)
(* its flags, and for each operation the program of reads that its parser  *)
(* makes on the payload.  Describe runs the programs.                      *)
(***************************************************************************)
EXTENDS Integers, Sequences

-----------------------------------------------------------------------------
(* The reads.  A program is a sequence of items; an item stands for the    *)
(* call of walmisc::Reader that the parser makes there and for the line it *)
(* pushes.                                                                 *)

Item(kind, name, width) == [kind |-> kind, name |-> name, width |-> width]

\* let x = r.read_..().unwrap_or(0).  Only of counts does the sign matter.
u8(name)  == Item("int", name, 1)
u16(name) == Item("int", name, 2)
u32(name) == Item("int", name, 4)
u64(name) == Item("int", name, 8)
unshown(name) == Item("unshown", name, 4)
\* Microseconds since 2000 (i64), shown as a date and a time as well.
time(name) == Item("time", name, 8)

\* Numbers that decide what comes next: a signed count (i32), an unsigned
\* size, and flags, with the table that names them.
count(name)    == Item("count", name, 4)
size(name, w)  == Item("size", name, w)
flags(name, w, table) ==
  [kind |-> "flags", name |-> name, width |-> w, table |-> table, optional |-> FALSE]

\* if let Some(x) = r.read_..(): no line without the bytes.
Some(item) == [item EXCEPT !.optional = TRUE]

skip(n)      == Item("skip", "padding", n)
cstr(name)   == Item("cstr", name, 0)
name64(name) == Item("name", name, 64)
\* data[offset], data[offset + 1] without asking whether they are there
indexed(name) == Item("indexed", name, 2)
\* A text as long as a size read before says, with its NUL.
sized(name, of) == [kind |-> "sized", name |-> name, width |-> 0, of |-> of]
\* How many units of so many bytes are left; a line even if there are none?
rest(name, unit, always) ==
  [kind |-> "rest", name |-> name, width |-> unit, always |-> always]

(***************************************************************************)
(* An array: elements of some numbers of one width, as many as the counts  *)
(* in of add up to, but at most cap.  An element of one number is read     *)
(* with if let, one of several with unwrap_or(0).  What is left out is     *)
(* announced or not (note): after a cast of the count to usize, or of what *)
(* is left of it when negative counts are clamped to zero.                 *)
(***************************************************************************)
array(name, w, numbers, of, cap, note) ==
  [kind |-> "array", name |-> name, width |-> w, numbers |-> numbers, of |-> of,
   cap |-> cap, note |-> note, over |-> FALSE]
\* ... and stepped over.
array_over(name, w, numbers, of, cap, note) ==
  [array(name, w, numbers, of, cap, note) EXCEPT !.over = TRUE]

\* if flags & (..) != 0, if info & 0x80 .., if r.remaining() >= n
Bits(field, bits) == [on |-> "bits", field |-> field, bits |-> bits]
Info80(set)       == [on |-> "info", set |-> set]
Room(n)           == [on |-> "room", bytes |-> n]
If(cond, items)   ==
  <<[kind |-> "if", name |-> "part", width |-> 0, cond |-> cond, jump |-> Len(items)]>> \o items

Locator == <<u32("spc"), u32("db"), u32("rel")>>

-----------------------------------------------------------------------------
(* Resource managers and their operations.  An operation is a nibble of    *)
(* xl_info, and the table lists them from 0.                               *)

Rmgrs == <<"Xlog", "Xact", "Smgr", "Clog", "Database", "Tablespace", "MultiXact", "Relmap",
           "Standby", "Heap2", "Heap", "Btree", "Hash", "Gin", "Gist", "Sequence", "SPGist",
           "Brin", "CommitTs", "ReplicationOrigin", "Generic", "LogicalMessage">>

Entry(table, n) == IF n < Len(table) THEN table[n + 1] ELSE "Unknown"

from_u8(id) == Entry(Rmgrs, id)

XlogOp == <<"CHECKPOINT_SHUTDOWN", "CHECKPOINT_ONLINE", "NOOP", "NEXTOID", "SWITCH",
            "BACKUP_END", "PARAMETER_CHANGE", "RESTORE_POINT", "FPW_CHANGE",
            "END_OF_RECOVERY", "FPI_FOR_HINT", "FPI", "ASSIGN_LSN", "OVERWRITE_CONTRECORD",
            "CHECKPOINT_REDO", "LOGICAL_DECODING_STATUS_CHANGE">>
XactOp == <<"COMMIT", "PREPARE", "ABORT", "COMMIT_PREPARED", "ABORT_PREPARED",
            "ASSIGNMENT", "INVALIDATION">>
SmgrOp == <<"Unknown", "CREATE", "TRUNCATE">>
ClogOp == <<"ZEROPAGE", "TRUNCATE">>
DatabaseOp == <<"CREATE_FILE_COPY", "CREATE_WAL_LOG", "DROP">>
TablespaceOp == <<"CREATE", "DROP">>
MultiXactOp == <<"ZERO_OFF_PAGE", "ZERO_MEM_PAGE", "CREATE_ID", "TRUNCATE_ID">>
RelmapOp == <<"UPDATE">>
StandbyOp == <<"LOCK", "RUNNING_XACTS", "INVALIDATIONS">>
Heap2Op == <<"REWRITE", "PRUNE_ON_ACCESS", "PRUNE_VACUUM_SCAN", "PRUNE_VACUUM_CLEANUP",
             "VISIBLE", "MULTI_INSERT", "LOCK_UPDATED", "NEW_CID">>
HeapOp == <<"INSERT", "DELETE", "UPDATE", "TRUNCATE", "HOT_UPDATE", "CONFIRM", "LOCK",
            "INPLACE">>
BtreeOp == <<"INSERT_LEAF", "INSERT_UPPER", "INSERT_META", "SPLIT_L", "SPLIT_R",
             "INSERT_POST", "DEDUP", "DELETE", "UNLINK_PAGE", "UNLINK_PAGE_META", "NEWROOT",
             "MARK_PAGE_HALFDEAD", "VACUUM", "REUSE_PAGE", "META_CLEANUP">>
HashOp == <<"INIT_META_PAGE", "INIT_BITMAP_PAGE", "INSERT", "ADD_OVFL_PAGE",
            "SPLIT_ALLOCATE_PAGE", "SPLIT_PAGE", "SPLIT_COMPLETE", "MOVE_PAGE_CONTENTS",
            "SQUEEZE_PAGE", "DELETE", "SPLIT_CLEANUP", "UPDATE_META_PAGE",
            "VACUUM_ONE_PAGE">>
GinOp == <<"Unknown", "CREATE_PTREE", "INSERT", "SPLIT", "VACUUM_PAGE", "DELETE_PAGE",
           "UPDATE_META_PAGE", "INSERT_LISTPAGE", "DELETE_LISTPAGE",
           "VACUUM_DATA_LEAF_PAGE">>
GistOp == <<"PAGE_UPDATE", "DELETE", "PAGE_REUSE", "PAGE_SPLIT", "Unknown", "Unknown",
            "PAGE_DELETE", "ASSIGN_LSN">>
SequenceOp == <<"LOG">>
SpGistOp == <<"Unknown", "ADD_LEAF", "MOVE_LEAFS", "ADD_NODE", "SPLIT_TUPLE", "PICKSPLIT",
              "VACUUM_LEAF", "VACUUM_ROOT", "VACUUM_REDIRECT">>
BrinOp == <<"CREATE_INDEX", "INSERT", "UPDATE", "SAMEPAGE_UPDATE", "REVMAP_EXTEND",
            "DESUMMARIZE">>
CommitTsOp == <<"ZEROPAGE", "TRUNCATE">>
ReplOriginOp == <<"SET", "DROP">>
LogicalMsgOp == <<"MESSAGE">>

Ops(rmgr) ==
  CASE rmgr = "Xlog" -> XlogOp             [] rmgr = "Xact" -> XactOp
    [] rmgr = "Smgr" -> SmgrOp             [] rmgr = "Clog" -> ClogOp
    [] rmgr = "Database" -> DatabaseOp     [] rmgr = "Tablespace" -> TablespaceOp
    [] rmgr = "MultiXact" -> MultiXactOp   [] rmgr = "Relmap" -> RelmapOp
    [] rmgr = "Standby" -> StandbyOp       [] rmgr = "Heap2" -> Heap2Op
    [] rmgr = "Heap" -> HeapOp             [] rmgr = "Btree" -> BtreeOp
    [] rmgr = "Hash" -> HashOp             [] rmgr = "Gin" -> GinOp
    [] rmgr = "Gist" -> GistOp             [] rmgr = "Sequence" -> SequenceOp
    [] rmgr = "SPGist" -> SpGistOp         [] rmgr = "Brin" -> BrinOp
    [] rmgr = "CommitTs" -> CommitTsOp     [] rmgr = "ReplicationOrigin" -> ReplOriginOp
    [] rmgr = "LogicalMessage" -> LogicalMsgOp
    [] OTHER -> <<>>

\* The masks: 0x70 where the top bit is a flag of its own, 0xF0 elsewhere.
TopBit(info) == info \div 128 = 1
Nibble(rmgr, info) ==
  IF rmgr \in {"Heap", "Heap2", "Brin", "Xact"} THEN (info \div 16) % 8 ELSE info \div 16

from_xl_info(rmgr, info) == Entry(Ops(rmgr), Nibble(rmgr, info))

\* GenericOp: the number of modified pages, out of the low nibble.
page_count(info) == info % 16

\* The name in the record list, e.g. "HOT_UPDATE" with init ("+INIT").
describe_record(rmgr, info) ==
  [op    |-> IF rmgr = "Generic" THEN "MODIFY" ELSE from_xl_info(rmgr, info),
   init  |-> rmgr \in {"Heap", "Heap2", "Brin"} /\ TopBit(info),
   pages |-> IF rmgr = "Generic" THEN page_count(info) ELSE 0]

-----------------------------------------------------------------------------
(* The names of flags: the bit that each name is pushed for.               *)

decode_heap_insert_flags ==
  [ALL_VISIBLE_CLEARED |-> 0, LAST_IN_MULTI |-> 1, IS_SPECULATIVE |-> 2,
   CONTAINS_NEW_TUPLE |-> 3, ON_TOAST_RELATION |-> 4, ALL_FROZEN_SET |-> 5]

decode_infobits ==
  [XMAX_IS_MULTI |-> 0, XMAX_LOCK_ONLY |-> 1, XMAX_EXCL_LOCK |-> 2,
   XMAX_KEYSHR_LOCK |-> 3, KEYS_UPDATED |-> 4]

\* Faulty: a name is missing, and the bits of those after it move up.
decode_heap_delete_flags_Shifted ==
  [ALL_VISIBLE_CLEARED |-> 0, CONTAINS_OLD_KEY |-> 1, IS_SUPER |-> 2,
   IS_PARTITION_MOVE |-> 3]

decode_heap_delete_flags ==
  [ALL_VISIBLE_CLEARED |-> 0, CONTAINS_OLD_TUPLE |-> 1, CONTAINS_OLD_KEY |-> 2,
   IS_SUPER |-> 3, IS_PARTITION_MOVE |-> 4]

decode_heap_update_flags ==
  [OLD_ALL_VISIBLE_CLEARED |-> 0, NEW_ALL_VISIBLE_CLEARED |-> 1, CONTAINS_OLD_TUPLE |-> 2,
   CONTAINS_OLD_KEY |-> 3, CONTAINS_NEW_TUPLE |-> 4, PREFIX_FROM_OLD |-> 5,
   SUFFIX_FROM_OLD |-> 6]

decode_t_infomask ==
  [HASNULL |-> 0, HASVARWIDTH |-> 1, HASEXTERNAL |-> 2, HASOID_OLD |-> 3,
   XMAX_KEYSHR_LOCK |-> 4, COMBOCID |-> 5, XMAX_EXCL_LOCK |-> 6, XMAX_LOCK_ONLY |-> 7,
   XMIN_COMMITTED |-> 8, XMIN_INVALID |-> 9, XMAX_COMMITTED |-> 10, XMAX_INVALID |-> 11,
   XMAX_IS_MULTI |-> 12, UPDATED |-> 13, MOVED_OFF |-> 14, MOVED_IN |-> 15]

\* Bits 0 to 10 are the number of attributes.
decode_t_infomask2 ==
  [KEYS_UPDATED |-> 11, HOT_UPDATED |-> 12, ONLY_FROZEN |-> 13, NOT_ONLY_FROZEN |-> 14,
   HEAP_ONLY |-> 15]

decode_xl_heap_visible_flags == [ALL_VISIBLE |-> 0, ALL_FROZEN |-> 1, CATALOG_REL |-> 2]

fmt_prune_flags ==
  [IS_CATALOG_REL |-> 1, CLEANUP_LOCK |-> 2, HAS_CONFLICT_HORIZON |-> 3,
   HAS_FREEZE_PLANS |-> 4, HAS_REDIRECTIONS |-> 5, HAS_DEAD_ITEMS |-> 6,
   HAS_NOW_UNUSED_ITEMS |-> 7]

decode_smgr_truncate_flags == [HEAP |-> 0, VM |-> 1, FSM |-> 2]

decode_xact_xinfo ==
  [HAS_DBINFO |-> 0, HAS_SUBXACTS |-> 1, HAS_RELFILELOCATORS |-> 2, HAS_INVALS |-> 3,
   HAS_TWOPHASE |-> 4, HAS_ORIGIN |-> 5, HAS_AE_LOCKS |-> 6, HAS_GID |-> 7,
   HAS_DROPPED_STATS |-> 8, APPLY_FEEDBACK |-> 29, UPDATE_RELCACHE_FILE |-> 30,
   FORCE_SYNC_COMMIT |-> 31]

\* Written in place in heapdesc.rs and heap2desc.rs.
truncate_flags == [CASCADE |-> 0, RESTART_SEQS |-> 1]
lock_flags     == [ALL_FROZEN_CLEARED |-> 0]

Named(table, bits) == {n \in DOMAIN table : table[n] \in bits}

-----------------------------------------------------------------------------
(* The parsers, one program per operation.  An operation that is not in    *)
(* the table is only counted: "(n bytes, unknown op)".                     *)

checkpoint ==
  <<u64("redo"), u32("ThisTimeLineID"), u32("PrevTimeLineID"), u8("fullPageWrites"), skip(3),
    u32("wal_level"), u64("nextXid"), u32("nextOid"), u32("nextMulti"),
    u32("nextMultiOffset"), u32("oldestXid"), u32("oldestXidDB"), u32("oldestMulti"),
    u32("oldestMultiDB"), skip(4), u64("time"), u32("oldestCommitTsXid"),
    u32("newestCommitTsXid"), u32("oldestActiveXid")>>

describe_xlog_main ==
  [CHECKPOINT_SHUTDOWN |-> checkpoint, CHECKPOINT_ONLINE |-> checkpoint,
   NEXTOID |-> <<u32("nextOid")>>,
   BACKUP_END |-> <<u64("startpoint")>>,
   PARAMETER_CHANGE |->
     <<u32("MaxConnections"), u32("max_worker_processes"), u32("max_wal_senders"),
       u32("max_prepared_xacts"), u32("max_locks_per_xact"), u32("wal_level"),
       u8("wal_log_hints"), u8("track_commit_timestamp")>>,
   RESTORE_POINT |-> <<time("rp_time"), name64("rp_name")>>,
   FPW_CHANGE |-> <<u8("fullPageWrites")>>,
   END_OF_RECOVERY |->
     <<time("end_time"), u32("ThisTimeLineID"), u32("PrevTimeLineID"), u32("wal_level")>>,
   OVERWRITE_CONTRECORD |-> <<u64("overwritten_lsn"), time("overwrite_time")>>]

\* Faulty: the elements that the cap leaves out are not stepped over.
parse_xact_subrecords_NotOver(is_commit) ==
     If(Bits("xinfo", {0}), <<u32("dbId"), u32("tsId")>>)
  \o If(Bits("xinfo", {1}),
        <<count("nsubxacts"), array("subxid", 4, 1, {"nsubxacts"}, 8, "cast")>>)
  \o If(Bits("xinfo", {2}),
        <<count("nrels"), array("rel", 4, 3, {"nrels"}, 8, "cast")>>)
  \o (IF is_commit THEN If(Bits("xinfo", {3}), <<u32("ninvals")>>) ELSE <<>>)
  \o If(Bits("xinfo", {4}), <<u32("2pc_xid")>>)
  \o If(Bits("xinfo", {7}), <<cstr("gid")>>)
  \o If(Bits("xinfo", {5}), <<u64("origin_lsn"), time("origin_ts")>>)

parse_xact_subrecords(is_commit) ==
     If(Bits("xinfo", {0}), <<u32("dbId"), u32("tsId")>>)
  \o If(Bits("xinfo", {1}),
        <<count("nsubxacts"), array_over("subxid", 4, 1, {"nsubxacts"}, 8, "cast")>>)
  \o If(Bits("xinfo", {2}),
        <<count("nrels"), array_over("rel", 4, 3, {"nrels"}, 8, "cast")>>)
  \o (IF is_commit THEN If(Bits("xinfo", {3}), <<u32("ninvals")>>) ELSE <<>>)
  \o If(Bits("xinfo", {4}), <<u32("2pc_xid")>>)
  \o If(Bits("xinfo", {7}), <<cstr("gid")>>)
  \o If(Bits("xinfo", {5}), <<u64("origin_lsn"), time("origin_ts")>>)

xact_end(is_commit) ==
  <<time("xact_time")>>
    \o If(Info80(TRUE), <<Some(flags("xinfo", 4, decode_xact_xinfo))>>
                          \o parse_xact_subrecords(is_commit))

describe_xact_main ==
  [COMMIT |-> xact_end(TRUE), COMMIT_PREPARED |-> xact_end(TRUE),
   ABORT |-> xact_end(FALSE), ABORT_PREPARED |-> xact_end(FALSE),
   PREPARE |->
     <<u32("magic"), u32("total_len"), u32("xid"), u32("database"), time("prepared_at"),
       u32("owner"), u32("nsubxacts"), u32("ncommitrels"), u32("nabortrels"),
       unshown("ncommitstats"), unshown("nabortstats"), u32("ninvalmsgs"),
       u8("initfileinval"), skip(1), size("gidlen", 2), u64("origin_lsn"),
       sized("gid", "gidlen")>>,
   ASSIGNMENT |->
     <<u32("xtop"), count("nsubxacts"), array("xsub", 4, 1, {"nsubxacts"}, 16, "cast")>>,
   INVALIDATION |-> <<rest("invalidation messages", 1, TRUE)>>]

describe_smgr_main ==
  [CREATE |-> Locator \o <<u32("forkNum")>>,
   TRUNCATE |-> <<u32("blkno")>> \o Locator
                  \o <<flags("flags", 4, decode_smgr_truncate_flags)>>]

describe_clog_main ==
  [ZEROPAGE |-> <<u64("pageno")>>,
   TRUNCATE |-> <<u64("pageno"), u32("oldestXact"), u32("oldestXactDB")>>]

describe_database_main ==
  [CREATE_FILE_COPY |->
     <<u32("db_id"), u32("tablespace_id"), u32("src_db_id"), u32("src_tablespace")>>,
   CREATE_WAL_LOG |-> <<u32("db_id"), u32("tablespace_id")>>,
   DROP |-> <<u32("db_id"), count("ntablespaces"),
              array("tablespace", 4, 1, {"ntablespaces"}, 16, "none")>>]

describe_tablespace_main ==
  [CREATE |-> <<u32("ts_id"), cstr("ts_path")>>, DROP |-> <<u32("ts_id")>>]

describe_multixact_main ==
  [ZERO_OFF_PAGE |-> <<u64("pageno")>>, ZERO_MEM_PAGE |-> <<u64("pageno")>>,
   CREATE_ID |-> <<u32("mid"), u32("moff"), count("nmembers"),
                   array("member", 4, 2, {"nmembers"}, 8, "cast")>>,
   TRUNCATE_ID |-> <<u32("oldestMultiDB"), u32("startTruncOff"), u32("endTruncOff"),
                     u32("startTruncMemb"), u32("endTruncMemb")>>]

describe_relmap_main == [UPDATE |-> <<u32("dbid"), u32("tsid"), u32("nbytes")>>]

describe_standby_main ==
  [LOCK |-> <<count("nlocks"), array("lock", 4, 3, {"nlocks"}, 16, "none")>>,
   RUNNING_XACTS |->
     <<count("xcnt"), count("subxcnt"), u8("subxid_overflow"), skip(3), u32("nextXid"),
       u32("oldestRunningXid"), u32("latestCompletedXid"),
       array("xid", 4, 1, {"xcnt", "subxcnt"}, 16, "clamped")>>,
   INVALIDATIONS |->
     <<u32("dbId"), u32("tsId"), u8("relcacheInitFileInval"), skip(3), u32("nmsgs")>>]

prune ==
  <<u8("reason"), flags("flags", 1, fmt_prune_flags)>>
    \o If(Bits("flags", {3}), <<u32("conflict_horizon")>>)

heap_lock ==
  <<u32("xmax"), u16("offnum"), flags("infobits_set", 1, decode_infobits),
    flags("flags", 1, lock_flags)>>

describe_heap2_main ==
  [REWRITE |->
     <<u32("mapped_xid"), u32("mapped_db"), u32("mapped_rel"), skip(4), u64("offset"),
       u32("num_mappings"), skip(4), u64("start_lsn")>>,
   PRUNE_ON_ACCESS |-> prune, PRUNE_VACUUM_SCAN |-> prune, PRUNE_VACUUM_CLEANUP |-> prune,
   VISIBLE |-> <<u32("snapshotConflictHorizon"),
                 flags("flags", 1, decode_xl_heap_visible_flags)>>,
   MULTI_INSERT |->
     <<flags("flags", 1, decode_heap_insert_flags), skip(1), size("ntuples", 2)>>
       \o If(Info80(FALSE), <<array("offsets", 2, 1, {"ntuples"}, 16, "clamped")>>),
   LOCK_UPDATED |-> heap_lock,
   NEW_CID |-> <<u32("top_xid"), u32("cmin"), u32("cmax"), u32("combocid")>> \o Locator
                 \o <<u16("bi_hi"), u16("bi_lo"), u16("posid")>>]

describe_heap2_block_data == <<rest("block data", 1, TRUE)>>

\* Five bytes that are only read when all of them are there; a line that says that
\* they are not is left out.
parse_xl_heap_header ==
  If(Room(5), <<flags("t_infomask2", 2, decode_t_infomask2),
                flags("t_infomask", 2, decode_t_infomask), u8("t_hoff")>>)

heap_update ==
  <<u32("old_xmax"), u16("old_offnum"), flags("old_infobits_set", 1, decode_infobits),
    flags("flags", 1, decode_heap_update_flags), u32("new_xmax"), u16("new_offnum")>>
    \o If(Bits("flags", {2, 3}), parse_xl_heap_header)

describe_heap_main ==
  [INSERT |-> <<u16("offnum"), flags("flags", 1, decode_heap_insert_flags)>>,
   DELETE |->
     <<u32("xmax"), u16("offnum"), flags("infobits_set", 1, decode_infobits),
       flags("flags", 1, decode_heap_delete_flags)>>
       \o If(Bits("flags", {1, 2}), parse_xl_heap_header),
   UPDATE |-> heap_update, HOT_UPDATE |-> heap_update,
   TRUNCATE |->
     <<u32("dbId"), size("nrelids", 4), flags("flags", 1, truncate_flags), skip(3),
       array("relids", 4, 1, {"nrelids"}, 16, "clamped")>>,
   CONFIRM |-> <<u16("offnum")>>,
   LOCK |-> heap_lock,
   INPLACE |-> <<u16("offnum"), skip(2), u32("dbId"), u32("tsId"),
                 u8("relcacheInitFileInval"), skip(3), u32("nmsgs")>>]

\* The flags are those of the main data: see Begin in Describe.
heap_new_tuple ==
  If(Bits("flags", {5}), <<indexed("prefix_from_old")>>)
    \o If(Bits("flags", {6}), <<indexed("suffix_from_old")>>)
    \o parse_xl_heap_header \o <<rest("new tuple data", 1, FALSE)>>

describe_heap_block_data ==
  [INSERT |-> parse_xl_heap_header \o <<rest("tuple data", 1, FALSE)>>,
   UPDATE |-> heap_new_tuple, HOT_UPDATE |-> heap_new_tuple]

parse_btree_metadata ==
  <<u32("meta.version"), u32("meta.root"), u32("meta.level"), u32("meta.fastroot"),
    u32("meta.fastlevel"), u32("meta.last_cleanup_delpages"), u8("meta.allequalimage")>>

btree_split == <<u32("level"), u16("firstrightoff"), u16("newitemoff"), u16("postingoff")>>

btree_unlink ==
  <<u32("leftsib"), u32("rightsib"), u32("level"), skip(4), u64("safexid"),
    u32("leafleftsib"), u32("leafrightsib"), u32("leaftopparent")>>

describe_btree_main ==
  [INSERT_LEAF |-> <<u16("offnum")>>, INSERT_UPPER |-> <<u16("offnum")>>,
   INSERT_POST |-> <<u16("offnum")>>,
   INSERT_META |-> <<u16("offnum")>> \o If(Room(28), parse_btree_metadata),
   SPLIT_L |-> btree_split, SPLIT_R |-> btree_split,
   DEDUP |-> <<u16("nintervals")>>,
   DELETE |-> <<u32("snapshotConflictHorizon"), u16("ndeleted"), u16("nupdated"),
                u8("isCatalogRel")>>,
   VACUUM |-> <<u16("ndeleted"), u16("nupdated")>>,
   MARK_PAGE_HALFDEAD |-> <<u16("poffset"), skip(2), u32("leafblk"), u32("leftblk"),
                            u32("rightblk"), u32("topparent")>>,
   UNLINK_PAGE |-> btree_unlink, UNLINK_PAGE_META |-> btree_unlink \o parse_btree_metadata,
   NEWROOT |-> <<u32("rootblk"), u32("level")>>,
   REUSE_PAGE |-> Locator \o <<u32("block"), u64("snapshotConflictHorizon"),
                               u8("isCatalogRel")>>,
   META_CLEANUP |-> parse_btree_metadata]

describe_seq_main == [LOG |-> Locator \o <<rest("tuple data", 1, TRUE)>>]

describe_commit_ts_main ==
  [ZEROPAGE |-> If(Room(14), <<time("timestamp"), u16("nodeid"), skip(2), u32("mainxid"),
                               rest("subxids", 4, FALSE)>>),
   TRUNCATE |-> <<u64("pageno"), u32("oldestXid")>>]

describe_replorigin_main ==
  [SET |-> <<u64("remote_lsn"), u16("node_id"), u8("force")>>, DROP |-> <<u16("node_id")>>]

describe_logical_msg_main ==
  [MESSAGE |-> <<u32("dbId"), u8("transactional"), skip(3), size("prefix_size", 8),
                 u64("message_size"), sized("prefix", "prefix_size")>>]

Program(table, op) == IF op \in DOMAIN table THEN table[op] ELSE <<>>

\* The program for main data: the match of describe_main_data.
describe_main_data(rmgr, op) ==
  CASE rmgr = "Heap" -> Program(describe_heap_main, op)
    [] rmgr = "Heap2" -> Program(describe_heap2_main, op)
    [] rmgr = "Xact" -> Program(describe_xact_main, op)
    [] rmgr = "Xlog" -> Program(describe_xlog_main, op)
    [] rmgr = "Smgr" -> Program(describe_smgr_main, op)
    [] rmgr = "Clog" -> Program(describe_clog_main, op)
    [] rmgr = "Database" -> Program(describe_database_main, op)
    [] rmgr = "Tablespace" -> Program(describe_tablespace_main, op)
    [] rmgr = "MultiXact" -> Program(describe_multixact_main, op)
    [] rmgr = "Relmap" -> Program(describe_relmap_main, op)
    [] rmgr = "Standby" -> Program(describe_standby_main, op)
    [] rmgr = "Btree" -> Program(describe_btree_main, op)
    [] rmgr = "Sequence" -> Program(describe_seq_main, op)
    [] rmgr = "CommitTs" -> Program(describe_commit_ts_main, op)
    [] rmgr = "ReplicationOrigin" -> Program(describe_replorigin_main, op)
    [] rmgr = "LogicalMessage" -> Program(describe_logical_msg_main, op)
    [] OTHER -> <<>>

\* The program for the data of block number idx.
describe_block_data(rmgr, op, idx) ==
  CASE rmgr = "Heap" /\ idx = 0 -> Program(describe_heap_block_data, op)
    [] rmgr = "Heap2" -> describe_heap2_block_data
    [] OTHER -> <<>>
=============================================================================
