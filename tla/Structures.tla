------------------------------ MODULE Structures ------------------------------
(***************************************************************************)
(* What a server writes into the records that the parsers of Descriptions  *)
(* read: the members of the structures in the headers of PostgreSQL 18     *)
(* (access/*xlog.h, access/xact.h, catalog/pg_control.h and others), in    *)
(* their order, and the parts that a record has only sometimes.            *)
(* Descriptions is what pg_walview takes the bytes for; this is what they  *)
(* are.  A member that a line shows has the name that the line has.  The   *)
(* paddings are listed where the compiler puts them; what they come to is  *)
(* a matter of alignment, in Payloads.                                     *)
(***************************************************************************)
EXTENDS Descriptions

\* Flags, an array of as many elements as counts say, and data of any length.
bits(name, w) == Item("flags", name, w)
elements(name, w, numbers, of) ==
  [kind |-> "array", name |-> name, width |-> w, numbers |-> numbers, of |-> of]
units(name, w) == Item("rest", name, w)

\* A structure behind another one, and one that the data of a block holds instead.
Inner(items)   == If([on |-> "inside"], items)
InBlock(items) == If([on |-> "block"], items)

\* A part, with the part in front of it that no parser reads, if there is one.
Behind(unread, cond, items) ==
  <<[kind |-> "if", name |-> unread, width |-> 0, cond |-> cond, jump |-> Len(items)]>> \o items

-----------------------------------------------------------------------------

CheckPoint ==
  <<u64("redo"), u32("ThisTimeLineID"), u32("PrevTimeLineID"), u8("fullPageWrites"), skip(3),
    u32("wal_level"), u64("nextXid"), u32("nextOid"), u32("nextMulti"),
    u32("nextMultiOffset"), u32("oldestXid"), u32("oldestXidDB"), u32("oldestMulti"),
    u32("oldestMultiDB"), skip(4), u64("time"), u32("oldestCommitTsXid"),
    u32("newestCommitTsXid"), u32("oldestActiveXid")>>

xlog_structures ==
  [CHECKPOINT_SHUTDOWN |-> CheckPoint, CHECKPOINT_ONLINE |-> CheckPoint,
   NEXTOID |-> <<u32("nextOid")>>,
   BACKUP_END |-> <<u64("startpoint")>>,
   PARAMETER_CHANGE |->
     <<u32("MaxConnections"), u32("max_worker_processes"), u32("max_wal_senders"),
       u32("max_prepared_xacts"), u32("max_locks_per_xact"), u32("wal_level"),
       u8("wal_log_hints"), u8("track_commit_timestamp")>>,
   RESTORE_POINT |-> <<time("rp_time"), name64("rp_name")>>,
   FPW_CHANGE |-> <<u8("fullPageWrites")>>,
   END_OF_RECOVERY |->
     <<time("end_time"), u32("ThisTimeLineID"), u32("PrevTimeLineID"), u32("wal_level")>>,
   OVERWRITE_CONTRECORD |-> <<u64("overwritten_lsn"), time("overwrite_time")>>]

\* xl_xact_dbinfo, xl_xact_subxacts, xl_xact_relfilelocators, xl_xact_stats_items,
\* xl_xact_invals, xl_xact_twophase, the gid and xl_xact_origin, in this order.
xact_parts(is_commit) ==
     If(Bits("xinfo", {0}), <<u32("dbId"), u32("tsId")>>)
  \o If(Bits("xinfo", {1}), <<count("nsubxacts"), elements("subxid", 4, 1, {"nsubxacts"})>>)
  \o If(Bits("xinfo", {2}), <<count("nrels"), elements("rel", 4, 3, {"nrels"})>>)
  \o (IF is_commit THEN Behind("stats", Bits("xinfo", {3}), <<count("ninvals")>>) ELSE <<>>)
  \o Behind(IF is_commit THEN "messages" ELSE "stats", Bits("xinfo", {4}), <<u32("2pc_xid")>>)
  \o If(Bits("xinfo", {7}), <<cstr("gid")>>)
  \o If(Bits("xinfo", {5}), <<u64("origin_lsn"), time("origin_ts")>>)

xl_xact(is_commit) ==
  <<time("xact_time")>> \o If(Info80(TRUE), <<bits("xinfo", 4)>> \o xact_parts(is_commit))

xact_structures ==
  [COMMIT |-> xl_xact(TRUE), COMMIT_PREPARED |-> xl_xact(TRUE),
   ABORT |-> xl_xact(FALSE), ABORT_PREPARED |-> xl_xact(FALSE),
   PREPARE |->
     <<u32("magic"), u32("total_len"), u32("xid"), u32("database"), time("prepared_at"),
       u32("owner"), u32("nsubxacts"), u32("ncommitrels"), u32("nabortrels"),
       u32("ncommitstats"), u32("nabortstats"), u32("ninvalmsgs"), u8("initfileinval"),
       skip(1), size("gidlen", 2), u64("origin_lsn"), time("origin_timestamp"),
       sized("gid", "gidlen")>>,
   ASSIGNMENT |->
     <<u32("xtop"), count("nsubxacts"), elements("xsub", 4, 1, {"nsubxacts"})>>,
   INVALIDATION |-> <<units("invalidation messages", 1)>>]

smgr_structures ==
  [CREATE |-> Locator \o <<u32("forkNum")>>,
   TRUNCATE |-> <<u32("blkno")>> \o Locator \o <<bits("flags", 4)>>]

clog_structures ==
  [ZEROPAGE |-> <<u64("pageno")>>,
   TRUNCATE |-> <<u64("pageno"), u32("oldestXact"), u32("oldestXactDB")>>]

database_structures ==
  [CREATE_FILE_COPY |->
     <<u32("db_id"), u32("tablespace_id"), u32("src_db_id"), u32("src_tablespace")>>,
   CREATE_WAL_LOG |-> <<u32("db_id"), u32("tablespace_id")>>,
   DROP |-> <<u32("db_id"), count("ntablespaces"),
              elements("tablespace", 4, 1, {"ntablespaces"})>>]

tablespace_structures ==
  [CREATE |-> <<u32("ts_id"), cstr("ts_path")>>, DROP |-> <<u32("ts_id")>>]

multixact_structures ==
  [ZERO_OFF_PAGE |-> <<u64("pageno")>>, ZERO_MEM_PAGE |-> <<u64("pageno")>>,
   CREATE_ID |-> <<u32("mid"), u32("moff"), count("nmembers"),
                   elements("member", 4, 2, {"nmembers"})>>,
   TRUNCATE_ID |-> <<u32("oldestMultiDB"), u32("startTruncOff"), u32("endTruncOff"),
                     u32("startTruncMemb"), u32("endTruncMemb")>>]

relmap_structures ==
  [UPDATE |-> <<u32("dbid"), u32("tsid"), u32("nbytes"), units("map", 4)>>]

standby_structures ==
  [LOCK |-> <<count("nlocks"), elements("lock", 4, 3, {"nlocks"})>>,
   RUNNING_XACTS |->
     <<count("xcnt"), count("subxcnt"), u8("subxid_overflow"), skip(3), u32("nextXid"),
       u32("oldestRunningXid"), u32("latestCompletedXid"),
       elements("xid", 4, 1, {"xcnt", "subxcnt"})>>,
   INVALIDATIONS |->
     <<u32("dbId"), u32("tsId"), u8("relcacheInitFileInval"), skip(3), u32("nmsgs"),
       units("msgs", 16)>>]

xl_heap_prune ==
  <<u8("reason"), bits("flags", 1)>> \o If(Bits("flags", {3}), <<u32("conflict_horizon")>>)

xl_heap_lock == <<u32("xmax"), u16("offnum"), bits("infobits_set", 1), bits("flags", 1)>>

heap2_structures ==
  [REWRITE |->
     <<u32("mapped_xid"), u32("mapped_db"), u32("mapped_rel"), skip(4), u64("offset"),
       u32("num_mappings"), skip(4), u64("start_lsn"), units("mappings", 4)>>,
   PRUNE_ON_ACCESS |-> xl_heap_prune, PRUNE_VACUUM_SCAN |-> xl_heap_prune,
   PRUNE_VACUUM_CLEANUP |-> xl_heap_prune,
   VISIBLE |-> <<u32("snapshotConflictHorizon"), bits("flags", 1)>>,
   MULTI_INSERT |->
     <<bits("flags", 1), skip(1), size("ntuples", 2)>>
       \o If(Info80(FALSE), <<elements("offsets", 2, 1, {"ntuples"})>>),
   LOCK_UPDATED |-> xl_heap_lock,
   NEW_CID |-> <<u32("top_xid"), u32("cmin"), u32("cmax"), u32("combocid")>> \o Locator
                 \o <<u16("bi_hi"), u16("bi_lo"), u16("posid")>>]

\* What stands for a tuple: its header, five bytes, with the rest of it behind.
xl_heap_header == Inner(<<bits("t_infomask2", 2), bits("t_infomask", 2), u8("t_hoff")>>)

xl_heap_update ==
  <<u32("old_xmax"), u16("old_offnum"), bits("old_infobits_set", 1), bits("flags", 1),
    u32("new_xmax"), u16("new_offnum")>>
    \o If(Bits("flags", {2, 3}), xl_heap_header)
    \o If(Bits("flags", {2, 3}), <<units("old tuple", 1)>>)

heap_structures ==
  [INSERT |-> <<u16("offnum"), bits("flags", 1)>>,
   DELETE |->
     <<u32("xmax"), u16("offnum"), bits("infobits_set", 1), bits("flags", 1)>>
       \o If(Bits("flags", {1, 2}), xl_heap_header)
       \o If(Bits("flags", {1, 2}), <<units("old tuple", 1)>>),
   UPDATE |-> xl_heap_update, HOT_UPDATE |-> xl_heap_update,
   TRUNCATE |->
     <<u32("dbId"), size("nrelids", 4), bits("flags", 1), skip(3),
       elements("relids", 4, 1, {"nrelids"})>>,
   CONFIRM |-> <<u16("offnum")>>,
   LOCK |-> xl_heap_lock,
   INPLACE |-> <<u16("offnum"), skip(2), u32("dbId"), u32("tsId"),
                 u8("relcacheInitFileInval"), skip(3), u32("nmsgs"), units("msgs", 16)>>]

xl_btree_metadata ==
  <<u32("meta.version"), u32("meta.root"), u32("meta.level"), u32("meta.fastroot"),
    u32("meta.fastlevel"), u32("meta.last_cleanup_delpages"), u8("meta.allequalimage")>>

xl_btree_split == <<u32("level"), u16("firstrightoff"), u16("newitemoff"), u16("postingoff")>>

xl_btree_unlink_page ==
  <<u32("leftsib"), u32("rightsib"), u32("level"), skip(4), u64("safexid"),
    u32("leafleftsib"), u32("leafrightsib"), u32("leaftopparent")>>

btree_structures ==
  [INSERT_LEAF |-> <<u16("offnum")>>, INSERT_UPPER |-> <<u16("offnum")>>,
   INSERT_POST |-> <<u16("offnum")>>,
   INSERT_META |-> <<u16("offnum")>> \o InBlock(xl_btree_metadata),
   SPLIT_L |-> xl_btree_split, SPLIT_R |-> xl_btree_split,
   DEDUP |-> <<u16("nintervals")>>,
   DELETE |-> <<u32("snapshotConflictHorizon"), u16("ndeleted"), u16("nupdated"),
                u8("isCatalogRel")>>,
   VACUUM |-> <<u16("ndeleted"), u16("nupdated")>>,
   MARK_PAGE_HALFDEAD |-> <<u16("poffset"), skip(2), u32("leafblk"), u32("leftblk"),
                            u32("rightblk"), u32("topparent")>>,
   UNLINK_PAGE |-> xl_btree_unlink_page,
   UNLINK_PAGE_META |-> xl_btree_unlink_page \o InBlock(xl_btree_metadata),
   NEWROOT |-> <<u32("rootblk"), u32("level")>>,
   REUSE_PAGE |-> Locator \o <<u32("block"), u64("snapshotConflictHorizon"),
                               u8("isCatalogRel")>>,
   META_CLEANUP |-> InBlock(xl_btree_metadata)]

sequence_structures == [LOG |-> Locator \o <<units("tuple data", 1)>>]

commit_ts_structures ==
  [ZEROPAGE |-> <<u64("pageno")>>, TRUNCATE |-> <<u64("pageno"), u32("oldestXid")>>]

replorigin_structures ==
  [SET |-> <<u64("remote_lsn"), u16("node_id"), u8("force")>>, DROP |-> <<u16("node_id")>>]

logical_msg_structures ==
  [MESSAGE |-> <<u32("dbId"), u8("transactional"), skip(3), size("prefix_size", 8),
                 u64("message_size"), sized("prefix", "prefix_size"), units("message", 1)>>]

\* The structure of the main data of an operation.
MainStructure(rmgr, op) ==
  CASE rmgr = "Heap" -> Program(heap_structures, op)
    [] rmgr = "Heap2" -> Program(heap2_structures, op)
    [] rmgr = "Xact" -> Program(xact_structures, op)
    [] rmgr = "Xlog" -> Program(xlog_structures, op)
    [] rmgr = "Smgr" -> Program(smgr_structures, op)
    [] rmgr = "Clog" -> Program(clog_structures, op)
    [] rmgr = "Database" -> Program(database_structures, op)
    [] rmgr = "Tablespace" -> Program(tablespace_structures, op)
    [] rmgr = "MultiXact" -> Program(multixact_structures, op)
    [] rmgr = "Relmap" -> Program(relmap_structures, op)
    [] rmgr = "Standby" -> Program(standby_structures, op)
    [] rmgr = "Btree" -> Program(btree_structures, op)
    [] rmgr = "Sequence" -> Program(sequence_structures, op)
    [] rmgr = "CommitTs" -> Program(commit_ts_structures, op)
    [] rmgr = "ReplicationOrigin" -> Program(replorigin_structures, op)
    [] rmgr = "LogicalMessage" -> Program(logical_msg_structures, op)
    [] OTHER -> <<>>

\* The new tuple of an update, without what it shares with the old one.
xl_heap_new_tuple ==
  If(Bits("flags", {5}), <<indexed("prefix_from_old")>>)
    \o If(Bits("flags", {6}), <<indexed("suffix_from_old")>>)
    \o xl_heap_header \o <<units("new tuple data", 1)>>

heap_block_structures ==
  [INSERT |-> xl_heap_header \o <<units("tuple data", 1)>>,
   UPDATE |-> xl_heap_new_tuple, HOT_UPDATE |-> xl_heap_new_tuple]

\* ... and of the data of block number idx.
BlockStructure(rmgr, op, idx) ==
  CASE rmgr = "Heap" /\ idx = 0 -> Program(heap_block_structures, op)
    [] rmgr = "Heap2" -> <<units("block data", 1)>>
    [] OTHER -> <<>>
=============================================================================
