# A TLA+ model of pg_walview

pg_walview opens one PostgreSQL WAL segment file, decodes the records in it and
shows them in a terminal: a record list, a DETAILS accordion and a hex dump of
the whole segment. The file may be one that a server is still writing.

This directory holds TLA+ modules for the parts of the program whose correctness
is hard to see, TLC runs that check them on small segments, and TLAPS proofs of
the properties that hold of every segment whatever is in it.

## The system

| component | code | state | operations |
|---|---|---|---|
| WAL reader, pages | `walreader.rs` `open`, `new`, `load_page`, `validate_page_header`, LSN arithmetic; `walmisc.rs` page headers | one buffered page and its number, number of readable pages | open a segment, load and validate a page |
| WAL reader, records | `walreader.rs` `find_next_record`, `copy_record_bytes`, `load_next_record`, `verify_record_crc` | the read pointer, the record being put together, `done` | hand out the next record, "no more", or an error |
| Loading | `main.rs` `App::new` | records so far, the reason the scan stopped, the bytes for the hex pane | drain the reader, read the file again |
| Record decoder | `walreader.rs` `decode_wal_record`, `parts`, `file_ranges_of` | none (a function of the bytes) | descriptors to ranges of payloads, ranges to places in the file |
| Byte reader | `walmisc.rs` `Reader` | a position in a slice | bounded reads |
| Record list | `main.rs` `select` and the moves, `on_record_change`, `render_record_list` | selection, first visible row, extent of the selected transaction | moves by row, page, transaction; draw |
| DETAILS | `main.rs` `DetailTree`, `build_detail_lines`, `render_details` | what is expanded, cursor, scroll | up, down, toggle; draw |
| Hex pane | `main.rs` `RecordOverlay`, `HexDump`, `render_hex_dump` | scroll, a pending jump | scroll, jump; draw |
| Event loop | `main.rs` `run`, `handle_key_event`, `cycle_focus` | focus, exit | keys to panes |
| Descriptions | `walmain.rs`, `rmgr.rs`, the `*desc.rs` modules | a position in the payload, the lines so far | `xl_info` to a name, payload bytes to lines |
| Timestamps | `walmisc.rs` `fmt_pg_ts`, `civil_from_days` | none | microseconds to a date and a time |
| CRC, theme, command line, build information | `crc32c.rs`, `theme.rs`, `main.rs`, `buildinfo.rs` | none | |

How they interact: `App::new` calls `load_next_record` until it returns nothing
or an error, keeps the records, and then reads the whole file a second time for
the hex pane. After that the program only looks at what it has in memory:
`run` alternates between drawing and one key. A key changes the state of the
focused pane; a change of selection resets the caches the other panes keep
(`on_record_change`), and drawing resolves what depends on the pane's size.

The program is a single thread. What is concurrent is the file: a server may
write it from before it is opened until after the second reading. The reader
never locks it and never looks back.

### What is hard, and what makes each part correct

* **Pages.** Bytes are taken only from a page that was validated as that page of
  that segment, although `load_page` overwrites its buffer first. A page never
  written is the normal end, any other bad page an error.
* **Records.** A record may be split by page headers anywhere, even in its own
  header; a page may open with the tail of an earlier record, which may fill it;
  records are padded. The k-th record handed out is the k-th of the segment,
  at its LSN, with the right places in the file; none is skipped or repeated.
* **Damage.** Every record before the damage is shown, at most one bad one
  after them and nothing after that; lengths that are garbage never lead the
  read pointer out of the segment.
* **A live file.** Whatever the server does meanwhile, what is shown as good is
  good, what was complete at the start is shown, and the scan ends.
* **Decoder.** The ranges of a decoded record tile it, in order, and map to the
  file without touching a page header.
* **Opening.** A segment is opened only with a geometry the arithmetic is right
  for, and no sound segment is refused.
* **Descriptions.** What a parser reads is what the server wrote there: optional
  parts, paddings, and arrays that are shown in part or not at all are stepped over
  exactly; the names of flags and the decisions taken on them agree. On the bytes of a damaged
  record nothing but wrong numbers comes out.
* **Viewer.** The selected row is in the window, the cursor is on an item, a
  jump ends where the record is, the caches agree with the selection.

`PROJECT.json` lists the hazards one by one with their lines.

## The modules

| module | what it is |
|---|---|
| `WalSegment` | geometry, LSN arithmetic, page headers and their validation, what the bytes of a record can tell the reader |
| `WalReader` | the reader and the loop of `App::new`, one action per step, in an open environment |
| `WalScan` | the abstract specification: what a scan promises, with no pages and no LSNs |
| `LiveSegment` | `WalReader` closed with a segment and a server that writes it; the properties that speak of the WAL; the refinement of `WalScan` |
| `MCLiveSegment` | the segments that TLC checks |
| `LiveSegmentProofs` | theorems about `WalReader`, checked by TLAPS; that `LiveSegment` implements it, and theorems about what is shown of a WAL |
| `OpenSegment`, `MCOpenSegment` | from a file name and a first page to a geometry |
| `OpenSegmentProofs` | theorems about `OpenSegment` |
| `RecordParts` | `parts`, `file_ranges_of` and the overlay of the hex pane, as operators on a decoded record |
| `RecordDecode` | the decoder, one action per descriptor and per payload |
| `MCRecordDecode` | the descriptors and records that TLC checks |
| `RecordDecodeProofs` | theorems about `RecordDecode` |
| `RecordList` | the record list: selection, window, graph of a transaction |
| `RecordListProofs` | theorems about `RecordList` |
| `Accordion` | the abstract specification of the DETAILS pane: headings and a cursor on one, no indices |
| `DetailTree` | the DETAILS pane: the tree, the list of headings built from it, lines and scrolling; the refinement of `Accordion` |
| `DetailTreeProofs` | theorems about `DetailTree`, and that it implements `Accordion` |
| `HexPane` | the hex pane: which lines it shows |
| `Viewer` | the event loop, the focus, and instances of `RecordList`, `DetailTree` and `HexPane` that share the selected record |
| `ViewerProofs` | theorems about `HexPane`; that `Viewer` implements each of its panes, and what follows |
| `Descriptions` | the description modules as tables: names of operations and flags, and one program of reads for each parser |
| `Structures` | what a server writes for the same operations: the members of its structures, and the parts that a record has only sometimes |
| `Payloads` | where in a payload those members are |
| `Describe` | a machine that runs these programs, one call of `walmisc::Reader` at a time |
| `MCDescribe` | the payloads that TLC checks |
| `Timestamps` | the timestamps that `Describe` shows, against a calendar |
| `StructureProofs` | theorems about `Timestamps`; lemmas about each program of `Descriptions` and its structure |
| `DescribeProofs` | theorems about `Describe` |
| `MCRecordList`, `MCDetailTree`, `MCHexPane`, `MCViewer` | what TLC checks of them |

`WalReader` hands its records to the decoder and the decoder its results to the
viewer. The models meet in what they assume of each other: `WalReader` takes of
the decoder only that it succeeds or fails (`DecodeOutcomes`) and on an intact
record succeeds, which `IntactDecodes` checks; `RecordDecode` takes of the reader
only that a record has `xl_tot_len` bytes in ranges that page headers separate,
which `RecordsAreWal` checks; `Viewer` takes a list of records of any kind.
`WalSegment` assumes a geometry (`GeometryAssumption`, `AlignmentAssumption`), and
`GeometryIsSound` of `OpenSegment` says that every segment that is opened has one.
`Describe` starts from the payloads that `RecordDecode` finds, of any length and
content.

### Abstractions

* Lengths count cells of four bytes, the size of `xl_tot_len`. A short page
  header is 6 cells, a long one 10, an `XLogRecord` header 6 and MAXALIGN 2, as in
  the code (24, 40, 24 and 8 bytes). A record's length in cells may be odd, so that
  there is padding.
* A cell is a zero, part of a page header, a leftover of the segment's earlier
  life (`Stale`), or cell `idx` of a record, intact or damaged. Only the first cell
  of a record (`xl_tot_len`) and the one that stands for its descriptors are ever
  interpreted. Bytes that are not an intact `xl_tot_len` may read as any of
  `GarbageLengths`: zero, too short, in range, or absurd.
* `xl_crc` matches exactly when the buffer is one whole record as it was
  written: the model leaves out collisions of CRC-32C. The tests beside
  `crc32c.rs` and `reads_records_and_verifies_crc` in `walreader.rs` are about the
  computation.
* `decode_wal_record` succeeds or fails. Intact descriptors account for exactly
  the length of the record they belong to; on anything else both outcomes are
  possible.
* The geometry has passed the checks of `WALReader::new`, which are those of
  `OpenSegment`. `WalReader` takes a page to have the default size (`new` reads its
  first header from a buffer of that size). The file keeps its length while it is
  read: a file cut off in the middle, and other I/O errors of a single read, would
  end the scan as any error does, and are left out.
* In `OpenSegment` the widths of numbers are scaled with everything else: an
  xlogid of the file name covers `IdSpace` = 256 cells, and LSNs wrap around at its
  square as they do at 2^64. The wrap around is that of the release build.
* `RecordDecode` counts bytes, with the sizes of the real descriptors and an
  `XLogRecord` header of 24 bytes; only the data page is small (`BLCKSZ` is 8). No
  descriptor is read twice, so what the bytes of one say is chosen when it is
  read, out of `Items`; a record that a server assembled (`Written`) has its
  descriptors given. What only identifies (relation, block number, fork, origin,
  transaction) is left out. The failures of `take` in the second pass are left
  out too, because they cannot happen: `PayloadsFit`, which is proved.
* A payload in `Describe` is its length, where a server wrote each field, and the
  values of the fields that decide what comes next (flags, counts, sizes). Numbers
  that are only shown are a width and a place. A line is the field it shows and
  the place it was read from; its wording is left out, and so are the lines without
  a field (headings, "truncated"). In arbitrary bytes flags and counts are anything
  out of `GarbageBits` and `GarbageCounts`. `usize` and `i32` are 2^16 and 2^12, and
  wrap around as in the release build; `u16` and `u32` sizes are naturals, which the
  code only compares.
* What a server writes is stated without the parsers: `Structures` lists the members
  of the structures in the headers of PostgreSQL 18, the oldest version the program's
  README names, in their order and with their paddings, and `Payloads` puts them where a C compiler does (each member at a multiple
  of its width, optional parts packed). A member has the name of the line that shows
  it; members that no line shows are there as well, and so are the two parts that
  no parser reads, the `xl_xact_stats_item`s of `HAS_DROPPED_STATS` and the messages of
  `HAS_INVALS` (`Behind`, `InFront`). The metapage of a B-tree record is the data of a
  block (`InBlock`), so that it is not in the main data. Nothing under `src/` has
  these structures, so `PROJECT.json` marks both modules external.
* `Timestamps` counts 3 microseconds in a second, 2 seconds in a minute, 4 in an
  hour and 12 in a day; the arithmetic on days, which is where the difficulty is, is
  at its real scale. The time of a checkpoint is a number like any other: what
  epoch it counts from is stated nowhere.
* In the viewer a record is its `xl_xid` (`RecordList`), its headings and the
  number of lines its descriptions take (`DetailTree`), and the place of its first
  byte (`HexPane`). Text, colours and the words in a line are left out.
* A frame is drawn in panes of any size out of a given set. How ratatui divides
  the terminal is not modelled; the sets have what it leaves for a pane in a
  terminal of at least `MIN_HEIGHT` lines. The variables `shown` and `frame` hold
  what is on the screen: 0 rows, or no frame, once a key has made it stale.

### From code to actions

One action is what happens between two calls of `load_page`, since that is as
often as a writer of the file can come between.

| code | actions |
|---|---|
| `WALReader::new` | `OpenFails`, `Open` (the first reading of page 0), `LoadFirstPage` (`load_page(0)`, the second) |
| `WALReader::open`, `WALReader::new`, in `OpenSegment` | `ParseName`, `SeekEnd`, `RejectHeader` or `AcceptHeader`, `LoadFirstPage` |
| `load_next_record`, entry | `LoadNextRecord` |
| `find_next_record`, one pass of its loop | `FindReachesEnd`, `FindCannotLoad`, `FindSkipsPage`, `FindRecord` |
| `copy_record_bytes`, one pass of its loop | `CopyReachesEnd`, `CopyNextPage`, `CopyTake` |
| `load_next_record`, after the header | `HeaderEndsScan`, `HeaderCopied` |
| `load_next_record`, after the body | `DecodeFails`, `ReturnRecord` |
| `App::new`, after the loop | `NothingToShow`, `ReadFileAgain` |
| `decode_wal_record`, first pass | `ReadBlock`, `ReadOther`, `ReadMainHeader`, `DescriptorBad` (any check that fails, in the order of the code), `DescriptorsEnd` |
| `decode_wal_record`, length check and second pass | `CheckLength`, `PlaceBlock`, `PlaceMain` |
| `describe_main_data`, `describe_block_data` | `Begin`, then the program of the operation: `ReadNumber` and `ReadControl` (`read_*`), `Skip`, `Branch`, `ReadElement` and `EndArray` (a loop over an array and what follows it), `ReadCstr`, `ShowSized`, `ShowName`, `ReadIndexed`, `ShowRest`, `Finish` |
| `describe_record`, `from_xl_info` | operators of that name in `Descriptions` |
| `handle_record_list_key` | `move_record_down`, `move_record_up`, `move_top`, `move_bottom`, `page_up`, `page_down`, `move_next_same_xid`, `move_prev_same_xid` |
| `handle_details_key` | `move_up`, `move_down`, `toggle` |
| `handle_hex_dump_key` | `line_up`, `line_down`, `page_up`, `page_down`, `to_record`, `to_end` |
| `on_record_change` | the operator of that name: its part for the list in `select` of `RecordList`, for the accordion in `DetailTree`, for the dump in `HexPane`; all of it in `Viewer` |
| `render_record_list`, `render_details`, `render_hex_dump` | the actions of that name |
| `run`, `handle_events`, `handle_key_event` | `draw`, `handle_events` with `PaneKey`, `Tab`, `Quit`, `Ignored` |
| `Widget::render` | `DrawPanes`, or `DrawTooSmall`, which leaves everything as it is |

The variables have the names of the fields and locals they stand for. The two
calls of `copy_record_bytes` are told apart by `pc`; `header_bytes` is the sum the
caller keeps. `segment` and `file_pages` are the file; in `WalReader` anybody may
change the first in any way (`Environment`). The definitions whose name has an
underscore and a second part (`PastHeader_PageStart`) are plausible mistakes:
nothing uses them, they serve to show that the properties would notice.

`LiveSegment` computes the file from a layout: the lengths of the records, how
much of a record is carried over from the segment before, the page where a server
went on after a crash (`cut`), the cells or the page header that are damaged, and
whether unwritten pages are zeroes or a recycled segment. It lays records out as
`build_segment` in the tests of `walreader.rs` does. `flushed` says how far the
server has got; `ServerWrites` moves it on, to the end of a record or of a page
or, with `torn`, into a record.

## The runs

All use pages of 64 bytes, the smallest the reader accepts, and four of them: 6
cells of content on the first page and 10 on the others, so that a record of 23
cells covers at least three pages, every header may be split, and a carried tail
can end within a page, at its end, or pages later. Four pages make a first, a
last and two inner ones, which is every role a page has. Up to three records
give one that is carried, one that follows another, and one that follows that;
the reader keeps nothing else of its past. No counter needs a bound: the
segment ends.

The run `load` reads six kinds of segment, with the file complete, half there or
not begun, and the server writing on:

* undamaged: up to three records of 6, 7 or 23 cells after four kinds of carried tail;
* torn: up to two records of 6, 7 or 17 cells that can be seen half written, over
  zeroes or over a recycled segment;
* damaged: one cell of a record (of the length, the header, the descriptors or the
  data);
* a damaged page header, on each page and in each of the ways the reader looks for;
* crashed: a record of this segment, or one carried over, cut off at page 1 or 2,
  and up to three others around it;
* crashed, with a damaged page header before, on or behind that page.

| run | segments | shows |
|---|---|---|
| `load` | all of these | **of all of them**: the accounts of `copy_record_bytes` agree, bytes come from valid pages only, the read pointer stays in the segment and only advances, the scan implements `WalScan` (the records before the damage are all shown, in order, at most one bad one after them) and ends, what is shown as good is right, in the list and in what the hex pane marks of its second reading; **of the undamaged**: nothing is complained of; **of a damaged page header**: it is reported |
| `wrap_around` | a complete segment that a record fills to its last cell | **violation**: the scan does not end |
| `unflagged` | records with damaged descriptors | **violation**: they are not flagged |
| `crashed` | the crashed ones | **violation**: the records after the crash are not shown |

| run | bounds | shows |
|---|---|---|
| `open` | the first name, the second, the last conceivable one and none; first pages with block sizes of 8 to 64 cells and segment sizes of 16 to 256, sound and unsound, in every combination, and six ways for the header to be wrong; any change between the accesses | the geometry is one to work with, and a segment that keeps its header while it is opened, and is sound, is not refused, at the limits of the sizes as well |

What `open` does not say is that only the segment of the name is opened. That is a
guard of the code as long as the file lies still. If another header comes between
the two readings of page 0, `validate_page_header` of `walreader.rs` does not compare
its `xlp_seg_size` and `xlp_xlog_blcksz` with those of the first reading, and the
segment is opened with the latter; the model does the same.

The decoder is checked on records of seventeen lengths from a bare header to two
blocks with images, whose bytes are any of the kinds of descriptor, the
contradictory ones included; and on all that can be assembled of up to two
blocks, an origin or transaction and main data. One block less would not have a
reference to the block before (`same_rel`) or an order of payloads; the second
block, the image and the data each come with and without the others.

| run | shows |
|---|---|
| `decode` | ranges are in the record whatever it says, the second pass takes what the first counted, parts tile the record, the overlay of the hex pane is exact when page headers split it, assembled records decode completely |

A parser goes through its payload once. Each of the operations is run on every
payload a server writes with counts of 0, 8 and 17 (below, at and above each cap)
and every choice of the flags that a parser asks for, with the other flags all
set or all clear, and of the two flags that announce what no parser reads; and on
arbitrary bytes of 0, 1, 7, 12 and 30, which is shorter than most and longer than some,
with counts that are negative, small, large and the largest.

| run | shows |
|---|---|
| `describe` | fields are read where `Structures` has them, flags shown and parts shown agree, shown and announced elements make up the count, timestamps are shown as their moments (commits at both ends of the months around the ends of February and of the year, in three cycles of 400 years), garbage makes neither long descriptions nor a cursor outside the payload |
| `unread` | **violation**: behind dropped statistics and invalidation messages the fields are read from wrong places |

Of what a server writes `describe` has what the parsers get right (`ReadThrough`): of
commits and aborts those where nothing is written behind dropped statistics and
invalidation messages, and all operations but the `Mistaken`. Two of these are
in the run all the same (`Unnoticed`), because no line shows the mistake: the main data
of a META_CLEANUP are empty, since its metapage is in a block, and that of a `CommitTs`
ZEROPAGE is a page number of eight bytes, shorter than what the parser asks for before
it reads. The others are left out; `unread` has commits with statistics and messages.

The viewer never needs more than a few records: the window moves by the
selection and the two ends of the list.

| run | bounds | shows |
|---|---|---|
| `list` | every list of up to five records of no, the bootstrap or two real transactions, and one of nine; panes of 3, 4 and 7 rows, so that there are lists longer than the pane | the window holds the selection, is full and moves by need; the graph is that of the selected transaction, and `s` and `r` go along it |
| `details` | a bare record, every kind of block alone with and without main data, pairs of blocks; panes of 2 to 40 lines, around the heights at which these records fit | the cursor stays on its heading and in view, `Accordion` is implemented |
| `hex` | a segment of 107 bytes, whose last line is short at every width; widths around those where lines change; `hex_scroll` saturates at `USIZE_MAX` = 107 | the pane is full, jumps land |
| `viewer` | none or four records, two sizes of terminal and one that is too small; `hex_scroll` saturates at 21 | DETAILS and the dump are told of every change of the selection, whichever key made it, and do only what their own modules say |

Deadlock is not checked where the system ends: the loading of a file in `viewing` or
`failed`, the decoder when it is done, the program in `viewer`. It is in the other runs.

**Fairness.** `LiveSpec` has weak fairness on the reader's steps: a single thread
that never waits for anything but a read of a regular file. The server is under
no obligation.

### What the violations show

`wrap_around`: `lsn_to_page_no` works modulo the segment size, so a read pointer at
the end of a complete segment is at page 0 again and `find_next_record` never sees
the end. A record that ends exactly with the segment makes `App::new` read the
segment again and again, adding its records each time; a tail that fills the
segment makes `find_next_record` itself go round. The comment over it promises
"false if the segment ends first". `NeverAtSegmentEnd` keeps such segments out of
the passing runs; nothing else does. `ReadPointerAdvances` says that this is the
only way back.

`unflagged`: `load_next_record` decodes before it verifies the checksum, and a
decoding error wins. README.md and the comment in the code say that a record
that fails its checksum is flagged and handed back.

`crashed`: a server that went down in the middle of a record writes on at the next
page, and says so in that page's header (`XLP_FIRST_IS_OVERWRITE_CONTRECORD`).
`copy_record_bytes` does not look: the page header is validated for magic, flags,
address and timeline only. What it puts together fails its checksum or does not
decode, and the scan ends there. README.md says that reading stops where the WAL
has been written up to. What the run `load` shows is that nothing wrong is
shown as good on the way.

`unread`: `parse_xact_subrecords` reads the number of invalidation messages but does not
step over them, as it does with the other arrays; and for `HAS_DROPPED_STATS`, which is
among the names that `decode_xact_xinfo` shows, it has no branch at all, although a
count and the items are between the relations and the invalidation messages of a
commit, and in front of the xid of a prepared transaction in an abort. In the trace the
number of messages is read from where the statistics begin, and the fields behind are
too early by the length of both. This is against the comment on `describe_main_data`
("human-readable field descriptions for the main-data portion of a WAL record"), and
against README.md, which says that the layouts of structures are those of the headers
at build time.

Worth knowing, though no run is about it:

* Four operations are read as another structure than the one a server writes
  (`Mistaken`), so that `FieldsAreWritten` fails of two of them. `describe_xact_main` goes
  from the `origin_lsn` of a PREPARE to its gid, and the structure has an
  `origin_timestamp` in between: the text begins with the eight bytes of it. The metapage
  of an UNLINK_PAGE_META is registered with a block, and the parser reads it behind the
  structure in the main data, where the payload ends: the lines show the zeroes of
  `unwrap_or(0)`. The other two, META_CLEANUP and the ZEROPAGE of `CommitTs`, have nothing
  that a line could show wrongly.
* A record that failed its checksum and whose payload is too short for its flags
  ends the program when it is selected: `describe_heap_block_data` indexes
  `data[0]` and `data[1]` after asking only the main data whether there is a prefix
  or suffix, and `describe_xlog_main` slices a name to 64 bytes. The panic is an
  outcome of `ReadIndexed` and `ShowName`.
* The comment over the checks of `HAS_HOLE` (walreader.rs:903) says `bimg_len <
  BLCKSZ`, the code tests `bimg_len == BLCKSZ`, so a compressed image with a hole may
  be longer than a page. `ImageError` takes it as the code does.
* A jump leaves `HEX_JUMP_MARGIN` (two) lines of context above the record, whatever
  the height of the pane. At the smallest height at which panes are drawn at all the
  hex pane has two lines, and shows the context only, where the program's README promises a
  jump "back to the selected record". `JumpsLand` says that three lines are enough.
* A key that `handle_key_event` gave to another pane than the focused one would be a
  legal key of that pane, so no property speaks of it; the model dispatches on the
  focus as the code does.
* `HAS_DROPPED_STATS`, and `HAS_INVALS` of an abort, are named in the flags line, and no
  line shows what they announce. `NamedIsShown` is about the other flags.
* The number of pages of a Generic record is taken from the low bits of `xl_info`,
  which a test beside `heapdesc.rs` says belong to the record header.

* A key that selects resets the accordion and the dump even when the selection
  does not move, as on `j` at the last record (`SelectingKey`); `s` and `r` without a
  further record do not (`FollowingKey`).
* A record that fits is shown expanded as a whole, and meanwhile the keys of the
  DETAILS pane go on changing the accordion, unseen.
* The DETAILS pane may leave lines empty below the last heading after items
  collapse above it; the other two panes never do (`WindowIsFull`, `PaneIsFull`).
* `hex_scroll` is a line number, and a resize that changes the length of lines
  makes it another place; `StaysInView` says when it does not.
* A page jump in the dump is 20 lines, also in a pane of fewer.
* Of more than 16 tablespaces or locks the rest is left out without a word; the
  other lists announce theirs.
* A negative count of subtransactions, relations or members announces that many
  "more", as the cast to `usize` makes it a large number.

## The proofs

TLC checks a small instance; what follows holds for every value of the constants
that satisfies the `ASSUME`s of the modules, of which TLC evaluates every one.

### The reader in an open environment

`LiveSegmentProofs` proves of `Spec` in `WalReader`, for every geometry, every content
of the file and every interference:

| theorem | property |
|---|---|
| `TypeCorrect` | `TypeOK` |
| `BufferedPageValid` | `BufferedPageIsValid` |
| `AccountsAgree` | `Accounts` |
| `NothingAfterBadCrc` | `OnlyLastFails` |
| `ReadPointerStays` | `ReadPointerInSegment` |
| `ReadPointerForward` | `ReadPointerAdvances` |

The argument is an inductive invariant in layers. `ScanInv` is the types, the
validity of the buffered page, and what is known at each `pc` (`ScanState`: which
page is buffered, that a copy is under way). It is what makes the arithmetic
meaningful: an offset is between the header and the end of a page whose header
has the size its number says. On it rest `Accounts`, which is then inductive
(`NextAccounts`), and on both `PointerInv`, the bounds of the read pointer: it is
at the page and offset the copy has reached when it is advanced, and that is
within the segment because the page is; it is a multiple of MAXALIGN because
headers, pages and padded lengths are. The environment disturbs none of this,
because a step of it changes only the file and the reader trusts only its
buffer. `NothingAfterBadCrc` needs that `done` once set stays set and keeps
`LoadNextRecord` from going on (`WorkingNotDone`).

### The reader on a live segment

`LiveSegmentProofs` proves of `LiveSpec`, for every geometry, layout and place of the
server:

| theorem | property |
|---|---|
| `ClosedIsOpen` | `LiveSegment` implements `WalReader` |
| `LiveReaderIsSound` | what is proved of `WalReader`, of a segment that a server writes |
| `RecordsAreOfWal` | `RecordsAreWal` |
| `DumpShowsRecords` | `DumpHoldsRecords` |
| `NoAlarmOnSoundFile` | `NoFalseAlarm` |
| `DamageIsReported` | `HeaderDamageIsReported` |
| `ScanIsImplemented` | `ImplementsScan` without its fairness: `Scan!Init /\ [][Scan!Next]_(Scan!vars)` |

The last five are about segments with `NeverAtSegmentEnd`; the run `wrap_around` shows
what happens on the others. The idea is to measure everything, the file, the
layout and the reader's state, by one coordinate: how many cells of content
precede a place in the segment (`ContentAt`, and its inverse `FileCell`). The
lemmas at the beginning say that pages cut this line without gaps, that records lie
on it in order, each behind the one before and at least a header away from the
next, and that every cell of a page is the header, a cell of exactly one
record, or padding. The invariants then are:

* `FileIsWal`: the file is `FileContent` of how far the server has got, and the
  buffered page is a page of the WAL *as it was at some moment since the file was
  opened* (`HoldsWal`): what the server has written since is missing, and nothing
  else. This is what makes the interleaving harmless. Writes only add cells, so a
  buffer of any age is right about every cell that it has.
* `SeeksNext`: between records the read pointer is at the place of the next record
  of the WAL, or at a page that begins before it; `CopiesNext`: in the middle of
  a record, the buffer and the ranges are its cells so far, one by one. They are
  inductive only together and with `RecordsAreWal`, which says which record is the
  next.
* `RecordsWereRead` and `DumpIsFile`: the cells of a good record had been written when
  they were read, and are not changed after; so the second reading of the file
  finds them again. `DumpHolds` turns this into the order of the bytes: the cells
  below a place, in the order of the file, are as many as precede it.
* `CopiesWhole`: on an undamaged segment not only cells that are there are right, but
  all of them are there (`AllOn`). A page on which the record in hand has a cell was
  read when the server was past that record, since it can only be seen to stand at
  the end of a record or of a page. Nothing is reported because nothing is half there.
* `ReachesFault`: until the scan ends it is in front of the damaged page, and when it
  ends it says why. A record that would make it end early would have to be cut off
  or damaged, which the hypotheses of `HeaderDamageIsReported` exclude up to
  that page.
* `OwedIsComing`, `BeforeFault` and `ShownAreThere` are the three sides of `WalScan`. The
  first says that as long as a record that was whole and intact when the file was opened
  (`IsOwed`) is still to come, nothing has ended the scan: its pages have been valid ever
  since (`OwedPages`), its cells are all copied (`OwedCopy`), so its length and its checksum
  are accepted (`OwedIsAccepted`). The second says that the scan never gets behind a page
  with a damaged header, so that no good record follows the damage, and the third that
  what is shown as good is in the file and in front of all damage. `ScanView` puts
  them together in terms of the counts of `WalScan`, which are sizes of sets without gaps
  (`CountOfFirst`); with it before and after a step, `ScanStep` maps every step of
  reader and server to a step of `WalScan` or a stutter.

`HeaderDamageIsReported` was first stated of all segments with a damaged header. The
proof failed where a crash of the server lies *before* the damage: there the scan
ends at the record that the crash has cut (see `crashed`). The hypothesis
`Uncut(wal) \/ wal.fault_page <= wal.cut` excludes just these, and the segments
`CrashedAndDamaged` of the run `load` have a damaged header before, on and behind the
page where the server went on.

### Opening a segment

`OpenSegmentProofs` proves of `OpenSegment`, for every scale of the numbers, every name
and every first page:

| theorem | property |
|---|---|
| `OpenedGeometryIsSound` | `GeometryIsSound` |
| `SegmentsAreOpened` | `SoundIsOpened` |
| `OpenTypes` | `TypeOK` |

All that the code asks of the sizes is that they are powers of two between limits
(`AcceptedIsSound`). That the block size then divides the segment size, and both the
space of LSNs, is `PowerDivides`; that the LSN of a page leads back to the page
although the multiplication wraps around is `RoundTrip`, with the arithmetic of `\div`
and `%` in `DivUnique` and `ModOfMultiple`. `SizeAssumption` states what the
constants of the code have in common: MAXALIGN is a power of two, the long header is
not one (it is 40 bytes) and is at least MAXALIGN, and segment sizes divide what an
xlogid of a file name covers.

`SegmentsAreOpened` is about a file that holds a sound segment under its name in every
state. `OpeningStep` goes through the steps of `open` and `new` with such a file: each
sees the same header, and each of its checks is one that the header passes. The one
with arithmetic in it is the address: `NameGivesStart` says that the number of the
segment which the name gives, times the size of a segment, is the address the page
was written with, although the one is computed by a division of `IdSpace` and both
wrap around.

### The decoder

`RecordDecodeProofs` proves of `RecordDecode`, for every set of descriptors, every
length and every number of blocks:

| theorem | property |
|---|---|
| `DecodeTypeCorrect` | `TypeOK` |
| `SlicesNeverPanic` | `RangesInRecord` |
| `SecondPassNeverFails` | `PayloadsFit` |
| `EveryPassConsumes` | `LoopConsumes` |
| `PartsTileRecords` | `PartsTile` |
| `OverlayMarksExactly` | `OverlayIsExact` |
| `AssembledRecordsDecode` | `IntactDecodes` |

The first pass leaves a sum and the second takes its terms. The invariant
(`Counted` in `DecodeInv`) therefore speaks of the list of partial sums, as a
function that exists and not as a recursive definition: it grows by one term with
a block (`TotalsAppend`), and the second pass is always at the sum of the blocks
it has done.

Parts, the pages a record is on and the entries of the overlay are all lists that
lead through the record, each element from where the one before it ends. The lemmas
about such lists (`Leads` and its witness, the list of places, `Along`) say once that
they may be joined, nested and searched. Pages cut the record without gaps
(`PagesExist`), clamping a part to a page gives what the two have in common
(`PieceIsStep`), so the entries for one part lead through it (`FileRangesLead`), and
those for all parts through the record (`OverlayLeads`). Their places in the file
ascend with their places in the record, which makes the sort at the end of
`RecordOverlay::of` change nothing (`ByStartKeeps`) and the first entry that contains a
byte the only one (`MarksAreExact`).

### The panes

`RecordListProofs` proves of `RecordList`, for every list of records and all heights:

| theorem | property |
|---|---|
| `ListTypeCorrect` | `TypeOK` |
| `WindowHasSelection` | `SelectedIsShown` |
| `WindowHasNoGap` | `WindowIsFull` |
| `WindowMovesLittle` | `WindowMovesByNeed` |
| `GraphOfSelection` | `GraphIsExact` |
| `KeysGoAlongGraph` | `KeysFollowGraph` |

The invariant adds to the properties of the window that the cached extent is that
of the selected transaction (`CacheIsFresh`): every key that selects recomputes it,
and the others leave both. The graph is then a matter of least and greatest
elements of sets of indices (`Least`, `Greatest`, by well-founded induction on
`<` in sets of naturals).

`ViewerProofs` proves of `HexPane`, as it is in the program, for every segment and all
panes:

| theorem | property |
|---|---|
| `HexTypeCorrect` | `TypeOK` |
| `HexPaneIsFull` | `PaneIsFull` |
| `HexJumpsLand` | `JumpsLand` |
| `RecordStaysInView` | `StaysInView` |

A line has 4, 8 or 16 bytes (`LineLengths`), so that each division is by a number;
`ViewOfLine` turns what is said of bytes into lines, where the clamp of
`render_hex_dump` is linear arithmetic.

`DetailTreeProofs` proves of `DetailTree`, for records with any number of blocks and of
lines, and panes of all heights:

| theorem | property |
|---|---|
| `DetailInvariant` | `DetailInv`, the inductive invariant |
| `CursorIsOnHeading` | `CursorOnHeading` |
| `CursorIsInView` | `CursorInView` |
| `AccordionIsImplemented` | `ImplementsAccordion` |

The code keeps the cursor as an index into a list that it builds anew for every key
and every frame, out of a list for each block. `NavIsSeen` says that this list, however
many blocks there are, is what the abstract pane sees from top to bottom: every
visible heading once, in order. So an index is a rank (`IndexIsRank`): how many visible
headings are above. A toggle hides or shows headings *behind* the one it is on, so
the rank of that one stays (`IndexIsKept`), and the code, which looks the heading up
again, finds it where it was. `LinesGrow` says that the lines in front of a heading
grow with its index, so that the line of the cursor is one of the lines, and the
clamp of `render_details` has it in view. For the refinement, a cursor key is a step to
the next visible heading (`NextHeading`) and a toggle changes one heading
(`ToggleMapped`).

### The program

`ViewerProofs` proves of `Viewer`, for all segments and terminals:

| theorem | property |
|---|---|
| `HexIsImplemented` | `ImplementsHex` |
| `DetailsAreImplemented` | `ImplementsDetails` |
| `ViewerListIsSound` | the theorems of `RecordListProofs`, of the program |
| `ViewerDetailsAreSound` | the theorems of `DetailTreeProofs`, of the program |
| `ViewerHexIsSound` | `PaneIsFull`, `JumpsLand` and `StaysInView`, of the program |

Every step of the program is a step of each pane or leaves it alone; a change of the
selection is a step of all three. That is what the copies of `on_record_change` in the
panes claim, and what a key handled outside `select` would break. The theorems of the
panes then hold of the program: those of the list and of DETAILS come from instances
with their own names (`LP`, `DP`), and `SameList` and `SameDetails` say that their actions
are those of the instances in `Viewer`; those of the dump are proved of `H` itself. That
the list is the one of `RecordList` (`ListIsImplemented`) is no result but a lemma: the
program's steps are written with its actions.

### The descriptions

`DescribeProofs` proves of `Describe`, and `StructureProofs` of `Timestamps` (the last two):

| theorem | what it states |
|---|---|
| `CursorStaysInPayload` | `CursorInPayload`, whatever the bytes of the payload are |
| `DescriptionsAreBounded` | `LinesAreBounded` |
| `LinesPointAtFields` | `FieldsAreWritten`, of payloads that are read through (`ReadThrough`) |
| `TimestampsAreRight` | `TimestampIsRight`, of the same payloads |
| `ElementsAreCounted` | `EveryElementCounted` |
| `FlagsNameTheParts` | `NamedIsShown` |
| `TimestampsInvert` | `fmt_pg_ts` gives back every moment of the calendar, before 2000 and before year 1 too, with the real number of days and any division of a day into hours, minutes, seconds and microseconds |
| `CalendarAddsUp` | of two dates the later one has more days before it, so that the calendar which the first theorem compares with is one |

The parsers are data here, a table of programs, so an invariant of the machine needs a
fact about every program: that an item reads only flags, counts and sizes which an
earlier item has read *whichever branches were taken*. `Flow` says so of a program with a
note on each item (the names known before it), and is proved of each entry of the
tables; the lemmas `FlowJoin`, `FlowIf` and `FlowTuple` follow how the tables are written, so that
an entry is a few lines. The inductive invariant `Describing` is that the machine is at
an item of its program, that `got` has the names noted there, that the cursor is in the
payload, and that there are no more lines than `Most` allows up to that item and
element. The cursor needs the type of each value: an array that reads a negative number
of elements, or steps over `usize` of a negative count, would otherwise move it
anywhere.

What a server wrote is any payload that is laid out as `Structures` and `Payloads` say
(`LaidOut`): of any operation, with any flags, counts and lengths. Two facts about every
operation connect that with what is read, both in `StructureProofs`.

The first compares the parser's program with the structure, item by item (`Alike`): a
member and the item that reads it have the same kind, width and name (`Pair`), a
part stands under the same condition, what no item reads is behind the last item
(`Extra`), and a metapage that is asked for by the room left over is in a block
(`Page`). The `Like` lemmas (`LikeXlog`, `LikeXact`, `LikeHeap` and so on) show it of
each table, except of the operations in `Mistaken`. An item forgotten, of another
width or in another order would make the lemma of its table false.

The second is about the program alone: `Marked`, that its items can be *marked* with
where the reader is
before each, as far as the program alone tells. A mark is a byte of the structure, together
with the bytes that are written there (a padding that has been skipped is the
difference); or "in the packed part"; or "behind the number of invalidation messages",
after which the place depends on what was written; or the end. `Fit` says when an item leads from one mark to the
next: a member of a structure must be at a multiple of its width, so that a padding
the parser forgot, a field of the wrong width or an optional part in the
middle of a structure has no mark. Every entry of the tables is shown to have marks
(`MainMarked`, `BlockMarked`); `StraightMarked` and `PaddedMarked` do it for the plain ones at
once and `RouteThen` puts longer programs together from parts.

`Laying` is the invariant that the layout and the marks give: before every item of a
payload that a server wrote, the reader is where the layout has that item, and what
it knows (`got`) is what was written. Its step is one lemma for each action (`LayNumber`,
`LaySkip`, `LayBranch`, `LayElement` and so on). The casts are in there: a count that was
written is not negative, so `Signed` and `Unsigned` change nothing, and the skip over the
rest of an array ends behind its last element, neither wrapping around nor held back at
the end. `ToldSoFar` is on top of it: the lines so far are those of the items behind
the reader, each with its place, its moment or its names, and of an array they are
exactly the elements that have been read and the one for what is left out. At the end
this is the three theorems.

`ReadThrough` is the hypothesis of `LinesPointAtFields` and `TimestampsAreRight`. It has
two parts: the operation is none of the four `Mistaken`, and no member is written
behind dropped statistics or invalidation messages that are there (`UnreadLast`). Where it fails,
`FieldsAreWritten` is false in general, as the run `unread` shows. It says nothing of what the server may write otherwise, so commits with
messages or statistics at the end, and those with a flag set and a count of zero
messages, are covered. `ElementsAreCounted` and `FlagsNameTheParts` need no such
hypothesis: whether a member is read does not depend on its place, and an array that
is announced lies in front of all that is skipped. In the four `Mistaken` programs there is
neither an array nor a part under flags (`MistakenIsLone`).

`FlagsNameTheParts` is about two tables of bits: the one that gives a flag its name in a
line, and the conditions of the parser on the same field. The layout is a fold over
the program, so the first step is to say what it writes without folding: an item is
written if and only if no condition around it fails (`Held`, `HeldIsWritten`), which can be
followed through the concatenations and conditions that programs are built from
(`HeldJoin`, `HeldIf`). `Reveals` then says of a program which parts that flags announce are
written and which flags are named, for every value of the fields; it is composed
the same way (`RevealsJoin`, `RevealsIf`), so that no subset of the bits is ever enumerated.
Of each program with parts under flags the two are compared bit by bit
(`PruneAgrees`, `UpdateAgrees`, `DeleteAgrees`, `NewTupleAgrees`, `EndAgrees`), and of all
the others it is shown that they have no such parts (`Bare`). The data of a block are
announced by the flags of the main data, which `PayloadAssumption` says are those that
the block was written with. That what is written is what has a line is `ToldSoFar`.

The arithmetic of timestamps is proved by years that begin in March: a day is a place in
an era of 400 years, a century in it, four years in that and a year in those, each
as long as the one before except for one day, and the divisions of `civil_from_days`
undo each step of it.

### What is assumed

| assumption | why the code justifies it |
|---|---|
| `GeometryAssumption`, `AlignmentAssumption` (`WalSegment`) | what `WALReader::new` checks; `GeometryIsSound` says that every opened segment has it |
| `SizeAssumption`, `InputAssumption` (`OpenSegment`) | the constants of the code, and inputs of any value of their types |
| `LayoutAssumption` (`LiveSegment`) | layouts are layouts: records follow one another at MAXALIGNed places, with lengths a server writes (`LengthInRange`), and only one crash. `start` is a part of a layout, and `IsLayout` fixes it record by record (`StartAfter`) |
| `DecodeAssumption` (`RecordDecode`) | descriptors have the widths of their fields, and a record has a header; records that were written are as a server assembles them (`IsAssembled`): block ids ascend, only a later block repeats the relation of one before it, the main data come last, an image is a whole page unless it is compressed or has a hole; every page that a record is on has room for some of it |
| `DescribeAssumption` (`Describe`) | counts and sizes that a server wrote are integers, and a text that it wrote ends in the payload; of other bytes nothing is assumed but that a count is an integer |
| `PayloadAssumption` (`Describe`) | what a server wrote is laid out as `Structures` and `Payloads` say, which do not depend on what the parsers read; its counts are not negative and its timestamps are dates; an empty payload holds no field; the data of a block come with the flags of the main data of the same record; a payload is shorter than `usize` counts |
| `ScaleAssumption` (`Timestamps`) | units of time are positive and divide one another |
| `ListAssumption`, `HexAssumption` | identifiers and places are naturals; a record begins in the segment |
| `ShapesAssumption`, `HeightsAssumption` (`DetailTree`) | counts are naturals |
| `ViewerAssumption` | the same of all panes; and that the list and the details have a row whenever they are drawn: of the `MIN_HEIGHT` of 8 lines one is for the status line, DETAILS has 60 % of the others, which is two lines inside its border, and the list has more |

### Induction

The induction theorems of the library take an operator as a parameter, which no
installed prover can instantiate. What is said of every index, record or page is
proved by the least counterexample instead: the set of those where the statement
fails is a set of naturals, a non-empty one has a least element
(`NatLessThanWellFounded` and `WFMin`), and that element contradicts the step.
`UpTo` in `DetailTreeProofs` and `RecordDecodeProofs` is this argument once and for all, for a *set* of indices in place
of an operator. A recursive function of the model (`f[i \in S] == ... f[i - 1] ...`) is a
`CHOOSE`, and `CatExists`, `LineIsLine` and their like first show that there is a
function that satisfies the equation.

### Left to TLC

* `Termination`: liveness under fairness is out of the prover's reach, and so is the
  fairness of `ImplementsScan`; the rest of it is `ScanIsImplemented`.

Every invariant and action property that holds in a run is stated by a theorem; of the
descriptions, `FieldsAreWritten` and `TimestampIsRight` are proved under the hypothesis
`ReadThrough`, which the payloads of the run `describe` satisfy but for those of the two
operations in `Unnoticed`. What a server writes in general is not taken from the
repository, which has no structure of PostgreSQL in it: `Structures` was written from
the headers, and is itself compared with nothing but the parsers.

## Plan

The order of the work was: reader, decoder, record list, DETAILS, hex pane, the
viewer that composes the last three, the crash of a server, the opening of a
segment, the descriptions and the timestamps, each with its runs before its proofs; then
the proofs in the order reader, decoder, panes, opening, viewer, live segment, DETAILS,
descriptions, timestamps. Last came that the flags the parsers name are the ones they
act on, and that the parsers agree with every payload that is laid out like the
structures of the server, which are now stated apart from them.

## Not modelled

* CRC-32C (`crc32c.rs`): a table driven computation with known-answer tests beside
  it. The models use what it promises.
* Text and layout: the wording and columns of lines, colours (`theme.rs`), names of
  enumerated values (`wal_level`, prune reasons, forks, multixact status), how
  ratatui divides the terminal. Nothing else depends on them.
* The command line, build information and the build script: one match over the
  arguments, without state.
