# A verified model of the FAT image reader

This directory holds TLA+ models of the program in `src/project/src`: a command
shell (`ls`, `cd`, `cat`, TAB completion) over a read-only FAT12/16/32 driver, over a
sector layer that understands ESP-IDF wear-levelled partition dumps. The models are
translated from the C code, checked by TLC on small instances, and the central
invariants are proved by TLAPS for every value of the constants.

    tlc -workers 2 -config NodeTree.cfg MCNodeTree.tla      # one run
    tlapm NavigatorProofs.tla                               # one module's proofs

`PROJECT.json` lists the runs, the mutants that show each property can fail, the
lines of C each definition stands for, the findings, the hazards and the theorems.

## 1. The system

The program is sequential: one thread, no signals, no callbacks that re-enter. What
makes it hard is not interleaving but shared mutable structure (one tree of nodes that
several callers hold pointers into), untrusted data (any image may be opened), reads that
fail or fall short half-way through an operation, and a partition written by another
program whose power may be cut at any moment.

| Component | Code | State | Operations | Talks to |
|---|---|---|---|---|
| Application | `application/application.c` | `running` | prompt loop, split at `&&`, dispatch, exit | line editor, middleware |
| Line editor | `utilities/cli/cli_helper.c` | line, cursor, history ring, index | keys, history, TAB | driver (`find_path`, `list_directory`), reads the middleware's position |
| Middleware (shell) | `middleware/middleware.c` | `current_path` (text), `current_directory` (node) | `ls`, `cd`, `cat`, `evidence`, prompt | driver |
| Driver: node tree | `fat_driver/fat_driver.c` | nodes (`FileNode`: parent, children, next), `root_directory`, `current_directory` | `find_path`, `list_directory`, `free_file_node`, `unmount` | directory scans |
| Driver: table | same | `fat_cache`, `fat_cache_sector` | `get_fat_entry`, `get_next_cluster` | HAL |
| Driver: chains | same | none beyond a call | `read_file`, scans of `list`/`find`, `get_filesystem_info` | table, HAL |
| Driver: entries | same | long name under assembly | decode 32-byte entries | HAL |
| Driver: mount | same | geometry (sectors, clusters, FAT type) | `mount` | HAL |
| HAL and wear levelling | `hal/hal.c`, `hal/wl_layer.c` | `wl` (configuration, position, move count) | detect, recover, translate, read, write a sector | IP driver |
| IP driver | `ip_driver/ip_driver.c` | the open file | seek, read, write | C library |
| Linked list, log | `utilities/` | list nodes; none | list operations; messages | used by nobody here; C library |

`project/fatfs` is the vendored ESP-IDF FatFs component; `project/Makefile` does not build
it. Scripts and `project/tools` are outside the program.

What makes each part correct:

* **Node tree** - nodes are freed exactly once, every live node hangs below the root, nobody
  works on a freed one, a listing leaves exactly the directory's entries, a lookup answers
  what the path means whatever was cached before, unmount frees everything.
* **Shell** - the path in the prompt and the node of the current directory name the same
  directory; a node kept over a call of the driver is still live; names typed relative to
  the prompt reach what they name.
* **Table** - an entry is read from the right bytes, for three FAT types, through a cache of
  one sector, even when it lies across two; the cache holds the sector it says.
* **Chains** - whatever the table links, a read stays in the caller's buffer and copies the
  chain's content; calls return; the free count is right.
* **Wear levelling** - a volume dumped at any moment of a device's life reads as the device
  left it; translation never makes two sectors one.
* **Entries** - a long name goes to its own short entry; list and find agree.
* **Mount** - a volume as a formatter makes it is read where it lies; no geometry an image can
  state puts a cluster outside of it.
* **Application** - the commands of a line run in order until one fails; every line is done with, and `exit`
  ends the program wherever it stands; nothing is freed twice or kept at the end.
* **Line editor** - the terminal shows the line; history behaves as `doc/CLI_Helper.md` says.

## 2. Modules

| Module | Models | Builds on |
|---|---|---|
| `NodeTree` | the driver's tree of nodes: `find_path`, `list_directory`, `free_file_node`, `set_current_directory`, `unmount`, under any caller that keeps the driver's contract | |
| `Navigator` | `middleware_ls/cd/cat` and the lookups of `handle_tab_completion`, composed with the driver | EXTENDS `NodeTree` |
| `FatTable` | abstract: a caller asks for a cluster and gets its entry, or 0 | |
| `FatCache` | `fat_driver_get_fat_entry` with its cache | refines `FatTable` |
| `ChainReader` | the loops that follow chains: `read_file`, the scans of list and find, `get_filesystem_info` | EXTENDS `FatTable` |
| `WLLayer` | `wl_load_state`, `wl_recover_pos`, `wl_layer_translate`, `hal_read_sector`, `hal_write_sector`, and the device that wrote the image | |
| `Directory` | abstract: a listing has every file of a directory and no other, a lookup finds the one of that name | |
| `DirScan` | the slots of a directory, who writes them, and the loops of `list_directory` and `find_in_directory` over them | refines `Directory` |
| `Mount` | `hal_init`, the layout of `wl_layer_init`, `fat_driver_mount` with `parse_boot_sector`, `get_fat_type`, `load_root_directory`, and `cluster_to_sector` | |
| `Application` | `main`, `application_run`, `process_command_with_and`, `application_process_command`, and init and deinit of middleware, driver and HAL | |
| `LineEditor` | `cli_get_input` with `add_to_history`, and what the terminal shows of the line | |
| `MC*` | constants for TLC | each its module |
| `*Proofs` | theorems and proofs | each its module; `NavigatorProofs` has `NodeTree`'s too |

`Navigator` composes the shell with the driver's tree. `FatTable` stands between the cache, which
implements it, and the chain loops, which use it. `Directory` is to the scans of `DirScan` what the
entries per directory are to `NodeTree`: what they take for granted, `DirScan` shows the scan of slots to give.
`Mount` gives the numbers that `FatCache` and `ChainReader` have as constants. `Application` runs the commands whose
steps are `Navigator`'s, and reads the lines `LineEditor` makes.

### NodeTree

State: `heap` maps the addresses of live nodes to their fields (parent, the list of
children, and which directory entry the node was filled from); `driver` holds
`root_directory` and `current_directory`; a record holds the call in progress. Each action is one step of
the C code between two calls that can fail: a component looked up (`FindEnter`,
`FindFail`, `FindDots`), one entry attached (`ListEntry`), one node freed by the recursion of
`fat_driver_free_file_node` (`FreeNode`). `find_path` attaches a fresh node for each component without looking whether
one is there, as the code does, so duplicates appear; `list_directory` frees all children first.
A failing data sector ends a listing or lookup with an error; a failing FAT sector ends the chain
early (`get_fat_entry` returns 0), which is a separate member of `Faults`. The ghost `failed` is the
set of faults the last call met.
The caller is anybody who passes nodes the driver handed out and that are still live: that is
the contract `HandlesLive` needs, and `Navigator` is shown to keep it.

Names are model values and an image is a set of directory entries per directory. Addresses are a
finite set; an allocation takes any free address, so reuse of a freed address - what
turns a dangling pointer into a wrong answer - does happen.

### Navigator

Adds `middleware->current_path` (a sequence of names), `middleware->current_directory` (an
address) and the command in progress. Commands run in steps, each a call of the driver: `ls` without and
with an argument, `cd` to the root, up, and by path with its normalisation
(`Normalize`), `cat`, and TAB: resolve the directory part, list it, match, and look whether the
match is a directory. When the node of `current_directory` has been freed, its next use is
undefined behaviour in C; the model stops using it there, and `CwdNeverDangles` reports the
state itself. `DriverContract` states that all of it is a behaviour of `NodeTree`'s specification.

### FatTable and FatCache

A byte is named by its place in the image, so a returned value is a sequence of half-byte names,
and "the entry of cluster c" is a formula over places: `Entry(c)` says that entries are consecutive, three,
four or eight half bytes each. The code's arithmetic (`FatOffset`, `Straddles`, the shifts and
masks in `Value`) is separate from it, which makes the refinement of `FatTable` a statement
about that arithmetic. `LoadFails` is a read that returns nothing. `LoadShort(n)` is one that returns less than a sector:
`n` bytes of the cache are overwritten and `fat_cache_sector` is not. The ghost `torn` remembers that. `FatTable`
has the same faults: it answers the entry or 0, and no more than a value of the table once a read has fallen short (`sound` is
false) and until the sector is read again (`Reread`).

### ChainReader

`step` is the place in the loop: at its head, between sectors of a cluster, or waiting for an
entry of the table. `list_directory` and `find_in_directory` share their chain loop and differ in
what they return; both are here as scans. Data is again named by place. Chains may be
circular, crossed, run into free, reserved or bad entries, or point past the volume. `ClusterToSector` wraps at `Word` as
`fat_driver_cluster_to_sector` does, and `There` is the offset the file is then read at: it wraps at `Offsets`, which is `Word`
on a plain image (`ip_driver_read_buffer` multiplies in `uint32_t`) and out of a sector number's reach on a dump
(`hal_read_sector` multiplies in `uint64_t` there). So a cluster far past the volume is read, without an error, from another
place, and `ReadsChain` speaks of the bytes whose place (`PlaceOf`) is below `Offsets`.
Reads of sectors past the image fail; with `Faults` any read may, and any entry may be answered by 0 (`FatTable`). The ghost
`misread` collects the clusters whose entry the call was not given, `path` the clusters it went through.

### DirScan

State: `slot`, the directory as a sequence of slots (end mark, deleted, `.` or `..`, a piece of a long name, an
entry), and the locals of a scan: the slot it is at, `has_lfn`, `lfn_buffer`. Between calls others write the directory
(`Create`, `Delete`, and `DeleteEntry`, which a system without long names does: it leaves the pieces behind, and its
own entry may come to stand after them); these actions are external. One action per kind of slot then does what the loop
does with it, and each error path is an action: no buffer, an unreadable sector, an unreadable table (`ChainCut`), no memory for a node.
Pieces are texts, not characters; a name is a sequence of them, and `Assembled` reads `lfn_buffer` up to its first
empty place, as the code reads it up to its NUL; the buffer has room for `MaxPieces`. `trusted` of `Directory` says that no
entry stands behind pieces of another's name: the checksum, which the code has as a TODO, would tell. While it is false names
are left open, but not which files are listed; and `FindAgrees` says that even then the two loops read the same.
An unchecked `malloc` in `find_in_directory` (`fat_driver.c:832`) ends the model in `undefined`.

### Mount

An image is given by the fields of its boot sector and of its `wl_config`; ghosts say how a formatter laid it
out, if one did. `Open...` is `hal_init`, with every outcome of `wl_layer_init`; `Mount...` are the ways
through `fat_driver_mount`, in the order of the code's returns. `OpenFails` and `OpenMistaken` are the ways on which the file cannot be
read: the second is a dump whose config cannot be read and which is then taken for a plain image, so that mount parses the first sector of
the file (`raw`) for a boot sector. Sector numbers are words that wrap (`Add`, `Mul`, `Sub`);
`FirstData` asks for the FAT type while `total_clusters` is still 0, as the code does. `Volume` (external) is the sequence of a
formatted volume's sectors, and `ReadsVolume` compares what the HAL reads at every number the driver works out with what the formatter put there. `Offset` is where in the file that is: of a plain image a 32-bit product, so a volume of more than
`Word` bytes is read at the wrong places from there on (`WithinOffsets` is the limit).
`FormatAssumption` says what a formatter makes: a boot sector that states its layout, no room left for one more cluster, and a volume that lies in
its file, where it begins, or, as `Keeps` adds up a device's parts, in the pages of its device. `flash_size`, which the code works out by subtraction, is proved to be large enough.

### Application

`pc` is the place in `main` and below. During start-up `live` is what has been allocated or opened, `pointers` the
fields that are not NULL: a failing step frees some, and may leave pointers to what is gone, as `fat_driver_init` and
`middleware_init` do. In the loop a line is a sequence of lexemes (words, blanks, `&&`), which `Split` cuts as
`custom_strtok_r` and `strtok` do; a command ends well or not as its name and its operand allow (`MayEnd`). The ghost `ran` holds what was run for
the line. After a command of a chain has failed, the whole line is run once more as one command (`WholeLine`), because
`application_run` takes the -1 for "no `&&`": `ChainInOrder` says exactly that. `EndOfInput` changes nothing but `eof`: no branch
of `cli_get_input` takes EOF.

### WLLayer

First the device: it erases and programs pages, moves the dummy page (erase, copy, a record in
copy 1, a record in copy 2), and rewrites both state copies after a full round; `PowerOff` can
come after any of these. These actions model ESP-IDF's `WL_Flash`, which is not in this repository;
they follow the layout and the formula in `wl_layer.h` and what `wl_layer.c` says it mirrors, and are marked external.
Then the program: `LoadState`, `RefuseState`, `RecoverPos`, `HalRead`, `HalWrite`, each with its reads failing as `Faults` says: a state header
that cannot be read is passed over like one that is not valid (`wl_layer.c:87`), so while the other copy is half written one failed read is enough to refuse a
faithful dump; a record that cannot be read ends the scan; a sector that cannot be read fails the call, and one that cannot be written may be left with anything.
Addresses count FAT sectors; a page has `PageSize` of them. The ghost
`harm` collects what has gone wrong: a damaged image, an unreadable header or record, a failed allocation.

### LineEditor

One action per key. The buffer is a sequence, `cursor_pos` a place in it; the ring `s_history`, its count and
index are those of the code, with `log`, a ghost, holding every line ever added. `screen` is the
terminal's row: the code prints `\b`, tails of the buffer and blanks, and the actions apply exactly what is
printed (`Put`, `Back`, `RubOut`). TAB prints at the terminal's cursor but adds to the end of the buffer: pressed
inside the line it puts the two cursors apart, by a distance no later key changes until the row is printed
anew; `lost` says so, and what the row shows meanwhile is left open.
The ghosts `own` and `draft` tell the user's line from one of the history, and `strayed` whether ESC has cleared a line while
the walk stood inside the history (`cli_helper.c:267` leaves `s_history_index` there).

## 3. Runs

| Run | Shows |
|---|---|
| `NodeTree` | `Shape` (a forest), `NoNodeLost`, `HandlesLive`, `Standing`; `FindResolvesPath`; `ListingExact` unless a FAT sector was unreadable. Data and FAT sectors fail anywhere |
| `Navigator` | `CwdIsPrompt`, `ResultsLive`, `DriverContract`, `CdGoesThere`, `CatReadsNamed`, with data sectors failing |
| `NavDangling` | *violation* of `CwdNeverDangles`: listing the root from a subdirectory frees the shell's own node |
| `FatCache` | `Coherent`, and the refinement of `FatTable`, with reads that fail or fall short anywhere |
| `ChainReader` | `ReadsChain`, `ReadShort`, `FreeCounted`, `CallsAdvance` (each step brings a call's end nearer) and, under fairness, `CallsReturn`, with data and FAT sectors failing anywhere |
| `DirScan` | `ScansDirectory`, the refinement of `Directory`, and `FindAgrees`, with sectors, table and memory failing |
| `Mount` | `ReadsFormatted`, `ClustersInVolume`, `AreasApart`, `RecordsInCopy` over formatted volumes, dumps of many shapes and boot sectors of any numbers, with memory and reads failing |
| `MountSectorSize` | *violation* of `ReadsAnySectorSize`: a volume with larger sectors is mounted and read as if they had 512 bytes |
| `WLLayer` | `NeverRefused`, `FirstCopyReadsVolume`, `ReadAnswers` over every cut of power, with headers, records and sectors unreadable; `OneToOne` whatever failed in recovery |
| `WLSecondCopy` | *violation* of `EitherCopyReadsVolume`: with the header of copy 2, the records are still copy 1's |
| `LineEditor` | `RingIsTail`, `WalkShowsLog`, `NoRepeats`, `EchoExact`, `LostInside`, `DraftRestored` over every sequence of keys |
| `Application` | `FreedOnce`, `Released` over every failure of start-up; `ChainInOrder` and, under fairness, `Answered` and `ExitEnds` over every line |

A violation run checks one sentence that a comment or document of the repository states; the
finding in `PROJECT.json` quotes it.
More disagreements came up and have no run of their own. For the first eight, a property of a passing run makes an exception,
named in its formula, and the model does what the code does in that case; without the exception TLC finds the property violated.

* A FAT sector that cannot be read cuts a listing short, and it still returns 0 (`fat_driver.c:741`, against `fat_driver.h:136`,
  "0 if successful, -1 if failed"): `"fat" \notin failed'` in `ListingExact`.
* A read that falls short leaves the beginning of one sector in the cache under the number of another (`fat_driver.c:557`): `torn` in `Coherent`.
* Clusters whose entry cannot be read are counted as free, and the call returns 0 (`fat_driver.c:394`): `misread` in `FreeCounted`.
* A wild cluster of FAT32 has a sector number that wraps (`fat_driver.c:407`): a read may copy another part of the image and
  succeed. `PlaceOf(j) < Offsets` in `ReadsChain`.
* A plain image of more than 4 GiB is read at the wrong places (`ip_driver.c:46`): `WithinOffsets` in `ReadsFormatted`.
* A dump whose config cannot be read is taken for a plain image (`wl_layer.c:60`, against `wl_layer.h:81`, "-1 on I/O error"): `harm` in `ReadsFormatted`.
* TAB inside the line puts the terminal's cursor and the buffer's apart (`cli_helper.c:266`, against `doc/CLI_Helper.md:21`): `lost` in `EchoExact`.
* ESC on a line of the history, then new text: DOWN does not bring it back (`cli_helper.c:267`, against `doc/CLI_Helper.md:17`): `strayed` in `DraftRestored`.
* At the end of the input `cli_get_input` never returns (`cli_helper.c:237`: no branch takes EOF), against `cli_helper.h:26`, "-1 if failed or
  interrupted", and the program spins without ever shutting down. `Application` has the step (`EndOfInput`) and stays at the input;
  `Answered` and `ExitEnds` speak of lines that were entered.
* TAB resolves a relative directory part from `driver->current_directory`, which is always the root
  (`doc/CLI_Helper.md:9-10`: from the user's current position).
* A chain that has failed is run again as one command (`application.c:73-79`), which `ChainInOrder` states.
* TAB adds no `/` to a completed directory below another one (`doc/CLI_Helper.md:11`): `cli_helper.c:185`
  looks the directory part up again and gets a fresh node that was never listed. In `Navigator` this is
  `SlashFound`: the node it is given has no children, so it never ends in `slashed`, as `SlashHere` may.
* `cat` takes an absolute path (`doc/SystemsDesign.md:188`), but `middleware.c:266` puts the prompt's path before
  every argument. `CatReadsNamed` is about relative arguments for that reason.
* `cd` takes every argument from the prompt's directory, one that begins with `/` too (but for `/` itself); no document says where
  such a `cd` should go. `CdGoesThere` states what the code does, for both.

### Bounds

* `NodeTree`: a root, a directory, a file and a directory below it, with a heap of a few addresses.
  That is enough for a node at each depth, for duplicates from repeated lookups, for freeing a subtree while its
  inner node is held, and for an address to be used again. A heap that is full ends a call as `malloc`'s failure does.
* `Navigator`: the same image, a user who types relative and absolute paths of one and two names with `..`,
  and every path the shell makes of them by its own normalisation.
* `FatCache`: sectors of 4 bytes and clusters 1 to 7. Over these, FAT12 entries start
  at every offset and lie across two sectors with even and with odd clusters, and FAT16 and FAT32 entries
  fall on both sides of a sector boundary. The proofs remove the bound.
* `ChainReader`: three data clusters of two sectors of two bytes; eight tables with chains of
  every length, circles of one, two and three clusters, and ends in a free, reserved, bad or end-marked cluster; a call may start
  at any value. Offsets end at 18, the first past the volume, so that the clusters 5 and 6 come round to sectors within the image.
  Sizes 0, 3 and 9: nothing, a sector and a part, and more than two clusters.
  The FAT types differ here only in the end mark.
* `DirScan`: five slots, two to a sector and four to a cluster, so that names lie across sectors and clusters and an end
  mark, a sector's end and the chain's end all come last in turn; three files, with names of two pieces, one piece and none,
  two of them alike but for case and length.
* `Mount`: byte sizes are real (sectors of 512 and 1024, flash sectors of 512 and 4096, entries of 32 bytes); the FAT types end at 3
  and 6 clusters instead of 4085 and 65525 and words have 16 bits, so that volumes of all three types and products that
  wrap are small enough to look at sector by sector, and a volume of 226 sectors passes the end of a word. The proofs remove both.
* `Application`: all lines of up to four lexemes, and chains of up to three commands that may each succeed or fail; a chain's loop
  carries nothing from one part to the next but its place, so a fourth command meets nothing new. The proofs remove the bound.
* `WLLayer`: 3 pages and the dummy page, so that a rotation wraps and the device makes several rotations.
  The proofs remove the bound.
* `LineEditor`: lines of up to two characters, so that a cursor stands before, inside and after the text; a ring of two
  lines and sessions of three (`MaxLines`), so that it is written over.
* No other run caps a counter: every state space is finite by itself.

### Fairness

`ChainReader`: `LiveSpec` is weak fairness on all steps of the call in progress. The
program has one thread and no step waits for anything, so a call that has begun takes its next step.
Starting a call is not fair: the user may never type.

`Application`: `Spec` is weak fairness on `Step`, every step of the program but the reading of a line (`GetInput`), the end
of the input and the choice of arguments (`Usage`). The thread waits for keys and for nothing else. That a command the program runs
returns is part of this step and rests on `ChainReader`: `CallsReturn` holds but for a directory whose chain goes in a circle.

## 4. Proofs

| Module | Theorems | Argument |
|---|---|---|
| `NavigatorProofs`: the tree | `TypeCorrect`, `ForestOfLiveNodes`, `NothingLost`, `FreesOnlyBelow`, `DriverHandlesLive`, `ListsExactly` | `Shape` alone is not inductive: while a listing frees children, or a lookup attaches one, what the call in progress holds must be live and in place. The invariant joins the shape of the tree with what each phase of each call relies on; one lemma per operation on the heap (attach, free), then one step per action. `ListsExactly` needs `Filling`: while a listing attaches, the children are the entries it has scanned, each once |
| `NavigatorProofs`: the shell as the driver's caller | `ShellKeepsContract`, `DriverSafeBelowShell`, `CommandsHoldLive` | each action of the shell is an action of the driver's caller, or leaves the driver alone: step simulation, then the driver's theorems carry over. `CommandsHoldLive` needs `Waits`: which of the driver's calls a command waits for, and what that call's result is |
| `NavigatorProofs`: where paths lead | `FindPathResolves`, `ShellResolves`, `PromptIsHome`, `CdArrivesAlways`, `CatReadsAlways` | a path is resolved by a fold over its names; section 1 proves what such a fold computes from the least element of a set of naturals, and section 3 what walks along paths and their normalisation do. `Search` (`Named`, `RootHere`, `Trail`, `Progress`) says that a live node's chain of parents spells its object, and that what a lookup has walked so far is where the names behind it lead. `FindPathResolves` has one hypothesis, that no directory has a name twice: there a caller may start at a listed node. For the shell, whose lookups start at the root, `ShellResolves` needs none. `NavHome` (`Turns`, `Seeking`, `PromptReal`, `Home`, `Away`) joins this with the prompt: each command's text names what its call in progress looks for |
| `DirScanProofs` | `TypeCorrect`, `ScansImplementDirectory`, `FindReadsAsList` | the invariant has what the writers keep (`RunsWhole`: the pieces of a name stand before its entry, all of them, the last one first; `OneEntry`, `EndsLast`) and what the loop has done (`Assembling`: which pieces of the run behind `pos` the buffer holds; `Gathered`: the children are the entries passed; `PassedBy`: none of them was the one wanted). Then every step maps to one of `Directory` or a stutter. `FindReadsAsList` compares two loops on one directory: the reading of a listing is the witness, and a lookup agrees with it slot by slot |
| `FatCacheProofs` | `TypeCorrect`, `CacheCoherent`, `ServesTable` | `Coherent` needs `Held`: at each step of a call, which sector is cached, and that `byte1` came from the byte before it. The arithmetic of offsets is in lemmas per FAT type; `EntryRight` says that what is extracted is the entry, and each step then maps to a step of `FatTable` or a stutter |
| `WLLayerProofs` | `TypeCorrect`, `NeverRefuses`, `FirstCopyRight`, `ReadsAnswered`, `TranslationOneToOne` | the invariant relates the device's position to both copies at each of its steps (`CopiesFollow`) and says that the volume can be read under every position a recovery could arrive at (`VolumeHeld`); lemmas show the device's and the program's formula for an address equal, and that moving the page keeps the view |
| `MountProofs` | `TypeCorrect`, `ClustersLieInVolume`, `DumpAreas`, `RecordsRead`, `FormattedVolumesRead` | for every width of a word and every image. The invariant says that a layout, once there, is `Layout` of a config that passed the tests, and that a mounted volume's numbers are those of `Counted`; lemmas bound quotients and products (`Quotient`, `QuotientLargest`), and `DataAfterMetadata` says why asking for the FAT type too early does no harm. `FormattedVolumesRead` needs `Placed`: the numbers kept are those of the layout. `AsItIs` says that a formatted dump is not taken for a plain image unless a read fails (`DeviceRoom`), and `ReadSector` that no number on the way is cut to a word while the volume's bytes fit one. `FlattenRows` says where a row lies in rows joined by recursion, so `VolumeHolds` says what every sector holds, and `DeviceWithin` that the device's sum and the code's differ by nothing |
| `ApplicationProofs` | `TypeCorrect`, `NeverFreedTwice`, `AllReleased`, `CommandsInOrder` | what is live is pinned down at each place of start-up; in the loop the commands that ran are those of the parts before `saveptr`, all well ended (a failed one leaves the chain at once) |
| `LineEditorProofs` | `TypeCorrect`, `HistoryIsTail`, `HistoryNoRepeats`, `TerminalShowsLine`, `WalkShowsHistory`, `DraftComesBack`, `OnlyTabLosesCursor` | the type invariant and the three others are inductive together: the walk through the history needs the ring, the ring's test for a repeated line needs that the last slot holds the last line (`SlotsDiffer`, about `%`), and the row needs that the terminal's column is `cursor_pos`; the lemmas before say, cell by cell, what inserting, removing and printing make of the line and the row |
| `ChainReaderProofs` | `TypeCorrect`, `CopiesTheChain`, `ShortAtTheEnd`, `CountsFree`, `CallsComeNearer` | `ReadPlace` counts: at the head of a cluster the bytes copied are whole clusters, inside one they are these and `sector` whole sectors, and they are less only at the file's end; `DivMod` then says from which cluster each byte of the buffer came, and `Remainder` that the two wraps leave an offset alone that is below `Offsets`. For the free clusters `CountPlace` says the count is that of a set which agrees with the table wherever the entry was given. `CallsComeNearer` is the ranking behind `CallsReturn`: rounds (bytes missing, clusters not counted, clusters a scan has not entered) and steps of a round; it needs `BytesToRead`, that a read enters a cluster only while bytes are missing, so that a read ends even in a circle |

Assumptions are those named in the modules: sector sizes are multiples of 4 (the
HAL takes 512, 1024, 2048 and 4096), clusters asked for are below the end mark (every caller
tests `is_eoc` first), pages and their size are positive, a page of the wear-levelling layer is a whole number of
sectors, a long name fits into `lfn_buffer` (255 characters do) and every name that the buffer can hold has a lower-case form,
offsets have no more numbers than the sectors of a word have bytes (`WordAssumption`), and the images called formatted are as `FormatAssumption` says. TLC evaluates each of them in the runs.

What these proofs can say of recursive definitions rests on lemmas by well-founded induction over a set (`LeastNat`, `Induction`): the
library's induction theorems take a predicate as a parameter and cannot be used here, but `WFMin` is about sets.

Every invariant and every action property that a run checks is proved, and so are the three refinements. Only model-checked are
`CallsReturn`, `Answered` and `ExitEnds`, which, being liveness under fairness, are out of the prover's
reach (what `CallsReturn` says beyond `CallsComeNearer` is that a call which has begun does take its next step), and the violations, where TLC's trace is the evidence. The type invariants are proved, not listed in the runs.

## 5. Not modelled

* What an entry holds besides its name: size, times, attributes and first cluster, which `fat_driver_fill_file_node` copies field by field
  (`fat_driver.c:512-533`); names as characters (the case of a short name, 16-bit characters cut to 8, the limit of 255).
* `evidence` and what the commands print; the lengths of the shell's text buffers.
* The linked list (`utilities/linkedlist`): nothing in the program calls it.
* The IP driver, which is file I/O and appears as reads that succeed, fail or fall short; messages and colours; the
  keyboard (`portable_getch`) and the terminal's width.
* `malloc(file->size + 1)` at the largest size (`middleware.c:286`) and file sizes beyond 2^31: `ChainReader`'s byte counts (`want`, `limit`, the
  length of `buffer`) have no width; its sector numbers and offsets do.
* Builds whose `long` has 32 bits, in which `ip_driver.c` seeks and measures the file: the models are of builds with 64.
* Scripts and tools: not part of the program.
* `project/fatfs` holds nine tenths of the C lines of this tree (`ffunicode.c` alone, a table of characters, nearly half of them). It is
  the ESP-IDF FatFs component, third-party code that `project/Makefile` does not build and no source of the program includes; the repository
  keeps it for the script that generates test images. The models cover the program's own code, the 2,686 lines of `project/src`.

## 6. Plan

1. A composition of `WLLayer` with `Mount`'s layout, so that one model goes from the bytes of a dump to the entries of its root directory.
2. Byte counts with a width in `ChainReader`.
3. The same lookups as steps of `Directory` and of `NodeTree`: an instance of one in the other, so that what `NodeTree` takes for
   granted of a directory's entries is what `DirScan` is proved to give.
