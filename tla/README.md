# A TLA+ model of RubyOS

RubyOS is a 32-bit hobby kernel in C: it boots with GRUB, runs a shell from the
keyboard interrupt, and keeps files in its own filesystem, RFSS+. This project
models what the kernel does to state that has to stay consistent: the
filesystem, which is the largest part of the program and the only one whose
state outlives a reboot; the ATA driver under it; the way a key takes from the
controller through the interrupts to the shell, the editor and scripts; and the
boot sequence in which the two input devices come up.

Contents: the system and its hazards (1), the modules and how they correspond to
the code (2), what the runs check (3), what is proved (4), what is abstracted or
left out (5), the plan (6).

## 1. The system

Everything runs on one processor. After boot (`src/startup/kinit.c`) the kernel
idles in `hlt`; every command is run **inside** the keyboard interrupt
(`keyboard_callback` -> `shell_input_char` -> `shell_handle_input` -> the
command), with interrupts off. Two commands therefore never overlap: what makes
the filesystem hard is not threads but the *sequence of block writes* of a
command. The power (or the `reboot` command, which asks the keyboard controller
for a reset and unmounts nothing) can stop it between any two of them, and any
of them can fail.

| Part | State | Operations | Talks to | What makes it correct |
|---|---|---|---|---|
| RFSS free space (`fs/rfss.c`) | superblock counters, block and inode bitmap, in memory and on the drive; `dirty` | allocate, free, mount, unmount, format | ATA | counters = clear bits; nothing given out twice; a saved copy is one save |
| RFSS directory blocks (`fs/rfss.c`) | a chain of variable-length records | find, add, clear, is-empty | - | the chain covers the block, records do not overlap, a name is found iff it is there |
| RFSS tree (`fs/rfss.c`) | inode table and blocks on the drive, table snapshot and bitmaps in memory, current directory | create, mkdir, rm, rmdir, open for writing, write, cd, mount, unmount, format | free space, directory blocks, ATA, shell | no two files share anything, nothing leaks, references are written last, a command changes the visible tree at one path only |
| RFSS journal (`fs/rfss_journal.c`) | transaction, journal blocks | init, start, log, commit, abort, replay | RFSS | disabled in this commit, unreachable |
| ATA (`drivers/ata.c`) | device table; the drive's registers, buffer and cache | identify, read, write + flush | RFSS | a block transfer that reports success is done, one that fails did a first part of it; every wait ends |
| Shell (`user/shell/shell.c`) | input line, history and its index, edit mode | characters, special keys, commands | keyboard, console, RFSS, heap | the history is the last lines; the screen shows the line that Enter runs |
| Editor (`user/shell/edit.c`) | buffer, cursor, file name | open, insert, delete, save | shell, RFSS, heap | it saves the file it loaded, whole, and says whether it did |
| rsh (`user/shell/rsh/rsh.c`) | if/else flags | one line at a time | shell, RFSS | commands of the branch taken, even while the editor is open |
| Keyboard, mouse (`drivers/keyboard`, `drivers/mouse`) | callbacks; packet position | IRQ 1, IRQ 12, initialisation | controller at 0x60/0x64, shell | every byte goes to the handler it is for, in order |
| Boot (`startup/kinit.c`) | which handlers exist, interrupts on/off | the boot sequence, `hlt` | all | it ends, with both devices on |
| Interrupts (`cpu/irq.c`, `cpu/isr.c`) | handler table, the PICs | dispatch, EOI | all | an acknowledged interrupt leaves no byte behind |
| Heap (`mm/memory.c`) | bump pointer | kmalloc, kfree (does nothing) | all | areas are disjoint; it runs out |
| Console, screen (`drivers/console.c`, `drivers/screen.c`) | cursor, cells | print, wrap, scroll, rub out | shell, editor | cursor on the screen; what is printed is what shows |
| System calls, processes, timer, network, USB, desktop | | | | little of it is reachable: see 5 |

`PROJECT.json` lists every component with its status, and under "hazards" what
can go wrong at which line. The behaviours that are hardest to test, in short:

* a command is several block writes: inode, directory block, parent's inode;
* bitmaps and counters live in memory until `rfss_unmount`, inodes and directory
  blocks go to the drive at once, so the two are out of step all session long;
* `rfss_unmount` writes back the inode table *as it was read at mount*;
* a block that cannot be read is skipped by every scan, which then answers
  "not there"; results of some writes are not looked at;
* `rfss_format` does not ask whether the drive is mounted;
* a drive's answer that comes after a time-out is taken for that of the next
  command, and an error after the data or the flush is not looked at;
* `init_mouse` polls the port that the two interrupt handlers read, and the
  handlers are registered one after the other with interrupts already on;
* an interrupt without a handler is acknowledged and its byte left behind;
* a command that does not return stays inside the keyboard interrupt for good;
* a script runs commands behind the editor's back;
* memory is never given back, so every operation that allocates fails one day.

## 2. Modules

| Module | Models |
|---|---|
| `RfssBitmaps` | the copy of superblock counters and bitmaps, and what the four allocator functions, the freeing of a whole file and the three block writes of a save do to it (pure operators, shared by the next two) |
| `RfssAlloc` | free space as a state machine: memory copy, disk copy, saves block by block, failures, power cuts |
| `FreePool` | abstract: a pool of free numbers that can be taken, put back, saved, and opened again |
| `DirBlock` | one directory block, record by record, byte offsets and lengths |
| `NameTable` | abstract: a set of names with the files they stand for |
| `RfssDirectory` | inode table and directory contents as values, look-up and path resolution (pure operators) |
| `Rfss` | the whole filesystem as the shell drives it: commands as sequences of block writes |
| `FileTree` | abstract: the tree of names a user sees, and what a command may do to it at the one path it is about |
| `AtaPio` | the transfer of a block, sector by sector and register by register, and the drive it is sent to |
| `BlockStore` | abstract: a drive of blocks, read and written by one request at a time |
| `InputBoot` | keyboard, mouse, controller and interrupts, from `sti` to the idle loop and on |
| `Console` | cells, cursor, wrap and scroll (pure operators) |
| `KHeap` | the bump allocator (pure operators) |
| `Shell` | the shell's line, history and screen, the editor and scripts, key by key |
| `MC_RfssAlloc`, `MC_DirBlock`, `MC_Rfss`, `MC_AtaPio`, `MC_InputBoot`, `MC_Shell` | definitions the `.cfg` files choose from |
| `RfssBitmaps_proofs`, `RfssAlloc_proofs` | lemmas and theorems about free space |
| `AtaPio_proofs` | lemmas and theorems about the ATA driver |
| `DirBlock_proofs` | lemmas and theorems about directory blocks |
| `InputBoot_proofs` | lemmas and theorems about keyboard and mouse |
| `Shell_proofs` | lemmas and theorems about shell, editor, heap and screen |
| `Rfss_proofs` | lemmas and theorems about the filesystem |
| `Iteration` | lemmas the proofs share: folds over sequences and functions defined by recursion on the numbers, quotients, counting in finite sets |

`RfssAlloc` and `Rfss` both extend `RfssBitmaps`; `Rfss` extends it through
`RfssDirectory`. `RfssAlloc` implements `FreePool` twice (blocks, inodes),
`DirBlock` implements `NameTable`, `Rfss` implements `FileTree`, and `AtaPio`
implements `BlockStore`, which is what the block writes of `Rfss` stand on.
`Shell` extends `Console` and `KHeap`.

### RfssBitmaps and RfssAlloc

A *copy* is `[bits, freeBlocks, freeInodes]`: `bits` holds the block numbers and
inode bits that are set. `mem` is `fs->superblock`, `fs->block_bitmap` and
`fs->inode_bitmap`; `disk` is blocks 0, 69 and 70. `Reserved` is 80,
`InodeCount` 1024, `BitmapBits` 32768 (one block). `AllocateBlock`,
`AllocateInode`, `FreeBlock`, `FreeInode` are the four functions, whole: the
allocator refuses when its *counter* is 0, scans from the first number up and
sets the bit; a free of a clear bit does nothing. `UnmountDirty`, `WriteStage`
and `FinishUnmount` are `rfss_unmount` between its writes, `Format` and
`FinishFormat` are `rfss_format`. `UnmountWriteFails` and `FormatWriteFails` are
a write that reports an error, having stored the block or not: an unmount goes
on, a format returns. `PowerCut` can come at any time. `memWhole` and
`diskWhole` are history: whether the copy comes from saves that were finished
(`torn` counts the others, bounded by `MaxTornSaves`).

### DirBlock

A block is a function from offsets to records `[len, nameLen, name, inode]`, and
`Unwritten` where no record begins. The scans of the code (find, remove, is
empty, add) are one loop, one record per step: `scan.offset` is the loop's
`offset`. The struct's size (`EntrySize`, 263 in the code: header and a name
field of full length) is what every record must be long enough for, while a new
record takes `EntrySize` plus its name's length rounded up to four. The "." and
".." records that `rfss_format` and `rfss_create_directory` write are 12 bytes
long (`DotLen`), shorter than the struct, so that every scan stops at the first
of them: a directory's first block never yields an entry and never takes one.
`DotsBlock` is that block; a directory's entries begin in its second one.

### RfssDirectory and Rfss

`table` is the inode table on the drive, `snapshot` the copy `rfss_mount` read
(`fs->inode_table`), `content` the blocks from 79 on: zero, the dots, entries in
order of the chain (a cleared one has inode 0), or data of a file. `op` is the
command in progress, with the place (`pc`) of its next block write; every action
is one block write, or the work in memory before the first one.

| Code | Actions |
|---|---|
| `cmd_touch`, `cmd_mkdir`, `cmd_cp` + `rfss_create_file`, `rfss_create_directory` | `Touch`, `Mkdir`, `Copy`, `WriteDots`, `WriteNewInode` |
| `rfss_add_directory_entry` | `AppendEntry`, `GrowDirectory`, `RefuseEntry`, `WriteEntryBlock`, `WriteParentInode` |
| `cmd_rm`, `cmd_rmdir` + `rfss_delete_file`, `rfss_remove_directory` | `DeleteFile`, `RemoveDirectory`, `ClearEntry` |
| the editor's save, the second half of `cmd_cp`: `rfss_open_file` with truncation, `rfss_write_file` | `Edit`, `CopyOpens`, `WriteTruncatedInode`, `ExtendFile`, `RewriteBlock`, `StopWriting`, `WriteData`, `WriteFileInode` |
| `cmd_cd` + `rfss_change_directory` | `ChangeDirectory` |
| `rfss_mount`, `rfss_unmount`, `rfss_format` | `Mount`, `UnmountClean`, `UnmountDirty`, `Format`, `WriteCopy`, `WriteTable`, `WriteRoot` |
| `cmd_reboot`, power loss | `PowerCut` |

### AtaPio and BlockStore

`call` is the request (`rfss_read_block`, `rfss_write_block`, or the identify of
`ata_init`), `call.piece` the sector the loop is at, `pc` the place in
`ata_read_sectors`, `ata_write_sectors` or `ata_identify`, `timeout` the counter
of `ata_wait_bsy` and `ata_wait_drq`. One action is one access to the registers
or one look at the status: `SetRegisters`, `Command`, `WaitReady`, `CheckError`,
`WaitData`, `Transfer`, `WaitStored`, `Flush`, `WaitFlushed`. The drive (`dev`,
`cache`, `disk`; external) finishes a command when it likes or never, reports an
error instead, writes its cache back when it likes, and loses it with the power.
It ignores a command it is given while it is at another.

The refinement is where the work is. `stored` is what the platters hold, not
the cache: a write that reports success must be durable. `inFlight` is the
difference of the two, and `BlockStore` allows at most one piece there, so each
sector must be flushed before the next is sent. A failed or interrupted write
has stored a first part of the block, and one more piece may still land. That
is what `Rfss` relies on when it takes a block write to be done, lost or late;
that the prefix may be a strict one (a torn block) is what it abstracts from.
`missed` records the two things the driver does not look for: an answer after
its last poll that counts, and an error after the data were transferred. From
then on the code promises nothing, and the abstract specification is `excused`;
up to that point it is exact. That includes every time-out itself, and whatever
the call in progress returns.

### InputBoot

`boot` is the next step of `start_kernel` and, inside it, of `init_mouse`; every
`outb` or `inb` that matters is a step of its own and an interrupt may come
between any two (`At` says that a requested interrupt is taken first). The
controller (external) has one output buffer `obf`, filled (`Fill`) from its own
answers, the keyboard's scancodes or the mouse's bytes, and raises IRQ 1 or 12
when it fills; the PIC remembers edges (`irr`). `Unhandled`, `KeyboardCallback`
and `MouseCallbackHandler` are `irq_handler` with its acknowledge first.
`ReadPort` is the bounded `mouse_wait(0)` and the read after it: when nobody
answers in time, it reads whatever there is. There may be no mouse (`present`).
`mouse_wait(1)` waits for the controller to have taken the last byte, which the
external controller does at once.

The properties are conditional on three events that the model has and that do
break the input in the code: `early` (a key or movement before its handler is
registered: the byte stays in the buffer, and no edge follows), `gaveUp` (a wait
ended although an answer was on its way) and `stuck` (a command that never
returns). They are history variables, so the conditions cost nothing in
coverage: the states behind them are explored.

### Console, KHeap and Shell

A cell of `Console` is the *set* of characters drawn into it since it was last
cleared, because `draw_char` paints only the pixels that are set: a blank
clears nothing. `\b` does clear (`clear_char_at`), and so does a scroll.

`Shell` has one action per key: `Type`, `Backspace`, `Enter`, `Up`, `Down` with
the editor closed (`shell_input_char`, `shell_special_key`), `EditorType`,
`EditorBackspace`, `EditorArrow`, `Escape` with it open (`edit_input_char`,
`shell_special_key`). `Enter` contains the command: one of the shell's, or a
script, which `ScriptLine` runs line by line. `line` is `input_buffer` up to
`input_pos`, `ed` the editor's statics. What a line means is the constant
`Meaning`: the commands that matter here are those that open the editor, change
the directory, or do both from a script. Every open costs `InodeSize` of the
heap. `SpecialKeys` are the scancodes that `keyboard_callback` passes on; the
left and the right arrow are not among them, so that `edit_move_cursor_left`
and `edit_move_cursor_right` are dead code, and both arrows type whatever byte
lies behind the layout's table instead.

`ed.disturbed` and `recalled` are history, and name the exceptions of two
properties: a script went on after it had opened the editor; the line was
recalled over a longer one, whose pixels stay. Of a file that is longer than the
editor's buffer the end is not in the text, and is lost on saving:
`TextExtendsFile` counts it as rubbed out.

The definitions whose comment begins "Mutant of" are the definition they stand
next to, changed as a plausible bug would change it. No specification uses them;
`PROJECT.json` names the property that each of them breaks.

## 3. Runs

| Run | Bounds | Shows |
|---|---|---|
| `alloc` | 3 data blocks, 2 inodes, 1 torn save | the allocator, all failures: counters tell the truth in sessions begun from a finished save, saves progress block by block, reserved blocks stay, both pools are implemented |
| `alloc_large_drive` (violation) | the drive has 2 blocks more than the bitmap has bits | `DfTruthful` fails: free blocks are counted that have no bit |
| `dirblock` | 30 bytes, struct 6, names of 1 to 4 bytes, 3 names, 2 files | the chain covers the block, no record overwrites another, a scan in progress stands on a record and has missed no entry (`ScanSound`), the block is a table of names |
| `rfss_session` | 4 data blocks, 3 inodes, 2 names, 2 blocks per file, 1 disk error | all file commands, in the root and below: sharing, leaks, order of writes, what the error paths give back; the current directory, whatever is removed but it itself while it is empty; what a command does to the visible tree, at one path and step by step; removed names gone |
| `rfss_cut` | 4 data blocks, 3 inodes, 2 table blocks, 1 entry per block, 3 blocks per file, 1 disk error in a format | power cuts anywhere; a format while mounted, cut or with a failing write; the tree is whole at every moment and the next session can remove |
| `rfss_umount` | two sessions, 4 inodes | the stale table and the saved bitmaps exclude sharing |
| `rfss_reboot`, `rfss_umount_forgets`, `rfss_rm_below` (violations) | 4 data blocks | findings 2 to 4 below |
| `ata` | 2 blocks of 2 sectors, 2 values, 2 polls a wait; nothing begins after `missed` | with every delay, error and power cut: the block store is implemented (reads return what is durable, writes are durable and in order, at most one piece is in flight), the driver knows where the drive is (`KnownState`), and every transfer ends |
| `input` | 2 keys, 2 movements, with and without a mouse, the mouse's two flags as the boot loader left them | the byte in the controller's one buffer is always the one its reader expects (`InputKnown`); both devices are on after boot, keys and packets arrive whole, in order, each once, and all of them; boot ends |
| `shell` | 3 by 3 cells, lines and texts of 2 characters, 2 lines of history, heap for 3 opens, 3 lines entered | history, echo across wraps and scrolls, what the editor loads and saves and says, the heap |

**Bounds.** A file or directory has two or three direct blocks instead of twelve and a
directory block one or two entries instead of a few, so that "the block is full",
"the inode has all its blocks", "the drive is full" and "no inode is left" all
happen within a few commands; three inodes at two to a block make an inode table
whose second block is half used, the case of the rounding. Every property
relates at most two files (or one file and its directory), so two names are
enough to break it, and a third inode makes the nested case. `Sessions` bounds
the commands and mounts: a behaviour has at most as many sessions as the
sequence is long. `MaxFaults` and `MaxTornSaves` bound the errors. `ChunksPerBlock`
is 2 (4 in the code): a copy writes each block more than once.

In `ata` two sectors make a first and a last one, and a second block shows an
answer that is taken for another's; two polls are one that counts and the last.
In `input` two keys and two movements (six bytes) are enough for one to be lost,
taken by the other's reader, or out of step, and to come at every step of the
boot. In `shell` a prompt of one or two cells and a line of two wrap in every
way on three columns, and the third line scrolls and overflows the history; the
heap is used up by the third open at the latest.

**The arguments.** `touch` and `mkdir` only let bare names through
(`fs_isvalidname`, whose constants are named the wrong way round), the other
commands take any path. `Careful` keeps a user from the arguments for which the
code's own behaviour is already a finding or an observation below: the root;
`rm` of a name without a directory part outside the root (`name` is cleared in
the root, and for `/name` the text before the slash is empty, which resolves to
the current directory); `rmdir` of such a name, or of the current directory,
while the directory is empty; `edit` of a directory. He does try to remove
directories that have something in them, the current one and those above it
included, for there the code's own check is what protects him. The runs with
`Careful = TRUE` show what holds for him; `rfss_rm_below` has `Careful = FALSE`.

**Which errors.** `HandledFaults` are those after which the code undoes what it
did or gives up without having changed anything: a lost write of a creation, a
read error while opening, writing or changing directory. For the others
(a write that was stored but reported failed, read errors in a removal, lost
writes of a removal or a truncation) the code has no answer, and no passing run
claims anything about them.

**Fairness.** The specifications of the filesystem are `Init /\ [][Next]_vars`:
the power may go at any time and nothing retries. `AtaPio` assumes weak fairness
of `Step`, the driver's own next instruction, and nothing of the drive, which
may never answer: that the waits end is a property of the code. `TransfersEnd`
excepts a power that goes off and on for ever. `InputBoot` assumes it of `Boot`
and `Interrupt` (the CPU runs, and takes an interrupt it is sent) and of `Fill`
(the controller passes on the bytes it has); nobody has to press a key.
`BootEnds` and `InputArrives` are proper liveness properties of the polling
loops and of the way a byte takes. `Shell` has no liveness: nothing waits.

Deadlock is checked where the system never stops (`alloc`, `dirblock`, `ata`,
`shell`); a bounded number of sessions of `Rfss` does stop, and so does
`InputBoot` once the keys and movements are used up and the kernel idles.

### Findings

1. `alloc_large_drive`: the block bitmap is one block however large the drive
   is; for the 256 MB image of the Makefile half of the blocks have no bit.
2. `rfss_reboot`: touch, reboot, touch: two names, one inode, because bitmaps
   are saved only by an unmount and `reboot` does not unmount.
3. `rfss_umount_forgets`: unmounting writes the inode table read at mount over
   everything the session wrote to it.
4. `rfss_rm_below`: `rm name` outside the root frees the file and looks for its
   entry in the root, where it is not; the name stays. The run's arguments are
   bare names: `mkdir a`, `cd a`, `touch a` or `touch b`, `rm` of that file.

### Observed, not runs of their own

* `rmdir` of the current directory succeeds while it is empty. The session keeps
  the freed inode's number as its current directory, and the next file or
  directory made is given that inode: after `mkdir a`, `cd a`, `rmdir /a`,
  `touch a` the current directory is a file. `/a` is looked up from the root,
  but its entry is cleared in the directory that the empty text before the slash
  resolves to, the current one, so that the name stays in the root as well.
* `shell_redisplay_input` prints 60 blanks to erase the line; blanks paint no
  pixel, so a recalled line is drawn over the old one (`docs/index.html`:
  "Command history with arrow key navigation (up/down)"). `EchoShowsLine` is
  conditional on `~recalled`.
* A transfer that follows a late answer of the drive reads another block's
  sector or writes nothing; an error after the data or the flush goes unseen,
  although the flush is there "to ensure data is written to disk" (`ata.c:229`).
* A script `edit f`, `cd d` saves `f` into `d`; `edit f`, `edit missing` saves
  to `missing` (`current_file` is set before the open is tried).
* An empty text empties the file and is reported as "Error saving file.".
* A key before `init_keyboard`, or a movement before IRQ 12 has its handler,
  leaves its byte in the controller: neither device is heard again.
* `startx` and `exit` never return from the keyboard interrupt.

## 4. Theorems

`RfssAlloc_proofs` is about `RfssAlloc`, for every number
of blocks, reserved blocks and inodes that satisfy `SizesAssumption`; no further
assumption on the faults, of which the model allows any number (`MaxTornSaves`
is any natural number).

* `TypeCorrect`: the type invariant, in particular that the two counters never
  leave the natural numbers (they are unsigned and unguarded in the frees).
* `DfTruthfulHolds`: under `TotalBlocks <= BitmapBits` (every block has a bit),
  the counters of a session that began from finished saves, and of every
  finished save, equal the numbers of clear bits. By itself that is not inductive: a save is
  three writes, and the copy on the drive agrees with its own counters only when
  all are done. The strengthening is `SaveProgress`, which says of each stage
  what the drive has from `Image` (memory, or the fresh copy of a format) so
  far; when the last stage is written, the drive's copy *is* the image.
* `SaveProgressHolds`: that strengthening itself, which says what a cut between
  two writes of a save can leave.
* `ReservedKeptHolds`: the bits of the reserved blocks stay set, through torn saves too, because
  a mixture of two saves takes each bitmap from one of them. It says nothing of
  inode bits: `rfss_free_inode` would free the root's too.
* `BlockPoolHolds`, `InodePoolHolds`: `RfssAlloc` implements `FreePool`. The
  hard step is *refuse*: the code refuses when the counter is 0, the pool only
  when nothing is free, and `DfTruthful` closes the gap.

The lemmas about copies (cardinality of the clear bits after setting or
clearing one, the lowest clear bit, the stages of a save, the freeing of a
whole list) are in `RfssBitmaps_proofs`.

`AtaPio_proofs` is about `AtaPio`, for every number of
blocks, of sectors to a block and of polls to a wait (`SizesAssumption`: each at
least one), and any data that are not what a floating bus returns
(`GarbageAssumption`).

* `TypeCorrect`: the type invariant; it needs that `Sector(block, piece)` is a
  sector of the drive and that different pieces have different sectors
  (`SectorInRange`, `SectorsApart`).
* `KnownStateHolds`: until `missed`, the drive is `Stuck` or `Working`. This is
  the inductive invariant of the driver. The refinement alone is not inductive:
  that a sector is stored at the end of a wait depends on the drive having been
  at *this* command for *this* sector since the registers were written, so
  `Working` says for each place of the driver what the drive is at, what
  `cache` and `disk` may differ in, and which pieces are done (`Progress`).
  After a time-out the drive is still busy and nothing above holds: but then it
  takes no registers and no command, its own late answer would be `missed`, and
  every later transfer times out in its first wait; that is `Stuck`. An error
  it reports late is `missed` too, so that only a power cut ends it.
* `StoreHolds`: `AtaPio` implements `BlockStore`. One lemma per kind of step:
  most are hidden (`HiddenStep`: neither the request, the answer, the cache nor
  the platters change), the end of a store command is the piece being sent, its
  flush or write-back is the piece landing (`LandMaps`), a return is the answer
  of the request.

`DirBlock_proofs` is about one directory block of any size, any size of the
struct that a record must have room for, and any names
(`DirBlockAssumption`: the record of "." is shorter than the struct, and the
record of the longest name fits in the block in front of one more struct; in the
code 12, 263, and 263 + 256 of 4096 bytes).

* `ChainWholeHolds`, `RecordsIntactHolds`: the records tile the block and none
  is written over another. The chain is described by the set of its offsets:
  0 and every record's end, the block's end excepted. The step that matters is
  `add`, which shortens the last record and puts a new one behind it.
* `ScanSoundHolds`: a scan's offset is the beginning of a record, no entry
  before it has the name it looks for, and no name is entered twice. It is what
  makes the refinement inductive: that the loop ends with "not found" shows that
  the name is not in the table only if it was not passed over on the way.
* `TableHolds`: `DirBlock` implements `NameTable`, with find, remove and is-empty
  answered at the end of their loops.

`InputBoot_proofs` is about any number of keys and movements (`BoundsAssumption`).

* `ControllerReadyHolds`, `InputInOrderHolds`: both devices and both interrupts
  are on when `init_mouse` is done, and every key and packet arrives whole and in
  order. Neither is inductive: that the answer read is the configuration byte,
  and not a key, depends on what may be in the output buffer at each step of the
  boot. `InputKnownHolds` is the strengthening: until one of the events
  of section 2 has happened, a byte in the buffer is either the answer that the
  boot waits for, or one whose interrupt is requested and has its handler; the
  mouse's remaining bytes are whole packets behind `mouse_cycle`.

`Shell_proofs` is about any size of the screen, the line, the history, the
editor's buffer and the heap (a multiple of four, as the code's is), any contents
of the files, and any meaning of the lines. `EchoAssumption` asks that a prompt
fits on a row and that a prompt and a full line fit on the screen (in the code
240 by 67 characters for a line of 255), and that no character typed is Enter or
backspace.

* `TypeCorrect`: with one invariant of three parts, `ScreenType`, `HistoryType`
  and `FilesType`. What a string of any length does to the screen, and a script
  of any length to editor, directory and heap, are folds: `FoldExists` and
  `FoldKeeps` (in `Iteration`) show once that what every element keeps the fold
  keeps, by the well-foundedness of < on the natural numbers
  (`NumbersByInduction`).
* `HistoryIsRecentHolds`: shifting a full history by one and appending is
  keeping the last `HistorySize` lines.
* `HeapAreasDisjointHolds`: every area lies below the bump pointer, which the
  rounding up moves past the new one and never past the array.
* `TextExtendsFileHolds`, `OnlyTheEditedFileHolds`: with the editor open the
  cursor is at the end of the text, text and file agree up to `low`, and unless
  a script went on the file that was loaded is the one that the current
  directory names. Each command keeps this (`EditKeeps`, `CdKeeps`), so a script
  does (`RunKeeps`), so Enter does.
* `ReportIsTrueHolds`: what the editor says of the save.
* `EchoShowsLineHolds`: the screen shows the line that Enter will run. The
  property speaks of the times when no line was recalled, and is not inductive:
  the prompt after a recalled line is in order only if the rows below the cursor
  are empty even then. `EchoInv` says where the line begins (`EchoAt`, a row that
  moves up with every scroll) and that all cells behind the cursor are empty,
  from that row on or, for a recalled line, from the next; and that with the
  editor open the line is empty. It needs the arithmetic of rows and columns
  (`NextPlace`, `PlacesOrdered`, `LineFits`: the row of the prompt never scrolls
  off while its line is typed), what one character does to every cell
  (`PutGlyph`, `PutNewline`, `PutRubout`), and induction over what is printed.

`Rfss_proofs` is about drives, tables, directories, paths and numbers of sessions
of every size (`RfssAssumption`), any of the disk errors, and users that are
careful or not.

* `TypeCorrect`: the table holds inodes whose blocks exist, the contents are of
  the four kinds, the current directory and the inodes of a command exist. The
  strengthening (`Typed`) says for every place of a command what it has got so
  far: a creation an inode and maybe two blocks, a writer an inode that still
  has the slot it fills next (`Index` has a slot: a quotient, bounded by
  `QuotientBounds`). `Walk`, a recursive function over the names of a path, leads
  to inodes or nowhere by `NumbersByInduction`.
* `FormatErasesHolds`, under `TotalBlocks <= BitmapBits`: `FormatInv` says of each
  stage of a format what it has written so far, and that no other command ever
  writes the root's first block or a stage's blocks. The
  tree is then the root alone: `Reached` is a union of levels, and every level
  but the first is empty in a fresh table.

* `NothingSharedHolds`, `WrittenBeforeReferredHolds`, `SharingExcludedHolds`,
  `RemovedIsGoneHolds`, `CurrentDirectoryExistsHolds`: the tree, under `Guarded`.

  The properties speak of what is reachable, and none of them is inductive: that
  a block is written to says nothing of who has it unless everything reachable
  is known to have its blocks to itself, nor is a freed block harmless unless
  nothing reachable has it. The inductive invariant is `Sound`: the types, the
  stages of a format, and a set `L` of inodes with `TreeInv(L)`. `L` is the tree,
  as a witness and not as what is reached: a creation adds its inode to `L` in
  the step that writes the entry (or the parent's inode, when the directory gets
  a block), a removal takes its inode out in the step that clears the entry, and
  the table write of a format leaves the root; no other step changes `L`. That
  everything reachable is in `L` follows (`ReachableInTree`, by induction over
  the levels of `Reached`). `TreeInv(L)` says

  - `Whole`: each entry of a directory of `L` leads into `L`, to an inode of the
    type it says, and no other entry leads there (`EntriesLead`,
    `EntriesApart`); no two entries of a directory have one name; no two places
    in the lists of blocks have one block (`BlocksApart`); every block holds
    what the inode that has it is for (`ContentsRight`);
  - `Marks`: in a session whose bitmaps can be trusted, no session before it
    having been cut off, everything in `L` is marked in memory, but for the inode
    a removal or a truncation has freed and not yet written; and the table is
    fresh until the first change is marked dirty, for what an unmount writes is
    the snapshot;
  - `Where`: the current directory is in `L`;
  - `Between`: what holds with the drive unmounted;
  - `OpOK`: what a command has in hand. A creation: an inode outside `L` and
    blocks that are marked and that nothing in `L` has (`Spare`), what it has
    written to them, and a name that the parent does not have. A writer: blocks
    that no other inode has. A removal: that the parent has the entry and, once
    it is cleared, that the inode is not in `L`. An unmount: how far the table
    has been written.

  The lemmas of the operators come first: what `Lookup` finds and when it finds
  it again (`LookupInTree`, `LookupsStay`), that a path leads into the tree and
  leads where it led (`WalkInTree`, `WalkKept`, by `NumbersByInduction`), and
  what an entry appended, a directory extended, an entry cleared and a file
  rewritten do to `Whole` (`WholeAppended`, `WholeExtended`, `WholeCleared`,
  `WholeFile`). Each action then has its lemma (`TreeAppends`, `TreeClears`, ...).
  `CurrentDirectoryExists` needs one more invariant, `Prompted`: the path of the
  prompt leads to the current directory. The step that matters is a removal: an
  inode that has no entries can be neither the current directory, which the
  careful user leaves alone while it is empty, nor one above it.

  `Guarded` is what these theorems ask of the constants. Each of its parts is
  there because of something the code does without it:

  | Part | Without it |
  |---|---|
  | `Careful` | `rfss_rm_below`: `rm` of a bare name below the root frees the inode and leaves the entry, and its number is given out again; `rmdir` of the current directory while it is empty frees it, and the session goes on in it |
  | `TotalBlocks <= BitmapBits` | `alloc_large_drive`: a block beyond the block bitmap has its bit in the inode bitmap: taking or freeing it takes or frees an inode |
  | after a session that can be cut off, only removals, `cd`, formats | `rfss_reboot`: the bitmaps saved are older than the tree, and `touch` takes an inode that is in use |
  | `Faults` are handled ones or a format's | a write reported lost and stored after all, an unreadable block in a removal's scans: see the hazards without a property |
  | `format` only with `DirPaths = {}` | a format of the mounted drive leaves the current directory, an inode it has erased, where it is |

  The third part is `Trusted`; `SharingExcludedHolds` asks it of every session.
  `CurrentDirectoryExistsHolds` asks that the drive is not unmounted in any
  session or that there is no `cd` (`Stays`): while `rfss_unmount` writes the
  table of the mount over the tree, the current directory is erased with it
  (the run `rfss_umount_forgets`). The constants of `rfss_session`, `rfss_cut`
  and `rfss_umount` satisfy `Guarded`, those of `rfss_session` and `rfss_umount`
  trust every session, and `rfss_session`, which has `cd`, never unmounts: each
  run is one instance of the theorems about the properties it checks.

* `NothingLeakedHolds`, `FileTreeImplementedHolds`: nothing stays marked that
  belongs to nobody, and `Rfss` implements `FileTree`; both under `Guarded` and
  `Undisturbed`: no session unmounts or formats the drive.

  They share a strengthening of `Sound`, `Standing`: the same set `L`, and with it
  a path for each of its inodes. It has two parts more than `TreeInv(L)`.

  - `NoLeak(L)`, the converse of `Marks`. Its `Accounted` says of every inode that
    is marked that it is in `L` or is the one a creation has in hand, and of every
    data block that an inode of `L` has it or a command holds it (`Held`): the
    block of a new directory and the one its parent is to get, the blocks of the
    file being written. The inode that a removal or a truncation has freed counts
    for nothing (`Unmarked`), so that its blocks have to be free. What a step may
    leave behind is decided where a command frees a whole list: `FreeAllFrees`
    says that no block of the list is marked at the end. Each kind of action has
    its lemma (`GrowingLeaksNot`, `ClearingLeaksNot`, `OpeningLeaksNot`, ...); a
    creation that fails gives back what it took, in whichever of its writes the
    error was (`FailAccounted`).
  - `Ways(table, content, L, w)`: `w[i]` is the path that leads from the root to
    `i`: no two inodes have the same, an entry's inode has the path of its
    directory with the entry's name appended, and every inode but the root has
    an entry. `L` is then no larger than what can be reached, and `Visible` is
    the set of its nodes, each by its path (`ShownIs`): that the levels of
    `Reached` get to every one of them needs that no path is longer than there
    are inodes (`WaysAreShort`, by counting the directories on it, `StepsDown`). An entry more
    or less is then a path more or less, and all others stay (`WaysAdded`,
    `WaysStay`).

  `Fate(L, w)` says what a step may do to all this: nothing, the inode of a
  creation added to `L` with a path one name longer than its parent's, the inode
  of a removal, without entries of its own, taken out, or the file in hand
  emptied, kept or made one block longer (`Unmoved`, `Added`, `Removed`,
  `Resized`). `FateNext` has a lemma for each kind of action.

  `FileTree` also says which command may do which of these, in what order and at
  which path. For that `Standing` has `InOrder`: each call stands only at places
  of its own, a removal has looked at no block once its entry is cleared, and a
  file being written is as long as on the drive or one block longer. `Steady`
  says of a step that leaves the tree alone that it begins a command, ends it, or
  keeps what `FileTree` sees of it; a copy that opens its file opens the one it
  has added, because its path leads to that inode (`OpOK`). `AimIs` is what makes the path one and the same from step to step:
  `At` is the path `w` has for the inode in hand, or for its parent with the new
  name. `MovedAsFiles` then maps each fate to the step of `FileTree` it is.

  `Undisturbed` is needed. `rfss_unmount` writes the table of the mount over the
  tree, but saves the bitmaps of the session: whatever was created is gone from
  the tree and stays marked in the sessions after it. A format of the mounted
  drive erases the tree and leaves the bitmaps in memory as they were; it is one
  step for the whole tree, which is no step of `FileTree`, and half of it if its
  second write of the table is lost. TLC finds `NothingLeaked` violated on the
  constants of `rfss_umount` and of `rfss_cut`, after one `touch`. `rfss_session`
  has one session without either, so it is one instance of both theorems, with
  errors and all.

Every invariant that a run checks is stated by a theorem. What is only
model-checked is liveness (`TransfersEnd`, `BootEnds`, `InputArrives`): it
depends on fairness.

## 5. Abstractions, and what is not modelled

* In `Rfss` and `RfssAlloc` a block write is done, lost or stored and reported
  failed; `AtaPio` shows that it is so up to a strict first part of the block
  (eight sectors), which stays outside the filesystem's model, and up to
  `missed`.
* Names are model values. "." and ".." as path components, empty components,
  trailing slashes and names of 255 bytes or more are not arguments of the
  runs; ".." alone in `cd` is.
* At most one block is unreadable at a time; the inode table is always readable.
* `kmalloc` always succeeds in `Rfss`. It does not for long (1 MB that is never
  reused): `Shell` has the heap, for the opens of editor and scripts.
* `Shell` has one file in each of two directories and a drive that answers; what
  fails on the drive is in `Rfss`. The text that the editor draws is not kept:
  the screen is cleared when it ends. Tab is left out (its width and the echo
  of a rubbed out tab do not agree). The layouts' tables, shift and caps lock
  only choose the character. `echo` in scripts only prints.
* `AtaPio` has the first of the four drives; the others run the same code with
  other registers. `ata_list_devices` prints.
* `InputBoot` reads a mouse packet without its meaning (position, buttons).
* Inode fields other than type and blocks (sizes to the byte, links, times,
  extents) are not kept: nothing in the code decides by them except the length
  a read returns.
* In `AtaPio` a drive that takes a command is busy at once. The code waits no 400
  ns between a command and its first look at the status (`ata.c:153`, `ata.c:206`,
  `ata.c:232`), so that a slow drive's old status could be taken for an answer;
  the model cannot show that. Nothing is checked of transfers after `missed`.
* `op.position` counts write calls, not bytes: a file's data is one value.
* Reading commands (`ls`, `cat`, `df`) change nothing and have no action.

Not modelled, because nothing in this commit reaches it:

* the journal: `journal_size` is 0, and `rfss_journal_replay`, which the `mount`
  command calls, returns at once on the zero block it finds;
* processes: `schedule` runs at every timer interrupt, on a list that nothing
  ever adds to; system calls other than reboot, exit and the unknown number of
  `fork`;
* the network: `rtl8139_send` and `rtl8139_receive` are stubs, so no packet
  leaves or arrives, the ARP cache stays empty and a DNS query always runs to
  its 10000 polls;
* USB: transfers are stubs; and `pit_ticks` stays 0 (`pit_handler` is not
  hooked), so what waits for time to pass never sees it;
* `draw_background` and its picture: `src/kernel/bg.h` alone is 21,815 of the
  repository's 29,918 lines of implementation. Roughly 8,000 lines of program
  are left, of which the parts above, and the commands and helpers that only
  print, are the ones without a model.

## 6. Plan

1. Done: free space with its proofs, directory blocks, the tree; the ATA driver
   under it; input from boot to the handlers; shell, editor, scripts, console
   and heap.
2. Done: the theorems of section 4, about free space, the ATA driver, directory
   blocks, input, shell, editor, heap and screen, and the filesystem: its types,
   its format, its tree, what is marked, and what the user sees.
3. Late write errors and removals with errors in `Rfss`, each with the sentence
   of the documentation it contradicts; torn blocks, by composing `Rfss` with
   `BlockStore`.
4. The journal, the network and the scheduler as soon as something uses them.
