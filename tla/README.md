# Verification of the hzOS kernel

TLA+ modules of the parts of hzOS whose correctness depends on the order in which
things happen, TLC runs that check them on small instances, and TLAPS proofs of
the theorems that matter most. Paths are those of the repository (`src/core/...`).

To repeat a check: `tlc -config MCHeap.cfg MCHeap`, likewise for the other configurations
(PROJECT.json names the module of each), and `tlapm HeapProofs.tla`, likewise
`HeapIrqProofs`, `DataProofs`, `ProcessorProofs`, `InputProofs`, `WindowManagerProofs`,
`DriverProofs`, which takes a quarter of an hour, and `AppProofs`, which takes twenty minutes.

## The system

hzOS is a 64-bit kernel for one processor (`smp_init` is commented out). `kernel_main`
sets up every part and ends in the GUI loop. From then on there are three kinds of
execution, and everything below depends on which of them may interrupt which:

* the **main thread**: the GUI loop (`wm_update`, `wm_draw`, `hlt`), interrupts on;
* **processes** that `exec` starts, interrupts on, switched by the timer interrupt;
* **handlers**: interrupt stubs and the system call stub execute `cli` and return with
  `iretq`, so a handler is never interrupted. Shell commands run *inside* the keyboard
  interrupt, so most of the kernel is called from handlers as well.

There are no locks but `printf`'s and the serial port's. The build is optimised (`-O2`)
and shared variables are not volatile, so the main thread may use a value it has read
before; the modules that cut the main thread into steps take that into account.

| component | state | operations | what makes it correct |
|---|---|---|---|
| heap `lib/memory.c` | `free_list`, headers, `placement_addr` | `kmalloc`, `kmalloc_z`, `kmalloc_a`, `kmalloc_raw_aligned`, `kfree` | nobody's memory overlaps anybody else's; no bytes lost; the list stays a list |
| processes `core/process.c`, `isr_stub.s` | `processes`, `current_process`, `next_pid`, saved frames | `process_create`, `process_execute`, `scheduler_schedule`, `exec` | each program goes on from its own frame; nobody starves |
| interrupts `core/isr.c`, `apic.c`, `timer.c`, `kernel.c` | PIC and APIC masks and in-service bits, `irq_handlers` | boot order, `irq_handler`, `lapic_eoi` | each interrupt ends once where it came from; input goes on until a handler stays |
| window manager `gui/window_manager.c` | `windows`, `next`, `magic`, `dragging_window`, event rings | create, focus, remove, drag, `wm_push_event`, `wm_handle_key`, drawing | every open window on the list, no closed one; handles valid; events in order |
| system calls `core/syscall.c` | none of their own | open a window, draw, poll events, `shell_exec` | act on live windows only |
| NVMe `drivers/nvme.c` | submission and completion rings, heads, tails, phase | `nvme_init`, identify, `nvme_read`, `nvme_write` | each call gets its own completion; rings are queues |
| AHCI `drivers/ahci.c` | port registers, command slots and tables | `ahci_init`, `ahci_identify`, `ahci_read` | a call that succeeds is its own command's; `ahci_init` returns unless a drive falls silent or a boot sector makes it divide by zero |
| xHCI `drivers/xhci.c` | command and event rings, cycle bits | controller start, enable slot, address device | each command gets its own event |
| block devices `fs/blockdev.c`, `gpt.c` | device list, partitions | register, scan of the partitions | what is reported is on the disk, and all of it |
| file system `fs/filesystem.c`, `ext2.c`, `drivers/ramdisk.c` | node tree, `current_dir`, path, the static buffer of `fs_read` | find, list, read, chdir, mkdir, mkfile, write | tree stays a tree; path text and node agree; a file is read as it is on the volume |
| input `drivers/keyboard.c`, `mouse.c`, `apps/terminal_app.c`, `shell/` | line buffers, modifiers, output sink, terminal windows | key, mouse packet, command | each key goes to one place and each command runs once |
| network `drivers/rtl8139.c`, `net/*.c` | `rx_offset`, `tx_index`, the card's ring and descriptors; no connection, no ARP cache | receive, reply, send | frames handled once and in order; no descriptor reused while in use; checksums; the echo returns what was sent |
| text `shell/terminal.c`, `core/kernel.c`, `lib/printf.c`, `apps/terminal_app.c` | sinks, cursors, character ring, `kprintf`'s lock, terminal screens | `terminal_putc`, `kprintf`, `tty_key_handler`, `term_putc` | what is printed is shown; what is shown runs; no handler waits for a lock for ever |
| calculator `apps/calculator.c` | operands, operator, display | keys and buttons | the display is the value of what was typed |
| ELF, paging `core/elf.c`, `paging.c` | none | `elf_load` (allocates raw pages) | |
| other applications, drawing, tables | pixels, widgets | | left out |

Interaction: the GUI loop and commands allocate from the heap; a key goes from the
keyboard handler to the front window or the shell, and from there to commands, the file
system and `exec`; a process reaches windows, the file system and the shell by system
calls; the timer moves the processor between processes; the file system reads NVMe, AHCI
or the ramdisk through `blockdev.c`; the network card's handler runs the protocols, which
allocate from the heap.

Hard behaviour: handlers between two steps of the main thread (heap, window list, event
rings, file reads, output); the boot order of PIC and APIC; ring wrap, timeouts and late
completions in the drivers; a network that loses and repeats; commands executed in interrupt
context. PROJECT.json lists each hazard at its line, with the properties that cover it or the
reason why none does.

## Modules

### Kernel heap

`HeapLayout` has the header size and the roundings. `Heap` has one action per call:
`Kmalloc` (also `kmalloc_z`, which differs by a memset), `KmallocA`, `KmallocRawAligned`,
`Kfree`. `blocks` is the free list in order, each header with its address, size and flag;
`raw` records the regions of `kmalloc_raw_aligned`, `ret` the last result. `Allocator` is
the abstract specification: regions in use, none overlapping, handed out and given back.
`ImplementsAllocator` maps its `regions` to the payloads in use and the raw regions.
`kfree` is given pointers of `kmalloc` that are in use; the one caller in the kernel that does
otherwise is `ahci_init` (`ahci.c:274` frees a raw buffer, for which there is no header).
`memory.h:18` says of `kmalloc_a` "Allocate page-aligned"; the model follows the code, whose
result is a block's payload, 24 bytes behind a page when a block is carved and anywhere when
one is reused.

`HeapIrq` is the same heap with next pointers and the main thread's calls cut at every
access to `free_list`, a header or `placement_addr`; a handler's call is one step. It
assumes that the compiler keeps the order of stores and allows it to reuse values read
before (`main.head`, `main.addr`). The list is the least set that has its start and is closed
under `next`; it ends where one of its headers has no successor. Nothing in the code keeps a handler out of a call, so the
heap can be corrupted; `raced` marks the step at which that happens and the model stops
there. `AllocatorUnlessRaced` and `ListSound` show that those interferences, each
described at its action, are the only ones.

### Processes

`Scheduler` models the table, `exec` in its three steps, the timer interrupt with the
frame it files and the one it resumes, and programs that make progress. A frame is whose
it is, how far that program was, and where it stopped. The interrupt flag is
`InterruptsOn`; `ContextsOwned` is what that flag protects. `Multitasking` is the abstract
specification: programs with a progress that nothing but their own execution changes.

### Interrupts

`Interrupts` models the boot calls that touch interrupts in `kernel_main`'s order, the
devices' lines, the PIC and the APICs (external, from their programming in `pic_remap`,
`lapic_init` and `ioapic_set_irq`) and `irq_handler`. Assumption: the firmware leaves
LINT0 in the mode that passes the PIC's interrupts on, as PC firmware does, and the PIC is
in the mode its initialisation words select, fully nested without automatic EOI. Two handlers may
never return (`HandlerStays`): the keyboard's, in which the commands `gui` and `shutdown` end in
a `hlt` with interrupts off, and the network card's, as either may spin for `kprintf`'s lock
(`spinlock.h:14`) while the interrupted thread holds it. The properties say what holds until then.

### Window manager

`WindowManager` models the window list under `wm_create_window`, `wm_focus_window`,
`wm_remove_window` and the clicks of `wm_update`, cut where the list is read or written,
and `SYS_GUI_WINDOW_OPEN`, which a process can call between two steps. Geometry is left out: a
click hits any window that is not minimised. `closed`, `late` and `lost` are history.
Interleaving with processes presumes that the scheduler switches at any time, which is
what it is built for; with the interrupts of the present build it switches once (see
`timer_ticks`). `window_close` does not depend on it.

### Drivers

Every device is external and does what its specification allows, at any time and in any order.

`Nvme` models the two I/O rings, `nvme_read`/`nvme_write` with their spin that ends in a
completion or a timeout, and the controller, which fetches in order and completes in any
order. `Fifo` is the abstract specification of a bounded queue, which each ring implements.
Fewer calls may time out than the rings have entries: beyond that the ring would be full of
commands that nobody waits for. `NvmeStart` is `nvme_init`: reset, two identifies, creation of
the I/O queues, registration of the block device, reading of its first sector with the sector
size that came out, which can be zero ("divide error"). A command that times out stays with
the controller, and its completion is taken for the next one's; `RegisteredOverQueues` says
what that can lead to and what not.

`Ahci` is `ahci_init` from port to port with `ahci_identify` and, through the block device, the
partition scan of `Gpt`; every sector goes through `ahci_read`: slot, PRDT, busy wait, command
issue, spin. `AhciSuccessIsOwn` relates the table that a call fills, what the controller took and
how many bytes it moved. `Gpt` is a pure step function: the scan after the next read. The
controller stops at an error and takes no more commands until the port is set up again. A drive
may fall silent for good.

The code's limits are in the model. `stop_cmd` may end in a reset of the port, after which the link is
waited for without a count (`StopCmd`, `up`). A command table has 256 bytes, room for 8 PRDT
entries, 128 sectors: a longer read writes behind it (`Overruns`), where other slots' headers and
tables may be destroyed, and where the controller may find other entries than were written. READ DMA
has an 8-bit count, `prdtl` 16 bits, a last entry 22; for a count of 0 there is no entry and 256
sectors are asked for. What a call moves is the less of what is asked for and what the
entries hold (`Moves`); if it is less than the partition table, `gpt.c` looks at what the buffer
held before (`Seen`), and a table whose size wraps in 32 bits is read short. So the
properties speak of reads of up to 128 sectors. The command list lies 24 bytes behind a page
(`kmalloc_a` aligns the header, not the payload): a controller that drops the low bits of PxCLB, as AHCI
allows, makes the driver read headers 24 bytes too early, where it finds no table (the heap's
header and the padding in front of it are taken to give a null pointer), and all
calls on that port fail (`keeps`, `Refused`). The same bits of PxFB and of the tables matter to what the
device writes only, and are left out. Entries of a partition table stand for what the two
init functions make of their boot sector: a name for exFAT, a count of clusters for FAT32, computed with a
division that can be by zero ("zero", `fat32.c:33`), which stops the machine.

`Xhci` has the command ring with its link, the event ring, and `xhci_check_ports`. The driver
takes whatever event is next for its command's; `SlotIsOwnUnlessBehind` names the two things
that put it behind (a port's change, a timeout). Changes are reported of the ports with a device at
the start and of each reset. The waits for the reset (`xhci.c:205`, `208`) have no count, so a reset that
fails leaves the driver there. Nobody looks whether the command ring has room: a command may be
overwritten, and when the driver is more than two rounds ahead (`lapped`), the cycle bits no
longer tell.

`Rtl8139` has the ring of received bytes, of which the model keeps lengths and offsets, and the
four transmit descriptors. By `PicOnceEach` its interrupt comes once at most: the handler runs once,
may spin for `kprintf`'s lock at any frame (`Stuck`), and what comes behind its last look at the
ring stays there. `Net` gives what is answered to a frame, as an operator, because
no handler keeps anything between two frames: ARP, IP, ICMP, UDP (no answer) and TCP. Bytes
are numbers below `Base`, words two of them, sums in ones' complement; what both ends add alike
(ports, flags, sequence numbers) is left out of a checksum. `Echo` puts the TCP answers against an
ordinary peer over a network that loses, repeats and reorders: segments stay in a set and are
received any number of times or never. Sequence numbers count modulo `SeqSpace`. That the echo
completes is not claimed: with one interrupt of the card at most, nothing makes it.

### Files

`Vfs` models the tree in memory (`fs_init`'s tree, nodes with name, parent and list of
children), the working directory with its text, and the commands mkdir, touch, write, cd and
files, each one step because commands run with interrupts off. A path is the sequence of what
stands between its slashes, so that `/a`, `a/`, `//a`, `.` and `..` are told apart as the code
tells them apart. A name of more than 31 characters is one value, what is kept of it another.
The file browser runs in the GUI loop: its `fs_find` is cut at every look at a child, and the
commands come in between. `FindIsNormal` compares `fs_find` with a reference definition that
works off the dots without a tree. The browser's path is measured in characters (`Chars`, from
`CharsOf` of each name): a click adds a name only if there is room for it and a slash, and adds
no slash behind a path of one character or none (`Behind`; `Joined` is what such a path and a name
make). Left out: `fs_list`, which changes nothing, and the end of the 256 characters that the
working directory's text has.

`Reading` adds the ext2 volume in the ramdisk, `fs_read` with its static buffer, cat, exec and
`ext2lsroot`, and the image viewer, which calls `fs_read` in the GUI loop: its call is cut at
every block that is copied and at every read of a node. `ReadsExt2` (checked as `ReadsVolume`) compares the readers with
what the volume holds (all block pointers, all entries); images are what mke2fs produces
(`Volume`, an assumption on `Images`): entries deleted from a directory do not occur, files lie inside
the image and are no longer than their blocks, and what ext2 takes for blocks when it reads a short
symbolic link is anything. Bytes are copied block by block, and the lookup of the path inside the
viewer is one step; the interleaving of lookups is `Vfs`'s. `read_inode` and `ext2_list_root` read a whole block over the 32 bytes of a
group descriptor on the stack (`ext2.c:67`, `202`), which C leaves undefined. Compiled with gcc and the
Makefile's flags, the descriptor is at the bottom of the frame and a buffer of 4096 bytes above it, which is
read into next: for blocks of up to 4096 bytes nothing else is hit. The model has that outcome alone.

### Text

`Console` is `terminal_putc` with its ring, its two screens (VGA or framebuffer) and a sink that
comes and goes; kernel_main's call, with interrupts on, is cut where it reads and writes, and
the run follows it up to the first race (`raced`). Of the screen only the cursor is kept: a
character is drawn and the column counted up in one step, the end of the row is dealt with in
the next (`PutWrap`), the end of the screen in another. `clear` puts the cursor back. `TerminalScreen` is a terminal window's
screen with wrapping, scrolling and escape sequences. `TextMode` is the mode after the GUI: the
sink and the keyboard hook, which kernel_main sets one after the other while handlers work, the
prompt it prints under `kprintf`'s lock, and the lock itself. The row of the prompt is kept as
the text since the last line feed; once it wraps (`wrapped`), nothing more is said of it.

### Calculator

`Calculator` has the keys of `calculator.c` over numbers of `Width` digits and words of `Word`
values, in the proportion of 14 digits to 64 bits. `meant` evaluates the keys exactly;
`CalculatorRight` names what makes the display differ from it (`odd`): an operator while another
is pending computes with the operand of an earlier `=`, a division by zero, a result without room.

### Input

`EventQueue` is the ring of events of a process's window. The keyboard's handler pushes and the
process polls in one step each; the GUI loop's `wm_push_event` is cut where it reads or writes
the ring. Its races lose events: `QueueUnlessRaced` says that the ring implements `Fifo` but for
the steps of a push that handlers' pushes came in between, `DeliveredInOrder` that no event
comes back unless the head was set back behind the tail (`overtaken`).

`Input` puts the ring into the way of a key: `keyboard_irq_handler` gives it to the window in
front (a terminal's line, a process's ring) and to its own `input_buffer`; Enter runs both lines
inside the handler. Two commands matter to that: `files`, which changes the window in front, and
`gui`, whose loop stops in `hlt` with interrupts off. `RunsTwice` is what a reader may not
expect: a command typed into a terminal runs twice. No sentence of the repository says
otherwise, so this is stated as what the code does, and not as a finding.

## Composition

Components that meet are composed where they meet: `HeapIrq` in one module, the window list with
processes in `WindowManager`, ring, windows and handler in `Input`, card and protocols in
`Rtl8139`, tree and volume in `Reading`. `Processor`, `Drivers` and `Apps` are no such
compositions: they put parts that share no state into one run. `part`, chosen in the initial
state, says whose behaviour it is, and the others' variables stay as they are; each property
is about its own part and is its module's.

## Runs

| run | shows | bounds, and why they are enough |
|---|---|---|
| `heap` | headers and payloads never overlap, no byte is lost, the heap implements `Allocator` | four blocks, three pages: room for a split, a reuse of its rest, page alignment and a raw region in one behaviour; sizes that round up, fit a rest exactly, and can be split twice |
| `heap_irq` | the same under interrupts, up to the interferences `raced` names | as above; two sizes, so that a split can meet a reuse of the same block |
| `processor` | processes: nobody runs on another one's frame, nobody starves, `Multitasking` is implemented; interrupts: EOIs balance, the PIC's lines come once each, mouse and keyboard are served until a handler stays | five slots: the table fills up, search and wrap pass processes created meanwhile; progress modulo 3 tells lost and repeated steps. Every line the kernel uses, the network card behind the mouse's PIC; no counters |
| `timer_ticks` | violated: the timer comes once only | the interrupts alone |
| `windows` | list, drag and handles stay sound; what is lost is exactly what was opened in the middle of a splice | four windows: in hand, in front, behind, and opened meanwhile; symmetric. Addresses can run out, so the system may stop |
| `window_close` | violated: a window closed by a click keeps its magic and its memory | the same |
| `input` | the ring is a queue but for the named races, events stay in order, a command runs twice | a ring of three slots that four keys lap during one push of the GUI loop; lines of two and three characters in the code's proportion; two terminals, between which the focus moves while a line is typed. Keys run out and `gui` halts the machine, so the system may stop |
| `drivers` | NVMe: both rings are queues, the driver is behind by its timeouts, the device stands over queues that exist. AHCI: success is the call's own, the scan finds what is there, `ahci_init` returns but where it waits without a count. xHCI: rings in order, slot its own unless behind. Card: frames handled and sent in order, all that come before the handler's last look, answers conform. Echo: the peer gets a prefix of its stream | see below |
| `nvme_stale` | violated: after a timeout a call returns another call's status | rings of four entries, nine calls, two timeouts |
| `nvme_memory` | violated: the submission ring has more entries than its page | 16 entries on a page for 2, of the code's proportion of 512 to 64 |
| `tcp_checksum` | violated: the pseudo header holds the peer's address reversed | the echo alone; two addresses, of which one is its own mirror to the checksum |
| `apps` | files: the tree stays a tree with unique names, `fs_find` agrees with its reference, the browser's walk finds what was or is there a click goes where it points, and the browser's path stays in its field. read, volume: what is read is on the volume, and the viewer sees one file unless raced. screen, console, text: what was printed is shown. keys: the display is right | see below |

A run that is expected to be violated refutes a sentence of the repository, quoted in
PROJECT.json under "findings". Everything else passes. The runs of drivers and applications
stop when their bounds are used up, and so do not check deadlock.

Bounds of `drivers`. NVMe: four entries, eight calls, so that both rings are gone round and the
phase flips twice, two timeouts. AHCI: three ports, a table of 18 sectors, which takes two PRDT
entries, a drive that is not looked at, and a table of 129 sectors, one more than a command
table has room for; two slots of the 32, so that timeouts use all of them; sizes wrap at 131072
bytes. xHCI: four devices on five ports, a command ring of one command and a link, so that the
driver can be two rounds ahead and more, three events; two timeouts. Card: four frames of three
lengths in a ring of 256 bytes, which wraps inside a frame; two pings on top of the
answers, so that the four descriptors are overrun. Echo: three bytes in segments of one
or two, sequence numbers modulo eight that wrap in the stream.

Bounds of `apps`. Tree: the default tree and two more nodes: a directory in a directory, two
nodes of one cut name, a name used again; ten paths with dots in every place; room for nine
characters in the browser's path, where some clicks fit and others do not; one node fewer
for the viewer (`ReadNodes`). Volume: files with two direct blocks and one behind them, a
hole, links, a directory of two blocks, an image that is none. Screens of two by two, six
characters printed; rings of three; a text row of six columns and a line of three characters.
Calculator: eight keys, two digits, four columns. Each is the least at which wrapping,
scrolling, a full ring or an overflow happen and are followed by something else.

### Fairness

`Interrupts`: weak for the boot code and for a handler, which runs to its end unless it stays, as
the keyboard's and the network card's may; weak for the timer chip; strong for the processor taking an interrupt of the timer, the keyboard or the mouse,
which it can do each time interrupts are on between two handlers. `InputServed` says of the
keyboard, whose vector is lower, only that it is served if the mouse pauses now and then.
`AhciInitEnds`: weak for the driver, which runs in kernel_main, and for the controller and the
links, which go on, well or badly, unless a drive has fallen silent (`FallSilent`, at any
time something is asked of it); never for a timeout. So it says where `ahci_init` may wait for ever
(`HeldUp`): for a silent drive's link, for the identification of one, and in the exception of
`fat32.c:33`; nothing else holds it up. `ReceivedInTheEnd`: weak for the card's handler once
it has been entered, which no fairness says it is; it may spin for `kprintf`'s lock instead. Everything else is safety.

### Mutants

Every property of a passing run has a mutant: a changed definition, the way a mistake in the
code would change it, under which the run finds the property violated. Mutants stand next to
what they mutate and say what the mistake is.

## Findings

| run | the code | where |
|---|---|---|
| `timer_ticks` | no end of interrupt ever reaches the PIC, through which the timer comes | `src/core/isr.c:129` |
| `window_close` | the head branch of `wm_remove_window` returns before the handle is invalidated and the memory freed, and a clicked window is always at the head | `src/gui/window_manager.c:116` |
| `nvme_stale` | a timeout leaves its completion to the next call | `src/drivers/nvme.c:311` |
| `nvme_memory` | the ring of 512 entries is one page | `src/drivers/nvme.c:302` |
| `tcp_checksum` | `htonl` of an address that is in network order already | `src/net/tcp.c:84` |

## Proofs

`HeapProofs` (any base address, any sizes, lists of any length). `HeapSound` says that
extents lie between `Base` and `placement_addr` and are pairwise apart; it is inductive
together with `TypeOK` and `Base <= placement_addr`, which an empty heap would not imply
(`IInv`). The steps rest on what `InsertAt` returns (`InsertAtElements`), on the rest of a split
block lying inside the block (`SplitElements`, `WithinKeepsSound`), and on what is carved
lying beyond everything. Proved: `TypeCorrect`, `Soundness`, `Returns` (kmalloc's result is
in use and as large as was asked), `Headers`, and `Refinement` to `Allocator`. `NoLostBytes`
is inductive beside `IInv`: behind a header that stays, its end is again where a header begins
(`Continued`), and this is shown for the block split, the block reused and what is carved with
or without a gap for alignment. Proved: `NoneLost`.

`HeapIrqProofs` (any base address, sizes, number of blocks, any handler's call at any of the main
thread's steps). `ListSound` is inductive only together with what the main thread knows at each of
its steps while `raced` is false (`InHand`): the block it has found is still free and large
enough, the new header it writes inside that block is in nobody's hands, the address it carves
at is below `placement_addr`, and the head it has written as successor is the list's. While a
block is split, the found block's size still covers the new one, so the blocks are apart without
the new one (`Sized`); while one is carved, everything lies below the address carved at (`Limit`).
Since the list is a least closed set, what becomes of it when a header changes, is put in front or
behind another (`SameList`, `Pushed`, `InsertedAfter`) needs no induction. That each caller has a
block of its own (`OneOwner`) makes `kfree` the abstract allocator's, and that what a step hands
out is apart from every region in use (`BlockFresh`, `TopFresh`) makes the rest `Alloc`. Proved:
`ListIsSound`, `OneAllocator`.

`ProcessorProofs`. Processes (any table size): `ContextsOwned` becomes inductive with: the current
process is runnable, `exec` builds a slot that is READY and not current, frames lie outside
`exec`, and slots never started have none. The bound on waiting follows from `WaitRoom`: what
a process has waited plus its distance in the ring never exceeds the table size. Proved:
`TypeCorrect`, `Ownership`, `Numbering`, `NoStarvation`, and `Refinement` to `Multitasking`.

Interrupts (any line of the network card from 3 to 15 that is not the mouse's): balanced
ends at the local APIC and one interrupt for each line of the PIC are inductive together,
with `QuietBoot`: until the processor runs with interrupts on, nothing came through the PIC.
Without it `pic_remap`, which forgets what is in service, would let a line come again. Proved,
of `Processor`'s behaviours, each of which is one of both parts (`PartsBehave`):
`IrqTypeCorrect`, `EoiOncePerInterrupt`, `PicBlocksForEver`.

`InputProofs` (any terminals, ring and line lengths, a terminal's line not being the longer
one). `QueueInv` says what a push of the GUI loop that no handler came into still knows: its
head is the ring's and the ring is not full. Then every step is a put (`PutIs`), a get
(`GetIs`), or writes behind the end of the queue (`BehindIs`). What a push that handlers came into
does to the order follows from `OrderInv`: what waits is sorted by the events' numbers (`Sorted`),
and the GUI loop's event belongs exactly between what waited when it began and what handlers
have pushed since, whose first has taken its slot (`Between`). So writing the slot replaces an
event by an older one that is still younger than all in front, setting the head back forgets
events and repeats none, up to an overtaking; and halves differ only in the slot of a push that
nothing came into (`Whole`). `RunsTwice` follows from the two lines being equal while one
terminal has got all of both (`LinesAgree`). Proved: `TypeCorrect`, `RingIsQueue`, `InOrder`,
`CommandsTwice`.

`DataProofs` has no theorem of the system's. It is what the proofs share about data of any size:
the algebra of a ring, how full it is (`Fill`), which slot is the k-th from the tail (`Nth`),
what a step of head or tail does to both (`FillHead`, `FillTail`), the queue in it (`PutIs`,
`GetIs`, `BehindIs`, `StoredIs`), and the arithmetic modulo the size (`ModOnce`, `WholeRounds`);
the ends and parts of sequences (`FrontIs`, `EndsAppend`, `FlatIs`); and digits and quotients
(`ValuesAre`, `DivTen`). It also states induction as a property of sets of numbers (`Least`, `UpTo`):
the library's theorems take an operator, which the provers cannot instantiate, but a set they can.

`DriverProofs` has the drivers, each a part of `Drivers`.

NVMe (rings of any size, any number of calls, fewer time-outs than entries). The driver knows the completion ring by phase bits alone. `PhasesTell` says what they are before and
behind the controller's tail and `PhasesAgree` in which of two rounds the driver is; from both
and `Fill` follows that it takes exactly what was posted. `AllCounted` adds up commands not
fetched, under way and completions not taken to the time-outs and the present call, so that
neither ring ever fills, which the driver does not check. Proved: `NvmeRingsInStep`,
`NvmeQueuesAreFifo`. For the start, `NvmeRegistered`: of its four commands the driver can go on
after one time-out only, the namespace's identify; from then on it takes each completion for
the next command's, and of the three it takes at least two are the queues' (`OneBehind`).

For AHCI (any disks, ports and number of slots) there are two invariants. `InitIn`: what a scan
has found is what the entries before the present one stand for (`FoundUpTo`), all of it unless a
read failed. `CommandsIn`: a port's commands are what was issued, the drive is busy with one of
them (`PortIs`), a port whose turn has not come has none (`NotYet`), and only the present call's
own slot holds a command with its number (`OnlyHere`); so what the drive still does for a
call that gave up never counts for a later one. Up to 128 sectors the count fits READ DMA's 8 bits and
the entries hold exactly what is asked for (`PrdtBytes`, for a PRDT of any length), so what has left
CI has moved what the call asked for; of longer reads nothing is proved about what they move, and once
one has overrun its table, nothing about the port's other tables. Proved:
`AhciVolumesFound`, `AhciOwnSuccess`.

`WindowManagerProofs` (any set of windows). `From` is the least set that is closed under `next`,
so that the lemmas about lists (`Acyclic`, `OneBefore`, `Unlink`) need no induction: one names a
set that is closed. `Hands` is what the main thread may rely on between two accesses although
processes put windows in front: the window it has read as head is still on the list, live and
with its handle (`Known`), and what it unlinks is behind it. Proved: `PointersStayLive`,
`OnlyRacesLose`.

xHCI, for rings of any size: the command ring's cycle bits are this round's before the driver's index and the last round's behind
it (`CmdHeld`), the event ring's likewise, and the controller's place and cycle follow from how
many commands it has carried out (`CmdPlaces`). The driver never looks whether the command ring
has room. A command of the next round that overwrites one not carried out has the other cycle,
so the controller waits; only when the driver is more than two rounds ahead (`lapped`) a later
command can be taken for the next. Up to there the order is proved, for any number of ports
and time-outs: the code's ring has 63 commands and a link, and a controller up to 255 ports. Proved: `XhciInStep`.

RTL8139: `SentInOrder` needs no hypothesis. Frames sent are those on the wire, those waiting in
descriptors and those overrun (`TxInv`); as long as none was overrun the waiting ones lie
in order from the card's descriptor up to the driver's. `ReceivedInOrder` holds for rings whose
length is a multiple of four that divides 65536 (`RtSizes`, the code's are 8192), because the read
pointer counts in 16 bits from 16 bytes before and frames begin at multiples of four. The
invariant (`Held`) gives the place of each frame that is stored and not handled, counted from
the driver's offset, the next of which is where the last one ends, around the ring's end.
Proved: `CardSendsInOrder`, `CardReceivesInOrder`.

Net and Echo (bytes of two values or more, any frames that are as long as their headers say, any
stream, segments and wrap): `ip_checksum`'s folded sum is the plain sum but for whole rounds of
0xffff (`SumsAgree`), so every checksum is right (`ChecksumIsRight`), and the one over an address
the wrong way round is right only when the address is balanced (`OnlyBalanced`). Both sums are recursive
functions, and the induction is over a set of numbers (`UpTo`). An answer follows from the frame alone
(`AnIn`), and that its bytes are those that came from the receive buffer (`RxIn`, `RtSizes`).
That the peer gets a prefix of its stream needs `EchoInv`: while it has one segment under way, the numbers of
each segment on the network say which bytes of the stream it holds, so one that comes late or
twice is told apart. This holds as long as numbers do not come round: the hypothesis is that the
stream is shorter than the sequence space. Proved: `AnswersAsAsked`, `EchoReturnsPrefix`.

`AppProofs` has the parts of `Apps`; their inductive invariants are written down in
`AppInvariants`. Files (any names and paths, any bound on the nodes from six, which `fs_init`
makes): `TreeIs` gives the tree by children and parents, each the other's, parents older than their
children and names of siblings different. `FilesInv` is inductive because a command at most adds
one node behind all others, and `Grown` says what that does to every walk. What walks a path or
goes up the tree is a function on numbers, and induction is over a set of them (`UpTo`). The
browser's walk (`WalkInv`): it is where the segments behind it lead in the tree as it is by now
(`At`), what was there when it began still is, and the children it has passed have another name
(`Passed`). Paths (`CwdInv`): the working directory and all above it have names that can be entered
(`Reachable`), which `mkdir` does not ensure for others, and its text leads to it; that `fs_find`
agrees with working off the dots first comes from one step of both (`EnterWorks`), since each step
up undoes one step down. Proved: `TreeIsSound`, `WalkIsRight`, `ClickIsRight`, `PathsAreRight`.

The boot console (screens and rings of any size): until the first race, the head main has read is
the ring's and there is room, and the cursor is on the screen, or in the row behind it while main
is to scroll, or behind its last column while main is to wrap (`ConsoleOwn`); the queue in the ring is that of `DataProofs`. Proved:
`ConsoleIsRight`. Text mode (any width of screen and room of the line): what a handler has still to
do is one of few sequences (`HandlerIs`), and with it goes whether the sink is the text mode's
(`SinkIs`), whose the lock is (`LockIs`), and whether the row already ends with the prompt and
the line (`LineIs`). Proved: `TextModeIsRight`.

The terminal window (any size, any text printed): what the screen should be is defined on the whole text
printed, so the definitions are restated for any text, and one more character leaves the
sequences, the visible characters, their places and their colours as they were
(`VisibleMore`, `PlaceMore`, `AskedBefore`). Places grow (`PlacesGrow`), so that no cell is drawn
twice, and scrolling takes away exactly the row nobody sees. `escape_buf` keeps only
so many characters; what it keeps asks for the colour the whole sequence asks for (`KeptServes`),
because a sequence that asks for one fits. The invariant is `TerminalIs`. Proved: `ScreenIsRight`.

The image viewer (any tree, any image, blocks and files of any size): what its call knows at each
point (`ViewerOk`) is where the lookup has led (`Opening`), which blocks are behind it
(`Copying`), that the volume has not got the file and what the node is like (`Finding`), and that
what is being decoded is among what `fs_read` returned at some moment (`Decoding`); and unless it was raced, that the buffer holds
the file's first bytes (`Holding`). It needs that the blocks of a file are copied in order and none
left out (`CopiedIs`, `LoadedIs`), that a block fits behind those before it (`NextBlock`), that
nothing is found on the volume but its own inodes (`InodeFound`), and that a command neither
moves a file nor changes another's content (`NodeStays`, `ContentStays`). Proved: `ViewerIsRight`.

The volume (any image, any path): two recursions over one path, `FindInode`'s over the segments and
`RealInode`'s, which skips empty ones, are first given as functions that exist (`InodesAre`,
`RealsAre`); at each segment the first has found what the second has, or nothing (`PathIsReal`),
because the first block's entries are the directory's and names stand for one inode (`EntryIsReal`). The
bytes of a file are those of its blocks, place by place (`PlaceOf`, `RealBytesAre`), and those read
are the first of them, all blocks that are wanted being readable (`AllCopied`, `LoadedPrefix`). The invariant is
that what was listed is found (`VolumeInv`). Proved: `VolumeIsRead`.

The calculator (numbers of any width, any keys): until a key is odd, the display stands for the
number that is meant, has its sign and is no longer than `Width` digits, and the pending operator
and left operand are those meant (`CalcOk`); nothing is known afterwards, until `C` (`OddStays`). It
rests on what digits mean from left to right (`ValuesAre`, `BelowTen`), on division by ten cutting
one digit off (`DivTen`), so that the text of a number parses to it (`NumberShown`), and on numbers
of `Width` digits being their own remainder in a word (`WrappedIs`). Proved: `CalculatorIsRight`.

The assumptions are those the modules name on their constants, and the hypotheses named above,
which stand in the theorems.

Only model-checked: liveness (`InputServed`, `AhciInitEnds`, `ReceivedInTheEnd`),
which is out of the prover's reach, and the length of the browser's path (`BrowserFits`), which
is a sum over a sequence.

## Not modelled, and why

Exceptions stop the machine. `process_load_and_execute`, `hzsh_config_load` and `alias_resolve`
have no caller, `wm_launch_app`'s use is commented out, `paging_map` is a stub, `sys_exit` only
prints. `smp_init` and `hda_init` are commented out in kernel_main. PCI, ACPI, HPET, GDT, RTC and
VESA set-up is parsing at boot. Drawing and fonts are computation on pixels; the clip context
shared by GUI loop and system calls is listed as a hazard, but what is drawn wrongly is
painted over in the next frame. `upng.c` is third-party code and `limine.h` a vendored header.
Scan codes, mouse packets and the serial port are conversions without a state that others see.
Notepad, usage monitor and about only draw. `ahci_init` gives `kfree` a pointer of
`kmalloc_raw_aligned`; the heap's model takes pointers of `kmalloc` only. `xhci_controller_init` waits
without a count for the controller to stop, reset and start (`xhci.c:71`, `74`, `121`): with a controller
that does not, the boot ends there.

Left out inside a modelled part: window geometry, the content of packets that no property is
about, the end of the memory (the allocator does not know it, and packet buffers are never
freed), the 256 characters of the working directory's text, what is drawn on the boot console, blocks of an
ext2 volume larger than 4096 bytes.

## Plan

The system's own logic is modelled as far as is listed above. Every safety
property that the passing runs check, `BrowserFits` aside, is proved for every value of the constants;
liveness stays with TLC, and what is not modelled is named above.
