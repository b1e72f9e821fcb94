# LI-DOS in TLA+

Models, model-checking runs and machine-checked proofs for the LI-DOS kernel,
a 16-bit real-mode system: a boot loader, one kernel segment of 64 KB with a
cooperative scheduler, a first-fit heap, a terminal layer over a few polled
drivers, a FAT16 reader, a shell, and an installer.

Paths such as `sched.c:177` are relative to `src/`. The comments of the code
are in Turkish; they are quoted as they stand.

## 1. Inventory

| part | source | state it keeps | operations |
|---|---|---|---|
| terminal | `tty_io.c` | per terminal: state, mode, driver functions, `in_buffer` with `in_buf_head`, `in_buf_tail`, `in_buf_count` | `tty_init_device`, `tty_set_mode`, `tty_input`, `tty_read`, `tty_getc`, `tty_putc`, `tty_puts`, `tty_write` |
| scheduler | `sched.c` | `tasks[16]` (state, saved context, stack), `current_task`, `next_task_index`, `task_count` | `sched_init`, `sched_create_task`, `schedule` |
| context switch | `asm.s` | the processor's registers | `context_switch` |
| start-up | `main.c`, `sys.c`, `panic.c` | how far initialisation has come | `c_main`, `sys_init`, `panic` |
| memory manager | `memory.c` | pool bounds, `free_list_head`, headers inside the pool | `mm_init`, `mm_alloc`, `mm_alloc_stack`, `mm_free` |
| file system | `fs.c` | BIOS parameter block values, FAT and root directory positions, `open_files[8]` | `fs_init`, `fs_open`, `fs_read`, `fs_seek`, `fs_close`, `fs_read_dir` |
| disk drivers | `hd.c`, `hd_asm.s`, `fdc.c` | drive number, geometry | sector reads and writes through BIOS |
| installer | `installer.c`, `inst_*.{c,s}` | FAT position in the source, what has been written to the target | `c_installer_main`, the FAT reader |
| boot loader | `boot.s`, `head.s` | sector counters, load segment | load the kernel, clear the BSS, jump |
| console | `console.c` | cursor, attribute, 80x25 cells | `console_putc`, `console_scroll`, ... |
| interrupts | `traps.c` | PIC masks, vectors | `traps_init`, `c_interrupt_handler` |
| packages | `pkg.c` | a database file and installed files | `pkg_install`, `pkg_list`, `pkg_is_installed` |
| shell | `shell.c` | line buffer, current directory | the command loop and its commands |
| clock, calendar | `rtc.c`, `mktime.c` | CMOS registers | read and set the time, convert it |
| serial, printer, speaker, keyboard | `uart.c`, `serial.c`, `rs_io.s`, `lpt.c`, `speaker.c`, `keyboard.s` | base ports | byte-wise I/O |
| formatting, strings | `vsprintf.c`, `printk.c`, `string.c` | none | pure |

How they interact. `head.s` clears the BSS and calls the C start-up, which
initialises the drivers one after the other, hands the rest of the segment to
the memory manager, sets up the scheduler, creates tasks with stacks from the
heap, and calls `schedule`. Tasks give the processor up only by calling
`schedule`. The shell reads lines from a terminal and files through the file
system, which reads sectors through a disk driver. A terminal gets characters
either from its driver, polled by the reader, or from an interrupt handler
that calls `tty_input` (`tty_io.h:93`). It echoes to the console.

What is hard in it:

* *Interleaving.* Tasks do not preempt each other, but interrupt handlers run
  between any two steps of a task. The terminal buffer is shared that way
  with no masking.
* *Control flow.* `schedule` returns on another stack than it was called on;
  whether a flow of control can be lost or started twice depends on the
  agreement of the task table, `current_task` and the saved contexts.
* *Long histories.* The free list is unordered and never merged, the ring
  wraps, the search position of the scheduler moves on with every call.
* *16-bit arithmetic* at the end of the segment and in size computations.
* *Failure and order.* The installer and the package manager write several
  things in an order that matters when one of them fails.

What makes each part correct:

| part | properties |
|---|---|
| terminal | characters come out once, in order, and only typed ones; an erase takes back the newest; a read returns where its mode says, and does return |
| scheduler | one RUNNING task; no task starves or is passed twice; a context is loaded once for each time it was saved or prepared |
| context switch | a flow goes on where it was saved; a new task starts at its function with its own stack |
| start-up | the boot flow is left behind for good |
| memory | blocks never overlap, hold what was asked, none is lost, all can be released |
| file system | reads give the bytes of the file in order; an open-file slot is freed once; a bad chain is not followed |
| installer | nothing is written before the checks, nor outside its room; the kernel is copied in order to where the boot sector says, success means that it is there, and a run that was cut short can be repeated |
| console | the cursor stays on the screen; text appears in order |
| interrupts | no interrupt meets a vector that is not written; no line stays in service |
| clock, calendar | a time that was read is near the time, on clocks of all modes; the numbering of seconds has no gap and is wide enough |
| packages | what the database lists is there, once and complete |
| shell | the command that runs is the line that was typed; files are closed; the directory fits its buffer |

`PROJECT.json` lists the parts with the state of their modelling, and the
hazards with the line where each bites.

## 2. Plan

1. **Terminal** (done): `LineQueue`, `Tty`, `TtyProofs`.
2. **Scheduler and start of the tasks** (done): `Sched`, `BootTasks`,
   `SchedProofs`, and the instructions of the switch, `Switch`.
3. **Memory** (done): `Heap`, `Mm`, `MmProofs`.
4. **File system** (done): `Files`, `Fs`, `FsProofs`.
5. **Installer** (done): `InstFat`, `Installer`, `InstallerProofs`.
6. **Console** (done) with the echo of `tty_input`: `Console`.
7. **The rest of the kernel** (done): `Shell`, `Pkg`, `Clock`, `Startup`, with
   `AscendingProofs`, `ShellPkgProofs` and `KernelProofs`, which has the
   theorems about `Console` too.

What is left is listed under "Not modelled".

Modules that are proved about have their parameters as CONSTANTS with named
assumptions, one action per operation, and no recursive operators.

## 3. Modules

| module | what it is |
|---|---|
| `LineQueue` | abstract: a bounded FIFO of characters with erase, and a reader whose call returns at a point its kind allows |
| `Tty` | `tty_io.c`: one terminal, its input side and a task inside `tty_read` or `tty_getc` |
| `MCTty` | its instance for TLC: the characters and their sources |
| `TtyProofs` | theorems about `Tty` |
| `Sched` | `sched.c`: the task table, the three statics, and which context each switch saves into and loads |
| `BootTasks` | extends `Sched` by the end of `sys_init` |
| `MCBoot` | its instance |
| `Switch` | `context_switch` of `asm.s` on registers and memory, with what `sched_create_task` prepares for it |
| `MCSwitch` | its instance: a small segment |
| `SchedProofs` | theorems about `Sched` |
| `Heap` | abstract: disjoint pieces of a pool, each with one owner |
| `Mm` | `memory.c`: the free list as a sequence of blocks, and the blocks callers hold |
| `MCMm` | its instances: small pools, and one shaped like the kernel's |
| `MmProofs` | theorems about `Mm` |
| `Files` | abstract: handles that stand for a file and a position in its content |
| `Fs` | `fs.c`: the table of open files over a FAT disk |
| `MCFs` | its instances: a disk of a few clusters |
| `FsProofs` | theorems about `Fs` |
| `InstFat` | `inst_fat_read.c`: boot parameters, FAT entries, root directory and partition table, as operators |
| `Installer` | `installer.c`: the installation on two disks, with failures, power cuts and further runs |
| `MCInstall` | its instance: small disks of which one part varies at a time |
| `InstallerProofs` | theorems about `Installer` |
| `MCCore` | one instance for `Tty`, `Sched`, `Mm` and `Installer`, which share no state |
| `Ascending` | a finite set of numbers as the sequence of its elements in order; `Shell` and `Pkg` use it |
| `AscendingProofs` | induction over numbers, and what the operator of `Ascending` gives |
| `Console` | `console.c`: a task inside `console_putc`, with echoes from interrupt handlers |
| `Shell` | `shell.c`: the command loop over a polled terminal |
| `Pkg` | `pkg.c`: the installation of packages over a file system whose calls fail |
| `Clock` | `rtc.c` and `mktime.c`: registers read while the chip counts |
| `Startup` | `main.c` and `traps.c`: the initialisation calls while devices raise interrupts |
| `MCKernel` | one instance for the last five, which share no state either |
| `ShellPkgProofs` | theorems about `Shell` and `Pkg` |
| `KernelProofs` | theorems about `Console`, `Clock` and `Startup`, and about the types of the parts of `MCKernel` |

Definitions named `Bad...` (or for the fault they have, as `LooseSplit`) are
seeded faults. `PROJECT.json` pairs each checked property with one of them:
put in the place of the definition that follows it, the property must fail.

### Tty

State: the fields of one `struct tty` (`in_buffer` with its three indices, the
canonical bit of `mode`, whether the device is initialised, and which kind of
driver is attached), and the local state of the one task that can be inside a
read: where it is (`pc`), which function, the count wanted and what it has
stored in the caller's buffer. No second task can be inside a read on any
terminal: the calls of `schedule()` in the waiting loops are commented out.

`tty_input` is one step, because a handler runs to completion and a poll is
part of the reader. The reader is cut into the evaluation of the loop
condition (`WaitOver`, `Poll`), the copy with the update of the head (`Take`),
the update of the count with the test for the line end (`Settle`), and the end
of the loop (`Return`): an interrupt can come between any two. `tty_getc`
takes its one character in the same two steps.

Left out: `TTY_MODE_ECHO` and the output functions (they change no state here;
`Console` has the echo), the checks for a bad id (one terminal, always valid), the
`tty_read` calls that return at once (`count == 0`), and a poll that finds no
data, which changes nothing.

**IrqErase.** With an interrupt-driven device an erase can come between
`Take` and `Settle`. It takes back the character whose cell the reader has
already left behind, and the decrement after it makes `in_buf_count` 65535
when that was the only one. No file of the repository contains a handler that
calls `tty_input` (the handlers `traps.c:95` and `traps.c:98` call are not
defined), so this is a hazard of the contract in `tty_io.h:93`, not a
behaviour of the present system. The instance therefore lets interrupts
deliver every kind of character but the erase, the theorems state it as the
hypothesis `NoEraseFromIrq`, and the polled device delivers that too. (`\r`
behaves as an ordinary character; only `tty_enter` has it.) A device that is
both polled and interrupt-driven is not modelled: no driver does both.

### Sched, BootTasks

State: the `state` field of each slot, the last use made of its context,
`current_task`, `next_task_index`, `task_count`. A `struct task_context` is
reduced to whether it was prepared by `sched_create_task`, or given to
`context_switch` to save into or to load from; nothing is assumed of what
`context_switch` does with it. `passedBy` is a history variable for
`NotPassedTwice`; no action reads it.

`schedule` is one step: nothing preempts it, and the interrupt handlers do not
touch the table. Its search is not unrolled: `Dispatch(k)` takes the first
eligible slot in the order of the search, `Resume` is the full turn that found
none, in which case the caller's own context is saved and loaded again. The
states BLOCKED and EXITING are declared in `sched.h:25-26` and set nowhere, so
the table has three states. Nothing sets a slot back to UNUSED.

`BootTasks` restricts `Sched` to what `sys_init` does: initialise, create the
test task if there is memory, call `schedule`, and panic if that comes back.
Here, and where `ReadyRuns` takes a dispatched task to run, a context that is
loaded goes on with what was saved in it: the intent of `context_switch`. That
its instructions do not do it is the subject of the next module; these two
properties are about the bookkeeping of `sched.c` with a switch that works.

### Switch

State: the memory of the kernel's segment in words, the registers, and how far
one call of `context_switch` has come. `Created` is what `sched_create_task`
leaves in memory: the frame pushed on the new stack and the fields of the
context, with `sp` at the stack's top (`sched.c:150`). `Save`, `Load` and
`Jump` are the instructions of `asm.s:171-304` in their order: the pushes and
the moves into `old_ctx`, each field with the last value moved to it; the new
stack pointer and the pops, in the order of the pushes; and the two pushes from
`[bx+...]` and the far return, with `bx` and `ds` as they were popped. The
caller is the boot flow, `current_task` is slot 0, and the target is its own
slot or that of a new task.

Two things are taken as meant because no processor of the family has them:
moves from memory to memory and the operand `[sp+n]`. The context is read
through one segment; a read through a segment register that has lost the
kernel's value finds any word. Flags are neither saved nor loaded and left
out. Not modelled: a second call, from the registers the first leaves; and
`context_switch_corrected` (`asm.s:343`), which nothing calls.

### Mm

State: the pool, the free list from `free_list_head` on as a sequence of
addresses and sizes, and the blocks callers hold, each with the size its
header has and the size that was wanted. The list links are the order of the
sequence. Sizes and addresses are 16 bits (`W` = 2^16): the rounding up and
the end address of the pool are computed modulo `W`. A call is one step: no
interrupt handler allocates and tasks are not preempted.

Assumed: a pool fits in the segment (`PoolAssumption`; it may end exactly at
its end), and requests are not so large that the rounding wraps
(`RequestAssumption`; `memory.c:71` would then compute a small size). Callers
release only what they hold, once. `mm_init` is called once, before any
allocation. A request that cannot be met returns NULL and changes nothing.

### Fs

State: `open_files` (the fields of `struct file_object` that are read; the
`attributes` field says no more than `state` does), and the `fs_read` in
progress with the bytes it has copied. `opened` is a history variable, the
path each slot was opened for; no action reads it. The disk is constant: the
parameter block, the root directory, the FAT. `Init` is the state after
`fs_init`; if that fails the start-up panics (`main.c:158`).

A byte is its sector and its place in the sector, so a read that takes a wrong
sector, cluster or offset yields different bytes. `fat` has the entries of the
FAT on the disk, 12-bit end marks widened as in line 80, and `fs_type` says how
wide they are. `get_fat_entry` gives the entry, with two exceptions: the value
of an error, and for a 12-bit entry that lies on two sectors (`Straddles`) any
value with the bits of its first byte, since `fs.c:69` takes the second byte
from behind the buffer (`Torn`). The sector numbers of the FAT, like those of
the data, are within the first 256. `data_sector_buffer` and
`fat_sector_buffer` are filled in the step that uses them and are not state.

`fs_open` includes the search of the root directory. An entry that has any bit
of the long-name mask is skipped (`fs.c:204` tests `&`, not equality), which
hides read-only, hidden and system files. After a search that found nothing,
the code decides by an uninitialised buffer: `OpensGarbage` is one of its
possible outcomes, that nothing is opened the other. The modes other than `"r"`
(`pkg.c` uses them) are refused at once and left out.

`fs_read` is cut into the turns of its loop, and a turn into the move to a
cluster and the copy from a sector, because both read the disk and can fail.
No other call comes in between: a task in `fs_read` is not preempted, and the
actions for other calls require `~Reading`. Calls that fail their checks
change nothing and are not actions.

Assumed (`ChainAssumption`): chains of files contain no free entry and end in
an end mark unless the size is reached before, so cyclic and short chains are
in; and files lie in the first 256 sectors. `fs.c:501` passes the sector's LBA
for an 8-bit CHS sector number (`hd.h:59`); the model keeps the `% 256`, and
only the assumption makes it harmless.

### InstFat, Installer

State: the two disks (`source`, `target`, and what the sectors of the target
have become), the statics of the installer (the geometry found last, the place
of the partition, its parameters, the position in the source's FAT) and how far
the program has come (`at`).
Each access to a disk is a step that may fail. A write that fails, or that the
power cuts short, may have reached any number of its sectors. `Restart` runs
the program again on what is there.

A sector of the target is as it was, holds the patched boot sector, or holds
what was read from a named sector of the source. That is enough to say where
every sector of the kernel came from.

`inst_get_drive_params` sets one pair of geometry variables for both drives,
and the program calls it for the target and then for the source. All later
requests to the target use the source's geometry: unless the two agree
(`source.same`) they reach any sector (`Reaches`), except that sector 0 is
itself under any geometry. So the properties about places are stated under
`source.same`, and nothing better is true.

Modelled by contract: `inst_disk.s` mixes two assembler syntaxes and does not
assemble, so its services do what `inst.h:44-51` declares. `struct min_vbpb`
is defined in `inst_fat_read.h:13-39`, packed and without the gaps its comments
name, and laid over the boot sector from its first byte: `bytes_per_sector` is
read at byte 0, the signature near byte 34. The boot parameters of a disk
(`vbpb`) are therefore what the code finds in these fields, whatever a
formatter meant, and any values are taken. `total_sectors_16`, which the code
uses, is no field of the structure. Neither does `installer.c` compile (`write_error`, `fat_sector_lba`, and macros with
the name `_0xXXXX` are undefined); the model follows the statements. A
cluster is read whole: its second sector goes into `target_sector_buffer`,
which follows the buffer of the copy (`installer.c:25-26`); with more than two
it runs over what is behind, where the model stops (`overrun`). An entry of a 12-bit FAT on the last byte of a sector is completed with
a byte behind the buffer: any value. A volume of zero sectors per cluster is a
division by zero (`fault`).

To know when reading it: a second run finds the parameters of the
installer's own template in the partition's boot sector, so it may place the
kernel elsewhere.

### Console

State: cursor, cells, the two registers of the CRT controller, the statement a
task is at and its locals. `console_putc` is cut into its statements, reads and
writes apart where they are separate statements; a row of the screen is copied
in one step. `Interrupt` is the echo of `tty_input`, one to three characters,
run to completion. `before`, `raced` and `stray` are history variables.
Numbers are 16 bits (`WORD`), also where the code decrements.

### Shell

State: the line in the terminal's buffer, `shell_cmd_buf`, the parsed command,
the path being opened, `shell_current_dir`, and how many handles are held. Keys
arrive only while the shell waits: the terminal is polled. `submitted` is the
line as it was typed and corrected, a history variable. A line of as many
characters as the buffer has room for, without its `'\n'`, leaves the shell
waiting for good (`tty_io.c:231`), which the run allows.

Whether a path opens, and as a file or a directory, is the file system's choice
(`Answers`). `shell.c:389` uses `target_dir_path`, which `shell_cmd_cat` does
not declare; the comment beside it says that the argument is meant, and the
model uses that. The check for an end of input or an error of the terminal
calls a function no file defines, and is left out.

### Pkg

State: where `pkg_install` is, the package, how much of the file has been
copied, what each file on the disk holds and who wrote it, the characters of
the database, and the open handles. Every call of the file system may fail or
fall short, and `PowerCut` may come between any two steps. `fs.c` supports
reading only; the calls that write are modelled from how `pkg.c` uses them,
and are marked external in the map. That `fs_seek` does not seek
(run `fs_seek`) would spoil every package of more than one file; the model
takes the contract of `fs.h`. Assumed of packages (`PackagesAssumption`): a
name is not empty, has no blank and no line end and belongs to one package, a
version has no line end, and no package has a file twice. `pkg.c` checks none
of that: a name with a blank would never be found again.

### Clock

State: the chip's date and time, the call that reads it and the registers read
so far. The chip ticks once during a call at most; the registers are read in
the order of `rtc.c`, without a look at the update flag. `mktime` is an
operator; its literals 60, 3600 and 86400 are `SECS`, `HOUR` and `DAY`, and
what a `time_t` counts to is `TIME_MODULUS`: `mktime.h:12` defines `uint32_t`
as `unsigned int`, which has 16 bits in a 16-bit compiler; `types.h:23` does
not. `rtc.h:32` takes a set bit for a 12-hour
clock, and so does the model.

### Startup

State: how many calls `c_main` has made, the interrupt flag, the master PIC
(offset, mask, lines requested and in service), the vectors written, and the
handler that runs. Devices raise their lines (`Raised`) at any step.
`traps.c:221` sets the interrupt flag long before `main.c:174`, the step of
`c_main` that is there to do it (`main.c:66` says they are off until then). A key pressed before the PIC is
set up is forgotten, since its first command word clears what it remembers.
`keyboard_irq_handler_c`, which the handler calls, is not defined anywhere.

## 4. Runs

| run | instance | result |
|---|---|---|
| `core` | one of four parts at a time; 53 197 states | passes |
| | `tty`: 3 cells, two ordinary characters, `\n` and `\b` polled, all but `\b` by interrupt, reads of 1 and 2 bytes | |
| | `sched`: 5 slots | |
| | `mm`: 64-byte segment, 5 pools, 3 request sizes | |
| | `install`: disks of 9 sectors, FATs of 6 entries, two runs of the program | |
| `tty_enter` | the terminal alone, with `\r`, reads of 1 byte | finds `EnterWakesReader` violated |
| `switch` | a segment of 96 words, a switch to the caller's own context and one to a new task | finds `SwitchArrives` violated |
| `boot` | 3 slots | finds `BootNeverReturns` violated |
| `mm_kernel` | the heap alone, one pool that ends where the segment ends | finds `Releasable` violated |
| `fs` | 2 handles, 4 files and directories on clusters of 4 bytes, reads of 4 and 5 bytes, seeks to the start and past the end; 437 229 states | passes |
| `fs_seek` | the same with a seek to offset 2 and one back by 1 | finds `ReadsAtOffset` violated |
| `fs_bad` | with disk errors on the FAT | finds `BadClusterNotRead` violated |
| `fs_fat12` | with a 12-bit FAT | finds `FatFollowed` violated |
| `install_place` | the installer alone | finds `KernelWhereBootLooks` violated |
| `kernel` | one of console, shell, packages, clock and start-up at a time; 940 508 states | passes |
| `kernel_hours` | the same | finds `HoursTold` violated |

**core.** `part` chooses one of four components; the others stay in a first
state of theirs, because they share none. So the state count is a sum, not a
product, and nothing is claimed of their interaction. Each part keeps the
fairness of its own specification. The run does not check for deadlock, for
reasons given with the parts. The instances of the four:

**core, terminal.** `RingConsistent` relates head, tail and count at every step
of the reader, including the one where the head has moved and the count has not.
`OnlyTyped` says a reader never gets a cell that was emptied.
`ImplementsLineQueue` is the refinement: the cells from head on are the queue,
and every concrete step is a step of `LineQueue` or none. `CopyFinishes` and
`PolledLineReturned` are the liveness of the reader. Three cells are enough
for the ring to wrap, to be full with a part of a line left over, and for a
line to be longer than a read. A reader that waits on a full ring without a
line end is stuck for good, which is what `tty_io.c:231` does.
`PolledLineReturned` is about the polled drivers that the repository has; a
handler that stores a character behind a complete line can hide it for good
(section 6).

**core, scheduler.** `OneRunning` is the agreement of the table with the three
statics. `NotPassedTwice` is the round-robin order, `ReadyRuns` its liveness.
`NoContextLost` says of each switch that what is loaded had been prepared or
saved and not loaded since, and that what is overwritten had been loaded, so
that nothing waits in it any more; it names the one exception, the context
prepared for `idle_task` (section 6). It is about which structure `schedule` uses for what,
not about what `context_switch` does with it. Five slots instead of 16 because
the state depends on the number of slots only through the ring; the theorems
hold for any number.

**core, memory.** `NoOverlap` and `NoLeak` are about all blocks, free and held,
so they fail when a split, a removal or a release is off by a byte. The pools are of
even and odd size, one starts at 0 and one is too small for a header (both
refused), one ends at the end of the segment; the requests make blocks that
are split, used whole, and used whole with a few bytes to spare. With every block of a pool at the end of
the segment lost, or the only pool refused, nothing can happen any more.

**core, installer.** `ChecksFirst` and `OnlyItsRoom` say when and where the
target changes; `KernelInOrder` that what is copied is the chain of the kernel, sector
by sector, behind a boot sector that gives its size; `SuccessMeansCopied` that
the last message is true as far as the chain goes: the size has been copied, or
the last sector copied is that of a cluster with an end mark, of which the
message is not true (section 6). `CanRunAgain`
says that a run that was cut short leaves the sectors the checks of the next
one read: the partition table untouched, and in the partition's boot sector the
old parameters or the template's, never a piece of the kernel. With
`KernelInOrder`, of any run, that is what completing an interrupted
installation takes. `ComesToAnEnd` is the liveness: a cyclic chain ends with
the size. The sources vary the successor of every cluster of the kernel (free,
cyclic, end), in a FAT12 with one sector to a cluster and in a FAT16 with two
(three overrun the buffers), the directory (hidden entries, a directory of the
kernel's name, an empty file), and the boot parameters; the targets vary the
partition table and the parameters. One restart is enough to meet the
template's parameters and a kernel half copied; it follows on the runs whose
kernel goes on in the cluster after its first, and on those that vary anything
but the FAT.

**tty_enter.** `tty_io.c:271` says that a line end, "Enter veya \n", wakes the
task that reads. The code after it is commented out, and the loop in
`tty_read` waits for `\n` only. With a polled terminal whose newest character
is `\r` the reader goes on waiting. This is not starvation: the reader is
treated fairly, and what it needs does not come.

**switch.** With no other task, says `sched.c:211`, `context_switch` gets the
same pointer twice, which amounts to a return. The pops of `asm.s:274-283` come
in the order of the pushes, so every register gets another's value; `CS` and
`IP` were taken from the cells of the pushed `es` and `ds` (`asm.s:234-235`)
and are read again through the new `bx` and `ds` (`asm.s:297-298`). The far
return does not come back. Of a new task `sched.c:110-111` says that its
context makes `context_switch` jump to the right place with a sound stack. Its
`sp` is the top of the stack, above the frame that was prepared: the pops read
what is behind the stack, and the jump goes where the registers found there
point. `SwitchArrives` is both promises, and each is broken in reachable
states. The run begins with all values of the general registers from a small
set and with memory that is zero but for what the code writes. A single state
that is not as promised refutes the comments, so a small segment is enough.

**boot.** `sys.c:72` and `sched.h:79` say that `schedule` does not come back.
By the bookkeeping it does, given a switch that works: `sched_init` marks the
idle task RUNNING although the boot flow is running, so the first switch saves
the boot flow in the idle task's slot. When that slot is next chosen, the boot
flow continues after `sys.c:72` and panics. `idle_task` never runs.

**mm_kernel.** `memory.h:36` says that what `mm_alloc` returns can be released
with `mm_free`. `main.c:106` makes the pool end at 0x10000; `memory.c:54`
keeps that in 16 bits as 0, and the guard `ptr >= mem_pool_end_addr` of
`memory.c:124` rejects every pointer. `NoLeak` has a condition for this reason.

**fs.** `ImplementsFiles` is the refinement: with two handles opened, read,
moved and closed in any order, and with disk errors at any sector, each read
hands out the bytes of its own file from where the earlier calls left off.
`PositionsAgree` relates the three fields a position consists of. `WholeRead`
says that a short count means the end of the file or a disk error, `ReadEnds`
that a read comes back, on the cyclic and the short chain too. The sizes make
reads that start and end inside a sector, cross sectors and clusters, and end
with the file, with its chain, and exactly at the end of a cluster. Seeks into
the middle of a file and errors on the FAT are left to the next runs: with
them the properties of this run do not hold. Every path is one that is there;
what a failed search does is in section 6.

**fs_seek.** The comment on `fs.c:566` says that the cluster is found again by
the next read. `fs_read` takes the first cluster instead, whatever the offset
is. `pkg_install` reads packages that way.

**fs_bad.** `fs.c:466` says that the loop is left at a bad cluster. The value
for one, 0xFFF7, which is also that for a FAT sector that could not be read,
passes the test, and the read goes on in a cluster of that number.

**fs_fat12.** `fs.c:44` says that the entry of the cluster is read from the
FAT. One on two sectors is completed with a byte from behind the buffer.
The installer's part of `core`, over the same layout, allows any value for it
too.

**install_place.** `installer.c:36` says that the value patched into the boot
sector is the kernel's sector on the target disk, and `boot.s:36` and `59-71`
use it so. `installer.c:181` gives the place counted from the partition. The
trace ends with a successful installation whose boot sector points before the
kernel.

**kernel.** `part` chooses one of five components; the others stay in their
first state, because they share none. So the state count is a sum, not a
product, and nothing is claimed of their interaction.

* *Console*: 3 by 2 cells, five calls and one echo. `OnScreen` holds with
  echoes anywhere; `OneCharacter` compares the screen after an undisturbed call
  with a terminal that knows only text and a position. Three columns with
  stops of two put a tabulator beyond the end of a row; five calls fill the
  screen, scroll it and go back over the end of a row.
* *Shell*: a buffer of six characters, so that a line can fill it; two
  arguments and names of two, so that names are cut; paths of five, so that
  `cd` meets the limit both ways. `LineIsCommand` compares what runs with the
  words of what was typed. The cut after two arguments needs a longer line and
  is not reached. Commands are typed at the start of a line only.
* *Packages*: three packages, of which two share a file and one name begins
  another; four installations. `ListedIsComplete` and `FoundOnce` are stated
  while no access to the database has failed and it fits the 255 bytes that
  are read of it: after a torn line, or beyond the window, neither is true.
  No further installation starts after a `trouble`.
  That `pkg_install` closes what it opened is proved (`PkgClosesHandles`), and
  in no run.
* *Clock*: two seconds to a minute and two minutes to an hour, all 24 hours and
  both settings of each mode, thirteen nights with the ends of months, leap
  years, 2000 and 2100. `TimeRead` and `DateRead` say exactly how wrong an
  answer may be that was read while the chip ticked. Of a 12-hour clock
  `TimeRead` is said of the hours whose conversion works (`Sound`: the morning,
  and without BCD the afternoon but noon); the others are for `kernel_hours`.
  `MktimeCounts` checks `mktime` against a count of midnights, modulo what a
  `time_t` holds (section 6 has what that is).
* *Start-up*: every mask and flag the BIOS may leave, lines 0, 1 and 6.
  Here `KnownVector` rests on no device raising lines 2 to 4: `uart.c:35`
  clears the interrupt enable register of COM1 (line 4), and nothing is on the
  slave PIC (line 2) while its lines are masked. Nothing in the kernel silences
  COM2, line 3 (section 6).

**kernel_hours.** `rtc.h:42` says that hours are 0 to 23 and `rtc.c:113-114`
that noon is 12. `rtc.c:108` clears the bit of the afternoon before line 113
looks for it, so noon is 24; and with BCD, line 97 has converted the bit into
the number before line 107 looks for it.

Neither `core` nor `kernel` checks for deadlock: a read can wait for good, a
heap can be used up, the installer halts, a power cut ends a behaviour, and the
bounds of `kernel` use up. `fs` does.

### Fairness

* `Tty`: weak fairness of the reader's own steps. A task inside `tty_read` is
  executing a loop on the processor, and a handler that interrupts it returns.
  Nothing is assumed about input: nobody has to type.
* `Switch` has none: it is one call, a step at a time.
* `Sched`: weak fairness of `schedule`. The two task functions in the
  repository's kernel proper, `idle_task` (`sched.c:28`) and `test_task`
  (`sys.c:60`), call it for ever. `shell_main` never does (its waiting is
  inside `tty_read`, where the calls are commented out), so `ReadyRuns` is a
  promise of the scheduler to tasks that yield, not a promise of the system
  with a shell in it.
* `BootTasks`: weak fairness of the only thing that runs.
* `Fs`: weak fairness of the reading loop. The task inside `fs_read` runs it;
  a disk call returns, with data or an error.
* `Installer`: weak fairness of the program's own steps, not of the key press,
  of the power or of a restart. A request to a disk returns, with data or an
  error.
* `Mm` and the parts of `MCKernel` have no fairness and no liveness property.

## 5. Proofs

All theorems are checked by TLAPS for every value of the constants that
satisfies the ASSUMEs of the module (and hypotheses stated in the theorem).

| theorem | states |
|---|---|
| `TtyProofs!RingSafe` | `NoEraseFromIrq` implies `TtySpec => [](TtyTypeOK /\ RingConsistent /\ OnlyTyped)` |
| `TtyProofs!TtyImplementsLineQueue` | under the same hypothesis, `TtySpec => ImplementsLineQueue` |
| `SchedProofs!SchedSafe` | `SchedSpec => [](SchedTypeOK /\ OneRunning)` |
| `SchedProofs!RoundRobin` | `SchedSpec => NotPassedTwice` |
| `SchedProofs!SchedLosesNoContext` | `SchedSpec => NoContextLost` |
| `MmProofs!MmSafe` | `MmSpec => [](MmTypeOK /\ NoOverlap /\ NoLeak)` |
| `MmProofs!MmImplementsHeap` | `MmSpec => ImplementsHeap` |
| `FsProofs!FsSafe` | `SeeksToTheEnds` and `FatRead` imply `Spec => [](TypeOK /\ PositionsAgree)` |
| `FsProofs!FsImplementsFiles` | under the same hypotheses, `Spec => ImplementsFiles` |
| `FsProofs!FsWholeRead` | under the same hypotheses, `Spec => WholeRead` |
| `InstallerProofs!InstallerKeepsItsRoom` | for any two disks `Medium(s, t)` that satisfy `DisksGiven`, `[](ChecksFirst /\ OnlyItsRoom /\ CanRunAgain)` |
| `InstallerProofs!InstallerTypes` | for those that satisfy `ChainsGiven` too, `[]InstallTypeOK` |
| `InstallerProofs!InstallerCopiesInOrder` | for the same disks, `[](KernelInOrder /\ SuccessMeansCopied)` |
| `ShellPkgProofs!ShellReturnsHandles` | `ShellSpec => []HandlesReturned` |
| `ShellPkgProofs!ShellTypesHold` | `ShellSpec => []ShellTypeOK` |
| `ShellPkgProofs!LineBecomesCommand` | with `OneSize`, `ShellSpec => []LineIsCommand` |
| `ShellPkgProofs!CwdAlwaysFits` | `ShellSpec => []CwdFits` |
| `ShellPkgProofs!PkgClosesHandles` | `PkgSpec => []PkgHandlesClosed` |
| `ShellPkgProofs!PkgTypesHold` | `PkgSpec => []PkgTypeOK` |
| `ShellPkgProofs!ListedPackagesWhole` | `PkgSpec => []ListedIsComplete` |
| `ShellPkgProofs!DatabaseAnswers` | `PkgSpec => []FoundOnce` |
| `KernelProofs!CursorOnScreen` | `ConsoleSpec => [](ConsoleTypeOK /\ OnScreen)` |
| `KernelProofs!CharacterLikeTerminal` | `ConsoleSpec => OneCharacter` |
| `KernelProofs!ClockTypesHold` | `ClockSpec => []ClockTypeOK` |
| `KernelProofs!MktimeNumbersSeconds` | with `SECS` and `MINS` 60 and `MorningsRight`, `ClockSpec => []MktimeCounts` |
| `KernelProofs!TimeNeverBehind` | with `SECS` and `MINS` 60, `ClockSpec => TimeRead` |
| `KernelProofs!DateNeverAhead` | `ClockSpec => DateRead` |
| `KernelProofs!StartupFree` | `StartupSpec => []LinesFree` |
| `KernelProofs!StubThere` | if lines 2 to 4 are silent, `StartupSpec => []KnownVector` |
| `KernelProofs!StartupTypesHold` | `StartupSpec => []StartupTypeOK` |
| `KernelProofs!KernelTypesHold` | `Spec => []TypeOK`, of the parts of `MCKernel` |

*Terminal.* The invariant adds to the three properties where the reader may be
and what it has stored (within the count wanted, and in canonical mode no line
end except at the end). The arithmetic of the ring is isolated in lemmas about
`Cell`, so that the modulus is opened in one place. The refinement follows the
queue as a function of head and live count: storing appends, erasing cuts off
the last, taking removes the first.

*Scheduler.* The invariant adds four facts. Before `sched_init` the table is
empty; after it slot 0 is in use. The context of a READY task waits to be
loaded (it was prepared, or saved and not loaded since); that of the running
task is the one loaded last, or the idle task's before the first switch. And
the tasks in `passedBy[i]` lie further than `i` from `next_task_index` in the
order of the search, so the search comes to `i` before it comes to any of them
again: that is `NotPassedTwice`.

*Memory.* `MmTypeOK`, `NoOverlap` and `NoLeak` together are inductive. The work
is in the three changes of the list (a block replaced by its tail, taken out,
put in front), and in the bounds that keep the 16-bit sums from wrapping. The
refinement needs `NoOverlap`: two held blocks are apart, hence have different
pointers.

*File system.* The hypotheses hold in the run `fs`: seeks go to the ends, the
FAT can be read, and no file has an entry on two sectors. Without them the
properties are false (`fs_seek`, `fs_bad`, `fs_fat12`). `EntryRead` is the step
from the second and third to the entry on the disk. The invariant adds, for each slot,
that a file in it is the entry its path names (`FileOf`), so that its chain is
one `ChainAssumption` speaks of, and for the read in progress that it never
wants more than the file still has (`CallInv`). The second is what keeps a
read from following the chain beyond the size, where the assumption promises
nothing. `FollowChainKeeps` moves from cluster k of the chain to k + 1;
`PieceOfContent` shows that a turn of the loop copies the next bytes of the
content, by the arithmetic of sectors in clusters, which stands in lemmas of
its own. The refinement takes the opening, closing and moving of a handle to
the action of that name, a turn that copies to `Fetch`, and a turn that changes
the cluster to a stutter. `FsWholeRead` adds `WantInv`: a read wants what was
asked for or all the file still has, and once it has copied something it is in
a cluster, which bounds the position by the length of the chain.

*Console.* The invariant says at which statements each coordinate is known to
be on the screen: the column after the test for the end of a row, both after
the test for the last row. A handler ends with the same two tests, so it makes
both true at any statement: `PutShows` proves that of the whole call from any
16-bit cursor.

`CharacterLikeTerminal` compares the statements with a terminal that has one
line of text and a position. `Undisturbed`, the invariant it needs (TLC agreed
to it on the bounds of `kernel` first), says of a call no handler has printed
into, at each statement, how much of the character is done: `Printing` up to
the character itself, `Fitting` through the tests and the scroll, where the
rows already moved are those of `Above`, and `Telling` through the registers.
Once the cursor is past the character, column and row together are the
terminal's position, even a column of `WIDTH` or a row of `HEIGHT`, so the
step to the next row does not move it. A handler that prints sets `raced`,
so its step needs no argument, and the next call starts afresh from wherever
it left the cursor: that this is on the screen comes from the first theorem.
The arithmetic (`CellNos`, `Coordinated`, `CellAtIsNo`, `NextStop`, `RowOf`)
stands apart. It needs the constants' assumption that the address of a cell,
two bytes wide, fits 16 bits; 80 by 25 cells take 4000.

*Installer.* `Stage` says what the program knows at each step (the source is a
volume, its kernel is the first entry that could stop the search, the partition
is that of the table, the target is usable), and `DiskInv` that any changed
sector implies all of it. The two lean on each other across a restart: the boot
record is read again, and is still the old one because it lies outside the room
of the kernel (`BootRecordKept`), since the tables in front of the kernel take
at least one sector; and the partition's boot sector holds the old parameters
or the template's. `DisksGiven` is assumed of the disks: numbers where the
layout has numbers, and a partition that does not begin at sector 0.
`ChainsGiven`, for the types and for the copy, adds that the entries of the
source's FAT are values of one. For the copy the invariant relates the position
in the chain to what has been written: the sectors of the kernel so far, in the
target, are those of the clusters gone through, and the cluster at hand is the
next one of the chain. A restart begins the count anew.

*Start-up.* The invariant relates the number of calls made to the PIC: where
its vectors point, which lines are open, which vectors are written, and that a
handler runs exactly while a line is in service.

*Induction.* `ArgsFrom` of the shell and `Summed` of the clock are recursive
functions, and the theorems of the library on induction take the formula as an
operator, which the provers cannot instantiate. `AscendingProofs` states it of
a set (0 is in it, and with n also n + 1) and proves it from the least number
that is missing, which the library's theorem on well-founded relations gives.
The claim is then the set of the numbers for which it holds.

*Shell.* The number of handles follows from the place in the code, on the
failing paths too. The types need the recursion of `ArgsFrom`: its arguments
are words of the line, as many as the command has room for, so that the
directory stays a path that fits (`CwdAlwaysFits`). `LineBecomesCommand` says
that after a read the buffer holds what was typed and corrected, and that
`ArgsFrom`, which goes from blank to word, finds the longest stretches without
a blank, in order. `OneSize` is its hypothesis, that the line buffer is as
large as the terminal's (128 in `shell.h:22` and `tty_io.h:21`): with a smaller
one, the end of a line would be the next command.

*Packages.* `PkgInv` has three parts. `PkgInstalls` goes with the steps of one
installation: the files before the one at hand are whole. `TextKept` says that
while no access has failed the database is the text of the packages installed,
line after line, followed by a part of the line being written. `InFullKept`
says, while that text fits what is read of it, that every package is in it once
and its files are whole where no other package has written them since. What is read back from the text
(a name at the start of each line) is proved of concatenations of lines.

*Clock.* `DayNumber` gives each date of the calendar a number, by sums of the
lengths of years and months, and `DayAfterDay` shows that `Tomorrow` is the
next one; the chip then counts what `mktime` adds up. `MorningsRight` says that
the days the chip begins with are numbered so (that `MktimeCounts` holds in the
initial states of the run `kernel` says it of the thirteen there). For the
reading of registers, `TimeInv` and `DateInv` say that each one read is that of
the beginning of the call or that of now, and all after the first of now are of
now. The rest is the arithmetic of one tick: which of the digits it changes.
The proof of `MonthIs` found a fault of the model that TLC had not shown: the
cases of `LastDay` for February overlapped, so that the definition did not
determine which of 28 and 29 a leap year has.

*Types of the kernel.* A step of `MCKernel` is a step of one part that leaves
the others alone, so the invariants of the parts together are inductive.

Model-checked only: the liveness properties `CopyFinishes`,
`PolledLineReturned`, `ReadyRuns`, `ReadEnds` and `ComesToAnEnd`, which rest on
fairness, out of the prover's reach; and the violations, which are
counterexamples.

## 6. Not modelled

Everything `PROJECT.json` lists as `not_modelled`, with the reason. Parts of
the repository do not build as they stand (`main.c:119` is a declaration used
as a call, `main.c:206` calls `sched_start`, which no file defines); the
models follow what the functions that are there do.

* *Boot loader.* The loading loop of `boot.s` takes its counters from memory at
  `[esi]`, tests `edi`, which it never changes, and ends at an error message
  for every size above 0. It never jumps to a kernel, so there is no behaviour
  of a loaded kernel to state a property of. Only the interrupt flag it leaves
  is used (`Startup`).
* *Serial ports, printer, speaker, keyboard, disk drivers*: a port or a BIOS
  call each, passed on with its result, without state that outlives the call.
* *Formatting, strings, segment helpers, image builder*: pure or host-side.

Disagreements between the code and its comments for which there is no run:

* `tty_io.c:149` and `151` say that `tty_read` waits until there is a line in
  the buffer. The loop of line 152 looks at the newest character only: one that
  a handler stores behind the `\n` hides the line, and the reader waits for
  another `\n`, which may find no room.
* `sched.c:79` says that the idle task runs first. `sched_init` only points
  `current_task` at it, and the first switch saves the boot flow over the
  context prepared for `idle_task`, which never starts.
* `fs.c:365` says that a search that returns 0 means "not found". What happens
  is decided by the uninitialised `found_entry_buffer` (`fs.c:347`), which can
  say that a directory was found.
* `installer.c:246` says that the kernel's image has been written. A chain with
  an early end mark gets there with fewer sectors than the kernel's size
  (`installer.c:234-235`).
* The comments of `struct min_vbpb` (`inst_fat_read.h:13-39`) give the offsets
  of a boot sector, the packed structure has others.
* `mktime.h:17-18` says that the seconds since 1970 have 32 bits; line 12 gives
  them an `unsigned int`, 16 bits on this machine.
* `traps.c:159` says that all vectors are filled with stubs. Those of the timer
  and the keyboard are; line 208 opens line 3, whose device (COM2) the kernel
  never silences, and nobody has written its vector.
* `main.c:194` takes 0 as the failure of `sched_create_task`, which is a valid
  slot and not the -1 of `sched.h:72`.
* The stack of the idle task lies in the heap's pool (`sched.c:66`,
  `main.c:106`); `uart.c:77` calls `schedule` before `sched_init` has run;
  `head.s` does not call `sys_init`; `keyboard_init_irq` would mask the timer; a
  failure of `hd_init` does not stop the start-up.
