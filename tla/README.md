# Verification of the thesis-src access control and scheduling code

The repository extends Sancus, a processor that isolates *protected modules*
(SMs) in hardware, with two services written as protected modules themselves:

* `control_flow/`: a cooperative multithreading model: a **scheduler** SM and
  the assembly **stubs** that the compiler puts in front of every module, which
  enforce control flow integrity and "one thread per module";
* `access_control/`: the **Sancus file system** (SFS): a front-end that gives
  files access control lists per module, over a **CFS back-end** (shared memory,
  or Contiki's Coffee flash file system); and an earlier, abandoned **inode
  prototype** of such a file system.

This directory holds TLA+ models of that code, TLC configurations that check
them on small instances, and proofs for every size, checked by TLAPS. All
paths below are relative to `src/`.

| module | what it is |
|---|---|
| `Scheduler` | the scheduler SM, at the level of TCB pointers |
| `FifoSched` | what the scheduler promises: a FIFO of threads with fresh ids |
| `SchedulerProofs` | theorems about `Scheduler`: the lists; the states and ids of threads |
| `SchedulerRefinement` | the theorem that `Scheduler` implements `FifoSched` |
| `Threads` | the stubs of the modules and of the scheduler, composed with `FifoSched` |
| `MCThreads` | instances of `Threads` |
| `ThreadsProofs` | theorems about `Threads`: monothreading and control flow integrity |
| `Sfs` | the SFS front-end over any back-end |
| `FileMonitor` | what SFS promises: an access control matrix |
| `MCSfs` | instances of `Sfs` |
| `SfsProofs` | theorems about `Sfs`: pools, lists, descriptors |
| `SfsRefinement` | the theorem that `Sfs` implements `FileMonitor` |
| `CfsBackend` | what a back-end promises the front-end: named files and descriptors on them |
| `Coffee` | the flash back-end, page by page, with restarts |
| `MCCoffee` | instances of `Coffee` |
| `Shm` | the shared memory back-end with its allocator, by addresses |
| `MCShm` | instances of `Shm` |
| `ShmProofs` | theorems about `Shm`: types and links, the allocator, the refinement of `CfsBackend` |
| `Inode` | the inode file system prototype, on a RAM disk or a flash disk |
| `MCInode` | instances of `Inode` |
| `InodeProofs` | theorems about `Inode` |
| `LeastElements` | the least number principle, for searches, and what follows from it: induction up to a bound |

## Inventory

### Scheduler SM (`control_flow/sched/scheduler.c`, `.h`)

*State.* A pool of `SCHED_MAX_NB_THREADS` thread control blocks (thread id,
portal module and entry, state, `next`), three intrusive singly linked lists
over it (free list, FIFO ready queue with a tail pointer, stack of done
threads), `cur_thr`, a thread id counter, `sched_running` and a lazy
initialisation flag.
*Operations.* `initialize_scheduler`, `register_thread_portal`,
`start_scheduling`, `yield`, `get_cur_thr_id`, `dump_scheduler`, and the calls
made by the scheduler's own stubs when control arrives at its entry point:
`yield_get_next`, `busy_get_next`, `finish_get_next`, `kill_get_next`.
*Interaction.* Modules call it through its entry stub; it branches to the next
thread instead of returning, so `start_scheduling` returns to the main thread
only after the last thread.
*Hard.* One `next` field serves three lists and is not always cleared when a
TCB changes list; registering while threads run; exhaustion of the pool, whose
TCBs are never given back; calls while no thread runs.
*Correct when* no TCB is lost or in two lists, the order is FIFO, ids never
repeat, done threads stay done, `start_scheduling` returns after all threads
and only then, and nobody starves.

### Stubs of a threading-aware module (`control_flow/spm-compiler/asm_sm`)

*State.* Per module: its stack and saved stack pointer `__sm_sp` (with
`__sm_tos`, the empty stack), and `__sm_thr`, the thread it works for; the
registers r6 (call or return), r7 (return address), r8 (status) in transit.
*Operations.* Entry (integrity checks, thread check, busy answer, dispatch),
return from a call, exit for a call or a yield, the automatic yield and retry
when a callee was busy, report of a violation.
*Hard.* All threads share the one stack of a module; a thread may be suspended
in many modules at once while others run; a busy answer may come at any depth;
a thread may be killed while it is in several modules; a module's code may jump
anywhere.
*Correct when* a module only works for one thread at a time, returns reach only
the module that waits for them and only from the module it waits for, and busy
answers resolve.

### Stubs of the scheduler (`control_flow/spm-compiler/asm_sched`)

Like the above for the scheduler's own entry, plus interception of returns,
yields and violation reports, which become calls of the `*_get_next` functions
and a branch to the next thread, or the final return of `start_scheduling`.

### Stubs of unprotected code, original stubs

`asm_sm/unprotected_entry.s` lets modules call back into unprotected code: one
saved stack pointer for all threads. `asm_original` is Sancus before the change
and is not used by the build.

### Compiler support (`control_flow/spm-compiler`)

The LLVM pass, linker script and headers that generate the stubs' glue (entry
tables, symbols, sections). Build-time only.

### Example program (`control_flow/sched/main.c`, `foobar.c`, `a.c`, `br.c`)

Registers portals of the modules a, foo and bar, which call each other, yield,
and (in bar) commit the violations that the stubs must catch.

### SFS front-end (`access_control/sfs/sfs-ram.c`, `sfs.h`)

*State.* Two pools of structs (`file_pool`, `perm_pool`) with free lists; the
list of files, each with a name, an open count and an access control list of
permissions (module id, flags); `fd_cache`, which maps descriptors of the
back-end to permissions; a lazy initialisation flag.
*Operations.* `sfs_init`, `sfs_dump`, `sfs_open`, `sfs_close`, `sfs_remove`,
`sfs_getc`, `sfs_putc`, `sfs_seek`, `sfs_chmod`, `sfs_attest`.
*Interaction.* The caller is identified by the hardware
(`sancus_get_caller_id`); every call that changes files calls the back-end.
*Hard.* Permissions are cached by open descriptors while other modules change
or revoke them; structs are recycled; the back-end can refuse after the
front-end has updated its lists; the front-end's lists die at a restart while
flash files stay.
*Correct when* every access granted is one that the current permissions allow,
no struct is lost or shared, no descriptor outlives its permission, and the
descriptor tables of the two layers agree.

### Shared memory back-end and `my_malloc` (`access_control/sfs/shm`)

*State.* A list of named blocks and a table of 8 descriptors with offsets, all
allocated by a first-fit allocator with a sorted free list in one buffer of
1000 bytes.
*Operations.* `cfs_open`, `cfs_close`, `cfs_read`, `cfs_write`, `cfs_seek`,
`cfs_remove`, `cfs_format`; `my_malloc`, `my_free`, `init_free_list`.
*Hard.* Allocation failures half way through `cfs_open`; the layout of headers
and blocks (callers add one byte to their sizes to work around it); merging.
*Correct when* blocks and headers do not overlap, and no memory is lost.

### Coffee back-end and flash driver (`access_control/sfs/cfs`)

Contiki's Coffee adapted to a flash chip behind SPI: page-contiguous files with
headers that are only ever cleared bit by bit, micro logs for modified files,
garbage collection of whole sectors, and a scan of the headers as the only
index. *Hard.* A restart between two flash writes; extension and merging of
files; garbage collection with open files; the busy period of the chip.
*State.* The headers in flash; in RAM a cache of file metadata, the descriptors
with their reference counts, the start of the search for free pages and the flag
that puts collections off.
*Operations.* `cfs_open`, `cfs_close`, `cfs_read`, `cfs_write`, `cfs_seek`,
`cfs_remove`, `cfs_coffee_format`, `cfs_opendir` and its companions.
*Correct when* a file survives all of these, no page is used twice, and the
scan from header to header misses nothing.

### Inode prototype (`access_control/inode_prototype`)

*State.* On a disk, an inode table (in-use byte, size, access control list,
block numbers) and data blocks; in RAM, a bitmap of the blocks in use, and per
registered client a table of open files with the permissions they were opened
with, in structs from a small pool.
*Operations.* `f_mkfs`, `f_creat`, `f_open`, `f_close`, `f_unlink`, `f_getc`,
`f_putc`, `f_chmod`, the `f_seek` functions, `print_file`; `basic-file-sys.c`
below them; the disk driver is `ram-disk.c` or `flash-disk.c`.
*Hard.* Permissions are cached by open files; a failure value that passes every
permission check; the flash disk, on which a byte can only gain bits; a bitmap
that a restart forgets and inodes that it does not.
*Correct when* blocks are neither lost nor shared, an open file never gives more
than the access control list does now, and only owners change that list.

### Others

`sfs-dummy`/`cfs-dummy` (constant functions to measure the cost of a layer),
`sfs-benchmark`, `sfs-test`, `sfs-example` (clients), `logs`, `benchmark.h`,
`common.h`.

The hazards, each with its line and the properties that guard it, are in
`PROJECT.json`.

## The models

### Scheduler

A TCB is an index in the pool and `NULL` is 0; the lists are what the `next`
pointers say, and a TCB that leaves a list keeps its stale pointer exactly when
the code leaves it. `READY_ENQUEUE`, `READY_DEQUEUE` and `ALLOC_TCB` are the
macros of that name as functions from the scheduler's data to its data, so an
action is written as the sequence of macros of the C function. `control` is who
has the CPU: the main thread, the current thread, `start_scheduling` about to
continue (`final`), an `EXIT` loop, or nothing known (`undefined`, after a NULL
`cur_thr` was dereferenced). Each C function is one action, since there is one
CPU and no preemption; the different outcomes of a function (`start_scheduling`
with and without threads, or twice) are separate actions.

Left out: `sm_id`, which is printed only; what `dump_scheduler` prints; the
stubs around the functions (they are in `Threads`). `report_entry_violation` and
`yield` as C functions return at once when no thread runs and are intercepted
otherwise.

`FifoSched` is the abstract scheduler: a sequence of waiting threads, the
current one, the set of ended ids, a counter and a mode. `Scheduler` refines it
under the mapping `Fifo` (property `ImplementsFifo`): the queue is the sequence
of TCBs that the pointers visit. The mode "stuck" is the result of starting a
scheduler without threads, see the findings.

### Threads

The composition of the stubs with `FifoSched`, which stands for `Scheduler` by
the refinement above. `stack[s]` is the stack of module s as frames: `in` is the
return address and id of a caller, `call` what the exit stub pushes for a call,
`yield` and `retry` what is pushed to call the scheduler, `open` what a jump
without the stub leaves behind. `cpu` is the instruction pointer (module code,
entry stub of a module, entry stub of the scheduler, main) with the registers
that the stubs look at. A step is one run of a stub or one run of module code up
to its next jump to a stub. Module code is any sequence of calls along `Calls`,
yields and returns, at most `MaxWork` per thread (retries are not counted); a
module in `Faulty` may also return to a module of its choice, busy or not, call
with an index out of bounds or a bad return address, as `foobar.c` does, or return
to the scheduler with one of the `Answers` (busy or not) in r8.

`thr` and `pos` in a frame (the thread that pushed it, and which of its calls the
frame belongs to) and `chain`, the calls a thread is in, are history: no action
reads them, and the properties compare them with what the code does record.

Left out: register contents other than r6, r7 and r8 (arguments, cleared
registers); the return of `get_cur_thr_id`, which is part of the entry step that
makes the call; unprotected callbacks; violations of the scheduler's own entry.

### Sfs

A list is the sequence of structs that its pointers visit. Unlike the
scheduler, every list of SFS owns its `next` field, so nothing is lost by it; the
one place where the pointers matter (`revoke_acl` unlinks through `prev`, which
is the entry itself for the first one) is kept as the operator `Unlink`. A freed
struct is overwritten with `NoPerm` or `NoFile`, which the code does not do:
`NoDangling` shows that no descriptor refers to a freed permission, so no call
reads one. Permissions are sets of the 16 bits of an `int`, because the code
stores whatever flags it is given: `sfs_chmod` refuses only flags that are *equal*
to `SFS_CREATOR` for a new entry, `CHK_PERM` tests flags as a mask, and so does the
model.

The back-end is *any* one that keeps files apart and hands out unused
descriptors: `cfs_open` may give any free descriptor, also one beyond the
front-end's table, or refuse, with or without having created the file; writes
and removals may fail. Of content it is known whether there is any: "empty" is
about what the calls have written to a file, not about what a reader finds in
uninitialised memory (the shared memory back-end does not clear blocks). `Flags`
are the permissions that clients give with `sfs_chmod`, `Wanted` those that they
ask for with `sfs_open`.

`Reboot` clears the front-end and the descriptors and keeps the files, as flash
does; `init_data_structures` then formats the back-end, unless it was built with
`NO_CFS_FORMAT`.

`FileMonitor` is the reference monitor: a matrix of rights, the connections, and
the access last granted. `Sfs` refines it (`ImplementsMonitor`): `granted`
records what each call did on behalf of whom, so a call that reads with a stale
permission has no counterpart in the monitor. The monitor knows rights by
bits only: who has all bits of `SFS_CREATOR`, and perhaps more, is a creator to
`sfs_attest`.

### Coffee

A file or a log is an *extent*: a header in its first page and, in the others,
`DATA`, which no function is meant to read as a header; a page without either is
`ERASED`. `next_file`, `get_sector_status`, `isolate_pages`, `collect_garbage`,
`find_contiguous_pages` and `find_file` compute on headers, as the functions of
that name do. An operation is a function of the RAM and the flash that also
returns the `images`, the contents that the flash had between two of its writes.
A call ends with its result, or (`CrashInside`) the device restarts with one of
the images: RAM is lost, and what the call had left to do is not done. Every
header write is one image; a flash write is taken as finished when the next
command is sent.

Positions, bytes and log records are left out: whether a write goes to the
extent or to the log, meets the end of the file and needs an extension, or fills
the log, is a choice. Every choice exists in the code for some offset, size and
history of the log. What follows from the code, whatever the data, is kept:

* `DO_MALLOC` allocates and nothing frees, so every call that needs a buffer may
  hang (`control = "hang"`; only a restart helps);
* a look into the index table of a log reads over a pointer (`COFFEE_READ` into
  `&indices`), so what follows is `undefined`; the outcome in which the pointer
  survives is kept as well;
* a search that meets `DATA` where it expects a header ends as `misread`.

The environment is somewhat larger than the SFS front-end: files may be removed
while they are open. Formatting is one step, because the front-end formats at
its initialisation and a build that does so formats again after a restart.

`torn`, `stranded` and `slotless` are history variables: whether a call was cut
short, whether a collection has erased the tail of an obsolete extent whose header
stayed, and whether an extent was reserved for which `load_file` had no slot.
`stranded` is the finding `coffee_stranded`; from there on extents do overlap. A cut
call can leave a sector erased behind one that is not, and an extent that spanned
both without the header a scan needs. The invariants are therefore stated for
histories with neither (`Whole`), and the run ends at the first such step; the step
itself, cut short or not, is covered by `ImplementsCfs`. States with `slotless` are
explored like the others: with all slots in use `reserve` fails but leaves the header
it has written, so there may be a second file of a name, or a log without a file,
from then on. All invariants still hold there but for those two parts of
`OneFileOneLog`, and `ImplementsCfs`, which knows files by their names, ends with the
step that makes the state.

`CfsBackend` is what the front-end relies on (`cfs.h`): files with names, and
descriptors that stay on their file until they are closed, the file is removed,
or the back-end is formatted or restarted. `Coffee` refines it under the mapping
`Cfs` (property `ImplementsCfs`): the files are those a scan of the flash finds.
The action a step maps to is constrained from both sides: a step in which a file
disappears must be a removal of that file or a format.

Left out: `cfs_seek` (changes an offset only), `cfs_opendir`, `cfs_readdir` and
`cfs_closedir`, `cfs_coffee_reserve` and `cfs_coffee_configure_log` (nothing
calls them), the `GC_RELUCTANT` mode (not compiled in), the branch of `merge_log`
for a failed `cfs_read` (its descriptor was just opened).

### Shm

`shared-mem.c` and `my_malloc.c` are one module, because what can go wrong is
where the allocator puts the blocks of the back-end's lists. A pointer is an
address in the buffer, with the size that `my_malloc` left in the header above
the block, which is all `my_free` has; the free list is the sequence of its
chunks behind the static head. Every call is one action that goes through its
allocations in order, so a failure of the first, second or third one, and what
is freed then, is a matter of how full the buffer is.

A remainder ends a byte too far (finding `shm_overlap`), and when no descriptor
is left for a new file its entry is freed and stays in the list. Once two areas
share a byte or an entry is freed, headers and pointers are overwritten with
data; the properties are stated up to there (`Whole`) and the runs go no
further than the first such state. The call that leads to it is still covered:
`ImplementsCfs` (`Shm` refines `CfsBackend`) and `OpenKeepsList` are about every
call from a whole state. The areas in use carry their owners (`Areas`), so that two
structs at the same address count as two areas.

A request of no bytes is served by the static head of the list, whose size is 0, and
changes nothing (`HEAD_BLOCK`): a file of size 0, which `sfs.h:166` allows, has its
content there. Freeing that block, after a later allocation of the call has failed,
puts the head into its own list: behind the chunks before it, which are lost
(`InsertHead`), or, if the first chunk lies behind, linked to itself. `control` is
then `"circular"`, and the next search that does not end at the head runs for ever
(`"hang"`; only a restart helps).

`Places` are the positions of the free list that the loop in `my_free` accepts; it
takes the first one, and there may be none: a block that starts exactly where a free
chunk has its header fits nowhere and is not freed. Remainders overrun by a byte per
split, so with many structs in the buffer (more than twenty) `my_malloc` can give out
such a block; already after one split it can give one that starts behind the buffer,
which `my_free` refuses as well. `FreeUndoesMalloc` says so in its condition. The
order of the free list is what both functions rely on; the properties of the
allocator are about ordered lists. That it is kept is part of `BlocksReturn` for
every block that can be freed and of `OpenKeepsList` for the calls that open a new
file, which also says that an open that fails gives all its memory back (but for a
file of size 0).

Left out: bytes of files; the MSP430's rounding of odd addresses (a header at an odd
address is taken to be there); the lazy call of `init_free_list`, which the first
format or allocation makes, before anything can be seen. The front-end calls
`cfs_format` only on its first use after a restart (`sfs-ram.c:258`), which has
cleared the RAM, so there is nothing for it to free and both are one step.

### Inode

`file-sys.c` over `basic-file-sys.c` over either disk driver: `flash` is chosen
in `Init` and never changes. A number on the disk is the set of its bits, and
`put_byte` is what a later read finds: what was written on the RAM disk, what was
there *or* was written on the flash disk, which the driver reads and programs
inverted so that an erased byte is 0 and bits can only be added. The inode table
is what the code reads back, and every decision (is the inode in use, is it in
use by `'N'`, is the block number `NIL_BLOCK_NB`) is made on that.

What this shows of the flash disk, which is the one the Makefile builds, is in
the model and bounds what can be claimed: an unlinked inode has `'Y' | 'N'` as its
in-use byte (the log `simple_test-output.txt` shows `5f`), which is neither; so it
stays open, can be opened again, and can never be created again until
`f_mkfs`. `f_chmod` can only add permissions on the disk. A block number is
written over `NIL_BLOCK_NB` and is then neither; the block is never found again
nor freed. `BlocksOwned` and `AccessIsCurrent` are therefore stated for the RAM
disk, and `RightsOnlyByOwner` for both. For the latter, `caller` is history: the
module that made the last call. Rights change only by calls of modules that have all
rights to the inode when they call; that some module has them is not enough.

`get_acl` answers -1 for an inode that is not valid, which passes every
permission check; so an invalid inode can be opened, contrary to
`file-sys.h:61-63`. That nothing follows from it is what `AccessIsCurrent` and
`RightsOnlyByOwner` show.

Left out: bytes, sizes and positions, with `f_seek*`, `get_size` and
`print_file` (every block of a file can be the one at the position); the dumps;
the commands of the flash chip. `ram-disk.c` does not define `disk_erase_sector`,
which `mkfs` calls; the model takes it to clear the disk.

## Runs

| run | instance | states | what it shows |
|---|---|---|---|
| `sched_safety` | 3 TCBs, 2 modules, 1 entry | 28,862 | `TypeOK`, `PoolPartition`, `TailIsLast`, `StatesMatchPlaces`, `UniqueIds`, `DoneIsFinal`, `ImplementsFifo`, and under fairness `NoStarvation` |
| `threads_safe` | a, foo, bar where foo and bar call each other, 3 threads that start in a or foo, 2 calls or yields each | 51,622 | `TypeOK`, `WorksForOneThread`, `FinishedLeavesNothing`; under fairness `AllThreadsFinish`, `EveryThreadRuns` |
| `threads_faulty` | the calls of `foobar.c`, bar faulty, 2 threads, 4 calls, yields or jumps each | 402,017 | `WorksForOneThread`, `InnermostRuns`, `FramesMatchCalls`, `DeadThreadsStayOut` |
| `threads_busy` | the same, and bar also answers busy to the scheduler | violation | `MonothreadedAsDocumented`, see findings |
| `sfs_safety` | 2 files, 2 modules, 2 descriptors (3 in the back-end), 3 permissions | 42,066 | `TypeOK`, `PoolPartition`, `NoDangling`, `OpenCounts`, `BackendAgrees`, `CreatorHeadsAcl`, `ImplementsMonitor` |
| `sfs_one_creator` | 1 file, 2 modules | violation | `OneCreator`, see findings |
| `sfs_new_file` | the same, not formatted on boot | violation | `NewFileIsEmpty`, see findings |
| `coffee_safety` | 2 files, 3 sectors of 4 pages, files of 3 pages and logs of 2, 2 cache slots, 3 descriptors, restarts anywhere | 380,389 | `TypeOK`, `ScanFindsAll`, `ExtentsDisjoint`, `CacheAgrees`, `OneFileOneLog`, `HintsSound`, `ImplementsCfs` |
| `coffee_stranded` | the same with 3 slots and 2 descriptors, restarts between calls | violation | `QuickSkipAsDocumented`, see findings |
| `shm_safety` | 2 files of 0, 1 or 4 bytes, 2 descriptors, a buffer of 64 bytes | 161,135 | `TypeOK`, `BlocksReturn`, `FreeUndoesMalloc`, `OpenKeepsList`, `ImplementsCfs` |
| `shm_overlap` | files of 1 or 4 bytes, a buffer of 120 bytes | violation | `GivesFreeMemory`, see findings |
| `inode_safety` | 2 inodes and one number out of bounds, 2 modules, 1 client struct, 2 open files per client, lists of 2 entries, 1 data block | 423,042 | `TypeOK`, `BlocksOwned`, `AccessIsCurrent`, `RightsOnlyByOwner` |

*Bounds.* Nothing in `Scheduler` is cut off: the pool itself bounds ids and
registrations, so the runs are complete for their pool sizes. Three TCBs allow a
queue of two behind the current thread, a done thread with a stale link, and
exhaustion; a second module is needed for a yield to differ from a busy answer
and to be a step at all when repeated. Larger pools are covered by the proofs.
In `Threads`, three modules give calls of depth three, a module that two threads
want at once, at any depth, and a module that its own thread is already in.
`MaxWork` bounds a thread's calls and yields, so that module code returns. With a
faulty module it is 4: what a stale resume point leads to (`threads_busy`) takes a
thread two calls, a yield and a jump, so a run with three would say nothing of it.
In `Sfs` nothing is cut off: the pools bound everything. Three permissions for
two files and two modules make the pool run out in one call and be refilled in
the next; the second descriptor lets one module hold two connections while
another one revokes; the back-end's third one is out of the front-end's range. The
flags that clients give include the bits of `SFS_CREATOR` with one more, which pass
the comparison with it.
Clients and names are symmetric (`Symmetry`); no liveness is checked there. The
`VIEW` leaves out `granted`, the history variable of the last access, which no
action reads and no invariant mentions: states that differ in it alone have the
same successors, and the action properties, which do mention it, are evaluated on
every step that is generated, not on the states that are kept.
In `Coffee` the flash bounds everything. The sizes keep the relations of the
configured ones (17 pages a file, 256 a sector) that matter: a sector is not a
multiple of a file, so extents cross sector borders and collection has to isolate
pages; an extended file (6 pages) is longer than a sector, so an extent may cover
one; the flash holds two files with logs or one extended file and little else, so
reservation fails, collects and waits. Three descriptors on two files make merging
find none sometimes; two slots are fewer than the descriptors, as the configured six
are fewer than eight (`cfs-coffee-arch.h:62-63`), so that all slots are referenced
when a file or a log is reserved.
In `Shm` the buffer bounds everything. 64 bytes hold two small files with hardly a
descriptor each, so every allocation of a call fails in some state, also after the
earlier ones of the call have succeeded, and so does the search for a descriptor;
the sizes give chunks that fit, that leave a remainder and that leave too little for
a header, and files whose block is the head of the list.
In `Inode` the disk and the pools bound everything. Two modules compete for one
client struct, so that the list of clients is full while files are open; two
inodes compete for one data block; a list of two entries is full when the owner
has admitted the other module. Three permissions (none, read, all) tell a change
from a revocation. The ids, the block and `NIL_BLOCK_NB` differ in bits, so that
overwriting on the flash disk gives numbers that are neither. The `VIEW` leaves out
`caller`, which no action reads and no invariant mentions; `RightsOnlyByOwner`, which
does, is evaluated on every step.

*Deadlock* is checked in every run: the endless `EXIT` loop is a step (`spin`).

*Mutants.* For every property `PROJECT.json` names a mutation of a definition (a
dropped guard, a missing reset, a changed order) under which TLC finds the
property violated. The mutations stand next to the definition they change, under
a comment "Mutation".

## Fairness

`Scheduler`: weak fairness of `ThreadStep` (the current thread yields, finds its
portal busy, finishes or is killed) and of `start_scheduling_return`. Threads
are cooperative by design (`scheduler.h:13-20`): a thread that never lets go of
the CPU stops the system, and nothing in the code prevents it. Nothing is
assumed of registrations or of the main thread.

`Threads`: weak fairness of one disjunction (module code, stubs, resumption of
main): the CPU keeps executing whatever it is at. Module code ends because of
`MaxWork`. No fairness between threads is assumed: the FIFO order provides it.

## Proofs

TLAPS checks the theorems below for every value of the constants that satisfies the
assumptions of their module; TLC has checked the same formulas, and the inductive
invariants they rest on, on the instances of the runs. Every safety property that a
run of `Scheduler`, `Threads`, `Sfs` or `Inode` checks is a theorem, and so are two of
`Shm` and the refinements of `FifoSched`, of `FileMonitor` and, by `Shm`, of
`CfsBackend`. The assumptions on constants say
that sizes are positive and that markers (`RETURN`, `NULL`, `NIL_BLOCK_NB`, the ids
of the scheduler and of the main thread) are not ordinary values:
`PoolAssumption`, `EntryAssumption`, `DomainAssumption`, `BoundAssumption`,
`SizesAssumption`, `FlagsAssumption`, `NullAssumption`, `ShmAssumption`,
`InodeAssumption`. What a
theorem assumes beyond that is in its hypothesis and is explained here.

### Scheduler

`SchedulerProofs`: `TypeCorrect` (`TypeOK`), `PartitionCorrect` (`PoolPartition`),
`TailCorrect` (`TailIsLast`), from `ListsCorrect`: `Spec => []ListInv`.
`PoolPartition` is about walks along pointers and is not inductive: it does not say
*how* the lists are laid out, so a step cannot be followed through it. `ListInv` says
that there are three sequences of TCBs, without repetitions and disjoint, which the
three lists represent (each element's `next` is the following element, the last
one's is NULL, the head pointer is the first), that together with the current thread
they are the whole pool, that the tail pointer is the last element of the ready
sequence, and, for the stale links: that the current TCB's `next` is NULL when the
ready sequence is empty. The last part is what makes `READY_ENQUEUE` into an empty
queue correct although it does not clear `next`: the thread it enqueues was dequeued
when it was the last one, or was just allocated. The step lemmas are about the
macros; each action is a composition of them, as in the code. `ChainLength` (a
repetition-free sequence of TCBs is no longer than the pool, by an injection into an
interval) and `WalkChain` show that the bounded walk of the properties visits exactly
the represented sequence.

In the second part of `SchedulerProofs`, `StatesCorrect` (`StatesMatchPlaces`), `IdsCorrect` (`UniqueIds`)
and `DoneCorrect` (`DoneIsFinal`) follow from `ThreadsPlaced`: `Spec => []ThreadInv`.
`ThreadInv` adds to the three sequences what the TCBs in them hold (`Placed`): the
state of each tells which list it is in, ids are below the counter and differ from
each other, and the counter and the free TCBs add up to the pool, which is what keeps
the counter from running over. It cannot be stated of the lists' walks, because ids
and states travel with TCBs, and not with positions.

`SchedulerRefinement`: `SchedulerRefinesFifo` (`ImplementsFifo`). `View` maps the
sequence a list represents to the sequence of threads in its TCBs; the lemmas say
that enqueueing is appending to the view, dequeueing is taking its tail, and that a
TCB outside a list can change without changing its view. Each C function is then a
step of `FifoSched`, including the failures and the calls after which nothing is
known.

### Threads

`ThreadsProofs` is in four layers, each with its own inductive invariant over the
ones before. All are for any modules, call relation, number of threads and `MaxWork`;
they differ in what they assume of faulty modules.

1. `TypesCorrect`: `TypeInv`, whatever faulty modules do. Beside the types
   (`ThreadsTypeCorrect`) it says what the stubs push on what (`ShapeInv`: a `call`
   or `yield` frame is above the frame of a caller, a `retry` above a `call`), and that
   the scheduler's queue has pairwise different, live ids (`FifoInv`).
2. `Monothreading` (`WorksForOneThread`) and `DeadStayOut` (`DeadThreadsStayOut`), from
   `OwnInv`: every frame of a module was pushed by the thread it works for (`Owned`); a
   queued thread that yielded has a suspended frame where it will be resumed
   (`ReadyOwn`); the thread that executes owns the module it executes in (`OwnCpu`). The
   entry stub does not check the thread when the scheduler returns to a module, so
   monothreading rests on `ReadyOwn`, which is a fact about the scheduler's queue and
   the modules' stacks together. Hypothesis `NoFalseBusy`: no module is faulty, or
   faulty modules do not answer busy to the scheduler. Without it the theorem is
   false, see `threads_busy`.
3. `ControlFlowIntegrity` (`InnermostRuns`) and `FramesAreCalls` (`FramesMatchCalls`),
   from `FramesAndCalls`, which ties every frame to a call and every call to a frame:
   frames on a stack are ordered as the calls of the thread are, all calls but the
   innermost one wait in a `call` frame for the next module of the chain, and a return
   or a retry in transit is one for the innermost call. `InnermostRuns` alone is not
   inductive: it speaks of the module that executes, and to know that the module
   returned to is the next innermost one, one has to know all the frames below.
   Hypothesis `LeafFaults`: `NoFalseBusy`, and faulty modules call nobody through their
   stub (they jump, return and answer as they please), as `bar` in `foobar.c`. Recursive
   calls between correct modules are covered.
4. `FinishedThreadsLeave` (`FinishedLeavesNothing`), for `Faulty = {}`, from `SafeInv`: no
   return is rejected, no thread killed, and only the outermost module of a thread
   returns to the scheduler.

### Sfs

`SfsProofs`: `SfsTypeCorrect` (`TypeOK`), `PoolsCorrect` (`PoolPartition`), `CacheCorrect`
(`NoDangling`), `CountsCorrect` (`OpenCounts`), `BackendCorrect` (`BackendAgrees`),
`CreatorsCorrect` (`CreatorHeadsAcl`), all from one invariant, `SfsInvariant`. Before the
first call nothing is there (`Cleared`); afterwards the data is `Good`: the files
partition their pool and have different names (`FilesInv`), every permission is free
and cleared or in the list of the file it points to (`PermsInv`), a list has one entry
per module and starts with a creator's (`AclInv`), and every cached descriptor has a
permission, is counted, and is the back-end's on the same name (`FdsInv`). The
properties need each other: `revoke_acl` unlinks correctly only because the first
entry is a creator's, which holds only because it never removes one; closing a
revoked module's descriptors leaves the counts right only because its entry is the
only one it has. The lemmas are about the operators on the data of a call
(`CLOSE_FDS`, `revoke_acl`, `add_acl`, creation, removal, `cfs_open`): each keeps it good.

`SfsRefinement`: `SfsRefinesMonitor` (`ImplementsMonitor`). The matrix and the connections
are functions of the data of a call (`MatrixOf`, `OpenersOf`), on which each operator's
effect is a lemma: a revocation clears one cell and one module's connections to one
file, an assignment sets one cell, a creation and a removal set or clear a row. Flags are any
sets of bits: nothing is assumed of those that clients give.

### Shm

`ShmProofs` rests on `ShmIsTyped`, the inductive invariant that holds in every state,
also after areas have come to overlap. Its first half (`ShmTyped`) gives the types
without an upper bound on addresses: chunks are never empty, and every struct in use
has a block as `my_malloc` gives them, behind a header. Its second half (`Linked`):
an open descriptor is on the struct of a file in the list, and no two files have one
name. For each macro-step of `cfs_open` (allocation, insertion, first descriptor,
giving back) a lemma says what it changes, as a predicate on the lists before and
after (`SplitOff`, `GoneWhole`, `IsInsert`, `FirstPlace`, `Freed`); the actions are
compositions of them, one per allocation that may fail.

* `ShmFreeUndoesMalloc` (`FreeUndoesMalloc`). If the chunk was split, the block lies
  right before the remainder, its first place is the remainder's, and merging, which
  is tested for that neighbour first, gives a chunk that serves what the old one did.
  If it was taken whole, the chunk comes back between its old neighbours: merged with
  one of them or inserted, no size that could be served is lost (`WholeReturns`). This
  needs that places are unique up to the order of the list and is why the property is
  about ordered lists; that they *are* ordered is only model-checked, see below. It is
  about requests of some bytes; one of none changes nothing.
* `ShmBlocksReturn` (`BlocksReturn`). That no two areas overlap puts every struct and
  its header beside every free chunk's header (`StructApart`): so it has a place, its
  header goes between the headers of its neighbours, and the order stays
  (`InsertedAscends`). The bytes are counted through partial sums: `Bytesfree` is a fold
  over the list, and `BytesfreeSums` shows, with `UpTo` of `LeastElements`, that it is
  the last of a sequence of sums that starts at 0 and adds one chunk at a time. On such
  sequences changing or inserting a chunk is followed step by step (`ChangedSum`,
  `InsertedSum`). This is the one induction over data in the project; it is possible
  because the property can be written as a set of numbers.
* `ShmImplementsCfs` (`ImplementsCfs`). `IsView` relates the lists to the files and
  descriptors of `CfsBackend`. While structs do not overlap, different files have
  different structs (`WholeIsDistinct`), so the struct a descriptor points to decides
  its file; each step then keeps the view of all descriptors but the one it is about.
  The hypothesis is needed of the state before a call only (`DistinctStep`): the struct
  of a new file starts inside a free chunk, hence apart from all files that were not
  freed (`InsideIsNew`), whether or not its bytes run into others. So the theorem covers
  the calls that fail and the one with which areas come to overlap. From a state in
  which they do it is false: a struct that is given out twice makes a descriptor move
  to another file.

### Inode

`InodeProofs`: `InodeTypeCorrect` (`TypeOK`), `BlocksCorrect` (`BlocksOwned`),
`AccessCorrect` (`AccessIsCurrent`), `RightsCorrect` (`RightsOnlyByOwner`), from
`InodeInvariant`. On both disks it has the types and the sizes of the client pools; on
the RAM disk also `RamInv`: inodes that were never created are as erased, the cached
permissions of an open inode are among those that its list gives now, the blocks in
the bitmap are the blocks of the existing inodes, and no block is two inodes'.
`AccessIsCurrent` is about files that exist and is not inductive: an inode can be open
before it is created. `CachedAllowed` covers those too (their lists are empty, so they
are open without any right, and `f_creat` takes nothing away), and leaves out the
unlinked ones, for which the failure value of `get_acl` allows everything: they cannot
be created again before `f_mkfs`, which forgets all open files.

### What stays model-checked

* Liveness: `NoStarvation`, `AllThreadsFinish` and `EveryThreadRuns` need `ENABLED` and
  fairness, which this prover does not support.
* All properties of `Coffee`, among them that it implements `CfsBackend`. What its
  operations do is computed by scans of the flash from header to header, and what these
  return depends on how the extents tile it, a fact that would have to be followed by
  induction over pages through collection, isolation and every image between two writes.
* The order of the free list of `Shm`, which is the hypothesis of the two theorems on the
  allocator, and the upper bounds on addresses in its `TypeOK` (the rest of it is in
  `ShmIsTyped`). Remainders overrun by one byte per split, so chunks overlap more and more
  before their headers do, and nothing in the code bounds by how much: both are a matter
  of how many blocks fit in the buffer. That opening a file keeps the order, and what a
  failed one gives back, is checked by `OpenKeepsList`; that freeing keeps it is proved
  (`BlocksReturn`).

## Findings

* `sfs_chmod` can raise an existing entry to `SFS_CREATOR` (`sfs-ram.c:390`),
  although a file is documented to have exactly one creator and the flag not to
  be assignable (`sfs_one_creator`). For a module without an entry only flags that
  equal `SFS_CREATOR` are refused (line 397): with `0x1FF`, say, it gets all bits that
  `sfs_attest` tests (line 675) and is attested as the creator, contrary to
  `sfs.h:292-297`.
* `sfs_open` does not remove an old back-end file of the name it creates: the call is
  commented out (`sfs-ram.c:499-503`), while `sfs.h:173` promises an empty file and
  `sfs.h:185-187` the removal. With `NO_CFS_FORMAT`, as `sfs-example` is built, nothing
  else does it: after a restart the next creator of a name gets the old content
  (`sfs_new_file`). The same happens without a restart when the back-end fails to
  remove a file that the front-end has forgotten (`sfs-ram.c:587`).
* `busy_get_next` queues the current thread with the resume point in its TCB
  (`scheduler.c:336`), which is right for the thread it is documented for, one that
  was just started (`scheduler.h:179-181`). But the scheduler's stub calls it for any
  return with a busy answer (`asm_sched/sm_exit.s:83-85`), and after a yield the TCB
  names a place that the thread may have left long ago. In the run, another thread
  has entered that module since; the first thread is resumed there and uses its
  stack, so that a correct module executes for a thread it does not work for,
  contrary to `scheduler.h:10-12` (`threads_busy`). Without such an answer this
  cannot happen: theorem `Monothreading`.
* `collect_garbage` keeps a sector that has active pages and erases the next
  one, although an obsolete extent that starts in the first ends in the second
  (`cfs-coffee.c:407-420`; pages are isolated only when the sector in which the
  extent starts is erased). The header that stays makes `next_file` jump over pages
  that are then given out again, which the comment on it excludes
  (`cfs-coffee.c:436-439`): a file that only the cache still knows
  (`coffee_stranded`).
* When `my_malloc` splits a chunk it uses one byte more of it than it takes off
  the remainder (`my_malloc.c:63-69`), so the remainder ends one byte behind the
  chunk, in the header of what follows or behind the buffer, although what it
  returns is documented to be a free chunk in the buffer (`my_malloc.h:12`). The
  byte that callers add (`shared-mem.c:72`, `:151`) does not prevent it
  (`shm_overlap`).

Seen while modelling and not made runs of their own:

* `start_scheduling` without registered threads fails with `sched_running` still set
  (`scheduler.c:407`), documented as whether multiple threads run (`scheduler.c:97`);
  scheduling can never be started in that boot cycle, and the next call that needs the
  current thread dereferences NULL. In `FifoSched` this is the mode "stuck".
* `scheduler.c:68` states that the threads in the ready queue are registered or ready,
  but `busy_get_next` queues its thread in state `THR_BUSY` (lines 335-336), which the
  comment on the states (line 28) provides for. `StatesMatchPlaces` follows the code;
  with BUSY left out it fails.
* In Coffee `reserve` writes the header of a new file or log before it asks for a slot
  (`cfs-coffee.c:680-690`). When all slots are referenced, which fewer slots than
  descriptors make possible (`cfs-coffee-arch.h:62-63`), it answers NULL and the header
  stays: merging leaves a second file of the name, and creating a log leaves one that
  no file refers to and that is never removed.
* A restart of Coffee between the erasures of two sectors can leave the rest of an
  extent that spanned both without a header, which a scan takes for one: `ScanFindsAll`
  fails when it is not limited to histories without cut calls.
* When a new file of size 0 gets its block but no struct, or no descriptor,
  `shared-mem.c:155` or `:168` frees the head of the allocator's list: the head links to
  itself, or the chunks before it are lost, and the next search may never end
  (`my_malloc.c:51`, `:114`).
* On the flash disk of the inode prototype unlinking and revoking have no effect,
  contrary to `file-sys.h:83-85`, and an inode that does not exist can be opened
  (`file-sys.h:61-63`), see *Inode* above.

## Not modelled

* *Contents* of files, in every back-end; the directory functions of `Coffee`.
* *Sizes and positions in the inode prototype*: `get_size` counts every write,
  also one that overwrites; what it returns is not related to the blocks.
* *The flash driver*: its commands are the single writes and erasures of
  `Coffee`; the busy period of the chip and the SPI transfers are not modelled.
* *Stubs of unprotected code*: interesting only with callbacks made by several
  threads, which share one `__unprotected_sp`.
* *Compiler support, original stubs, dummies, logs, benchmarks*: no run-time
  state of their own.
* Sancus itself: entry points, caller ids and isolation are taken as the
  hardware provides them.

## Plan

1. `Scheduler`, `FifoSched` with the proofs of the list invariants (done).
2. `Threads` over `FifoSched` (done). To extend with unprotected callbacks and
   with the argument registers across a retry.
3. `Sfs` over `FileMonitor` (done).
4. Shared memory back-end and allocator over `CfsBackend` (done). To extend with
   the contents of blocks, to tell what a new file's first reader finds.
5. Coffee over `CfsBackend`: page reservation, header states, extension and
   merging, garbage collection, restart between any two flash writes (done). To
   extend with the contents of files and logs and the directory functions.
6. The inode prototype's inodes, blocks, rights and clients on both disks (done).
   To extend with sizes and positions.
7. Theorems: every safety property of the runs of `Scheduler`, `Threads`, `Sfs` and
   `Inode`, what `my_malloc` and `my_free` do to the free list, and the refinements of
   `FifoSched`, `FileMonitor` and, by `Shm`, of `CfsBackend` (done). Left: the safety
   properties of `Coffee` (`CacheAgrees` and `ExtentsDisjoint` before the others).
