# A verification project for OS2024

OS2024 holds the lab programs of an operating-systems course: a coroutine
library (`libco`), a process-tree printer (`pstree`), a kernel that draws a
picture (`kernel`), and the Abstract Machine they run on (`abstract-machine`),
which is partly given code. This directory models the parts with behaviour that
tests hardly reach, checks the models with TLC and proves the central theorems
with TLAPS.

## 1. Inventory

| Part | State | Operations | Interacts with |
|---|---|---|---|
| `libco/co.c` | `current`, `co_stack[64]`, `co_stack_count`; per `struct co`: `status`, `context`, `stack` | `co_init`, `co_start`, `co_yield` (`next_co`, `swapcontext`), `co_wait` (`refresh_co_stack`), the end of a function (`wrapper_func`, `uc_link`) | its clients, through C stacks; the heap; `rand()` |
| `libco/tests` | test 1: a counter; test 2: `g_running`, `g_count`, a queue (list and `sz`) | workers; producers, consumers; `main` starts and waits | `libco` |
| `libco/old`, `libco/test1` | | a draft; copies of the tests | |
| `pstree/pstree.c` | the array of (pid, ppid), the tree of `psNode`s | scan `/proc`, sort, build, print, delete | the processes that come and go meanwhile |
| AM native | `__am_has_ioe`, `ioe_init_done`, the sync pipe; the ring `key_queue` with `key_f`, `key_r` and its mutex; the audio pipe and `count`; per space the list of `PageMap`s, per processor `vm_head` | `mpe_init`, `ioe_init`, the lazy `__am_ioe_init`; `event_thread`, `__am_input_keybrd`; `__am_audio_ctrl`, `__am_audio_play`, SDL's callback; `map`, `__am_switch`; `halt` | forked processes, SDL threads, Linux mappings, interrupts |
| AM qemu | the boot record with its jump and `is_ap`, `ap_ready`, the boot stack; page tables, `%cr3`, the translations of each processor; the ports of the CMOS; the frame buffer | `mpe_init`, the path of a processor that was reset, `__am_stop_the_world`; `protect`, `map`, `unprotect`, `__am_irq_handle`; `timer_rtc`; `gpu_fbdraw` | processors, interprocessor interrupts, devices |
| AM nemu | | stubs that panic | |
| `klib` | `next` (of `rand`) | `rand`, `atoi`, `abs`; the rest panics | |
| `kernel/kernel.c` | screen size | draw, then print keys | AM devices |

What is hard here:

* **libco.** The library keeps one idea of who is running (`current`), the
  machine another. They differ as soon as a coroutine's function returns,
  because `uc_link` resumes another context and nobody assigns `current`. From
  then on a `co_yield` saves registers into somebody else's block, a block is
  freed and then used as `current`, and a context can be restored on a stack
  that has moved on. Whether this shows depends on `rand()` and on the order in
  which coroutines end. It is correct if the processor never resumes a context
  that no longer fits its stack, if `co_wait` returns only after the end of its
  coroutine, if `co_stack` lists exactly the live coroutines, and if everyone who
  is started is picked, ends and is joined.
* **test 2.** Consumers stop on a flag that `main` clears; the queue keeps its
  size in two ways. Correct if all items are printed, once, in order, and the
  test ends.
* **pstree.** Processes vanish, are born and get new parents between
  `readdir`, the first `fopen` of a stat file and the second one; the insertion
  into a list of siblings may cut it.
* **AM native.** Processors are forked before or after the devices are
  initialised, and four places may initialise them. It is correct if they are
  there when a processor enters the program, once. The ring of keys has no test for
  full, its mutex is recursive and may be replaced while it is held or about to be
  taken; correct if the ring is a queue. `count` is updated by two threads without a lock; correct
  if what is played is what was written, all of it. An address space is a
  linked list of marked pages that several processors walk; correct if a user program
  sees the pages of its space and no others, and if the walk ends.
* **AM qemu.** One boot record, one boot stack, one pair of ports for all
  processors, while some start and others halt: correct if the stack has one user
  and everyone gets where he should. Page tables come from pages with old contents
  and go back to the program; correct if no page is lost or in two places, and the
  walk finds what was mapped. A clock ticks while its registers are read one by one.
  A rectangle may reach beyond the screen on any side, and the code looks at two of
  them; correct if nothing but what those missing tests allow is spoiled.

The hazards, each with its line and the properties that would catch it, are in
`PROJECT.json`. Some of them have no property: the code does what is feared
there, the model does it too, records it in a history variable and makes no
promise afterwards (see "Where the models stop promising").

## 2. Modules

| Module | Models | Extends |
|---|---|---|
| `Libco` | `co.c` as operations on its globals, the heap blocks and the C stacks | |
| `CoFree` | any client: every coroutine calls anything, each one is waited for once | `Libco` |
| `CoBatch` | the client of test 1 and `test1.c`, in rounds | `Libco` |
| `Coroutines` | the abstract start / end / join protocol of `co.h` | |
| `CoQueue` | test 2 with the queue of `co-test.h` | `Libco` |
| `Libco_proof` | theorems about `co.c` under any client | `CoFree`, `TLAPS` |
| `CoBatch_proof` | theorems about `CoBatch` | `CoBatch`, `Libco_proof` |
| `CoQueue_proof` | theorems about `CoQueue` | `CoQueue`, `Libco_proof`, an instance of `CoBatch_proof` |
| `PsTree` | `pstree.c` against processes that come and go | |
| `PsTree_proof` | theorems about `PsTree` | `PsTree`, `TLAPS` |
| `NativeBoot` | AM native: `mpe_init`, the devices' initialisation, the end of the program | |
| `KeyQueue`, `KeyRing` | the abstract queue of keys; the ring, its mutexes, event threads and readers | |
| `Audio` | the audio pipe and `count`, access by access | |
| `PageMaps` | address spaces of AM native and `__am_switch` | |
| `Native` | the four together, with the programs that use them | `NativeBoot`, `KeyRing`, `Audio`, `PageMaps` |
| `ApBoot` | AM on qemu: start and stop of the processors | |
| `PageTables` | address spaces of AM on qemu, traps, kept translations | |
| `Rtc` | the clock behind two ports | |
| `Display` | drawing | |
| `Qemu` | the four together | `ApBoot`, `PageTables`, `Rtc`, `Display` |
| `NativeDevices_proof` | theorems about `KeyRing` and `Audio` | both, `TLAPS` |
| `Native_proof` | theorems about `PageMaps`, `NativeBoot` and `Native` | `Native`, `NativeDevices_proof` |
| `QemuParts_proof` | theorems about `PageTables`, `Display` and `Rtc` | the three, `TLAPS` |
| `Qemu_proof` | theorems about `ApBoot` and `Qemu` | `Qemu`, `QemuParts_proof` |
| `MCCoFree`, `MCCoBatch`, `MCCoQueue`, `MCPsTree`, `MCNative`, `MCQemu` | names, symmetry, fairness and options for TLC | the modules of those names |

Operators whose comment says *mutated form* are not part of the model: each is a
plausible mistake in the operator below it, kept to show that some property notices.

### Libco

A step is what happens between two points at which client code runs: a library
call up to the `setcontext` at the end of `swapcontext`, or the return of a
coroutine's function. Coroutines are not preempted, so nothing is lost by
that. State:

* `co_stack`, `current`, `status` are the code's; `alloc` is the set of blocks
  that `malloc` has given out and `free` not yet taken back. A freed block keeps
  its fields, which `co_yield` does read.
* `context[k]` says whose stack the saved registers point into (`owner`) and
  which library call they were saved in (`frame`). The names of the frames follow
  the depth of the stack pointer: `yield` (`co_yield` called by the client),
  `wait` (by the loop of `co_wait`), `reclaim` (by the `refresh_co_stack` that
  `co_wait` called).
* `at[k]` says where the stack of `k` really is, `running` whose stack the
  processor is on. These two are the machine's, not the code's.
* `awaited` is a history of the arguments of `co_wait`; `wild` becomes TRUE, and the
  model stops, when a freed or finished context or one that does not fit its
  stack is restored, or `co_stack` is written past its end. What happens then in
  the real program is arbitrary.

`Resume` is the model of `setcontext`, the only part that stands for code
outside the repository. `Restorable(f, g)` gives what restoring a context of
frame `f` does when the owner is meanwhile suspended at frame `g`: equal
frames fit; a shallower `f` finds the return address that the deeper call has left
in the same slot, since both go through the same call sites (`co_yield` in the
frame of `co_wait`, `co_wait` in the client's frame) and returns to the client
(`Landing`); a deeper `f` reads memory that no live frame owns. This was
confirmed on gcc builds of the library: programs in which `co_wait` returns early and
programs that crash are exactly of the kinds the model finds.

`free` followed by `co_yield` in one step (`Reclaim`) is exact: nothing else
runs between the two. `Start` chooses any block that is not allocated, also one
just freed. `next_co` picks any entry that has not ended; if there is none the
code recurses for ever and the model deadlocks, which the runs of `CoBatch`
check for.

### Clients

`CoBatch`: `main` starts up to `Workers` coroutines (`StartMore`), waits for
them in that order (`WaitNext`, and `WaitMore` for the loop of `co_wait`) and
begins again (`StartRound`). A worker yields or returns whenever it likes,
which covers the tests' loops of 5 and of 100 turns. `CoFree` has no script at all; its
only rule, without which any library would break, is that a coroutine is not
waited for twice or by itself. `CoQueue` is test 2 to the letter, with the number
of items and the capacity as parameters.

### Abstract specification

`Coroutines` knows only which coroutines are absent, started or ended and which
one main is waiting for. `CoBatch!KeepsPromise` is its specification under a
refinement mapping: a coroutine is there while its block is allocated or main
is still inside the `co_wait` for it (the block is freed before that call
returns).

### PsTree

Two sides share `/proc`. The machine (`Fork`, `Exit`) changes `parent` at any
moment; a process that ends leaves its children to process 1. The program
(`Open`, `Read`, `MakeRoot`, `Descend`, `Ascend`, `PrintTree`) follows the code from
`getPIDs` to `deleteNode`, and runs once per option. Correspondence:

* `pids` is the array, with the entry for process 1 that `getPIDs` writes by hand
  before `readdir` finds it again; `dirents` is what `readdir` has still to return, in
  any order.
* Each stat file is read in one step of its own: in `Read` for the parent, in
  `MakeRoot` and `Descend` for the node. A file that can no longer be opened gives
  -1 in `getPPID` and NULL in `NewNode`. A process that ends between `fopen` and
  `fgets` of the same file is not modelled apart.
* `Misread` is what `getPPID` returns for a name with a space: its variable is
  not assigned, so it holds something an earlier call left.
* `Sorted` is `qsort` by its result: an entry goes to the place that its rank says.
  Only process 1 has two entries, which may come out in either order.
* `calls` is the recursion of `ConstructTree`: the node, its pid and the loop index.
  `kids[q]` is the linked list `FirstSon`, `NextSibling`, ... of node `q`.
  `Inserted` is the insertion loop, which replaces the tail behind the place where
  it stops. `Before` is the only difference between `ConstructTree` (pids) and
  `ConstructTree_name` (addresses of names, which `malloc` chooses).
* `steady` is a history: who has lived with the same parent since `opendir`.
* A write past `pids`, a use of NULL and an endless recursion end the program; `why`
  says which.

`Linked` and `SteadyBelowRoot` are what can be reached in the tree and in the machine, each as the
smallest set that is closed under children, so that the proofs need no recursion.

Process 0 as the root (`pstree -n -p` takes `atoi("-p")` for the root) prints process
1 twice, because of the entry made by hand; the runs ask for the roots 1 and 2, and the
theorems about the tree for a root that is a process.

### AM native

`NativeBoot` has a program counter for every processor: `main` is the program
before `mpe_init`, `entry` the program after it, the `init_...` places are inside
`__am_ioe_init`, called by `do_io` in either or by `mpe_init`. Globals marked shared in
the code (`ioe_init_done`, `__am_has_ioe`) are one for all processes, as they are
in the code's shared mapping. `announced` and `early` record what was true when
`mpe_init` was called, `inits` who has initialised the devices.

`KeyRing`: one step per access to shared memory, since the mutex alone keeps the event
thread and the readers apart. The global that names the mutex is such an access: a thread
loads it (`EventLoad`) and then takes the mutex it has loaded (`EventLock`), which
need not be the one that the global names by then. The readers are tasks of one processor; an interrupt
(`Preempt`) may switch between them anywhere in `__am_input_keybrd`, and the mutex,
recursive as SDL's are, does not keep them apart. `InputInit` may happen again: a
new mutex, a new thread, the old thread still at work, under the old mutex if it has
loaded that one. For the readers, which run on the processor that calls
`__am_input_init`, the load and the attempt are one step. `KeyQueue` is what the
ring promises; a key that comes when the ring is full makes it forget everything.

`Audio`: `count += n` and `count -= nread` are a load and a store each (`count` is
volatile, not atomic). `read` and `write` take what the pipe allows, `write` nothing or
all of a small buffer and any part of a larger one, as for pipes that do not block.
`AM_AUDIO_CTRL` may find no audio (`ret` is not 0); then nobody reads the pipe.

`PageMaps`: `map` puts a page at the head of its space's list; `__am_switch` walks two
lists, one action per iteration, so that switches of several processors interleave.
`is_mapped` is in shared memory, what Linux maps is each process's own: that
is why `host` has a processor as its argument and `pagemap` has none.

`Native` lets them run together. `workload` chooses the program: `src/kernel`, which
asks for keys until Escape and halts; a program that plays sound; a kernel with
address spaces; one that does some I/O everywhere. Parts that a program does not use
would only multiply the states.

### AM on qemu

`ApBoot` follows a processor from the INIT that resets it through the boot
record (`Record`), `load_kernel`, `_start_c`, `__am_percpu_init` to `othercpu_entry` and
the user's entry. `ipi[p]` is the queue of interrupts that were sent to it. A
processor that is reset in the middle of anything begins again. `jmp_code` and
`is_ap` are the two things that the boot record says.

`PageTables` keeps pages as functions from indices to entries. `SetEntry` is `ptwalk`,
which may take a page, whichever `pgalloc` gives it, for a table, with what `map` does to the entry it
finds. A freed page keeps its contents, which is what makes zeroing it matter. `tlb[p]` is
what a processor may have kept: `Access` adds to it, `set_cr3` empties it, and nothing else
takes anything out, as on a real processor that has no reason to forget.

`Rtc` takes the clock's registers as functions of a count of seconds and lets the count
grow between any two port accesses; `__am_lapic_bootap` accesses the ports twice,
`ChooseShutdown` and `WriteShutdown`. `Display` draws one row per step, at
coordinates of either sign, as `gpu_fbdraw` takes them; `strays` are the places outside of
`fb` that it has written. A pixel
on the screen is its place in the array that was drawn, so that a wrong pixel is
never taken for a right one.

`Qemu` lets them run together; starting and stopping a processor goes through
the CMOS ports that `timer_rtc` uses.

### Where the models stop promising

Some uses are plainly outside what the code can bear, and the models record them
in a history variable and say nothing of what follows:

| Variable | Becomes true when |
|---|---|
| `wild` (`Libco`) | a context is restored that fits no stack, or `co_stack` overflows |
| `misused` (`KeyRing`) | the input is initialised again while an event thread is inside the mutex, an event thread takes a mutex that is no longer the one the global names, or a task is switched away from between its load and its store of `key_f` |
| `faults` (`Audio`) | an update of `count` is lost, `count` grows between its test and its use or is reset with bytes on the way, a buffer is split, a new pipe is made in the middle |
| `remapped`, `strayed` (`PageMaps`) | a page is mapped again; two processors use one space |
| `outdated` (`PageTables`) | a page is unmapped while another processor runs in the space |
| `shared` (`Rtc`) | two processors use the ports at once |

These are hazards of the code and not assumptions about it: nothing in the
repository prevents them, and TLC reaches every one of them in the runs. The properties
are about what happens before; they do not catch these hazards, and
`PROJECT.json` names no property for them. For `misused` the refinement itself says so
(`broken` in `KeyQueue`), and `MisuseHasCause` that it takes a second initialisation or a
second task. `Display` needs no such variable: `DrawnIsClipped`
says what a rectangle spoils that begins to the left of the screen or above it. The
clock is assumed to tick less than once a minute in one iteration of `timer_rtc`'s loop.

## 3. Runs

| Run | Bounds | Shows |
|---|---|---|
| `batch` | 3 blocks, 3 workers, any number of rounds | no wild processor, `co_wait` in time, no deadlock, the invariants of the proofs, `CoBatch` implements `Coroutines`, everyone is joined |
| `free_heap` | 3 blocks | whatever the client does, the books of the library are right while the processor is in the program |
| `free_single` | 3 blocks, 2 slots | with one coroutine at a time, only the overflow of `co_stack` makes the processor go wild |
| `queue_test2` | 2 + 2 coroutines, 3 items each, capacity 2 | test 2 prints everything in order and ends |
| `ps_numeric` | 5 processes, 2 births or deaths, room for 5 entries | `pstree -n` shows what stays, once, in order, and ends; every crash has its cause |
| `native` | 3 processors started, 2 of them with address spaces; 2 tasks, 2 keys, 4 presses, 3 slots, 2 event threads; pipe of 3 bytes, 5 bytes of sound, 2 pipes; 2 spaces, 2 pages, 3 mappings | the devices are ready when the processors enter, once; the ring is a queue and drains; what is played is what was written, all of it; a user program sees its own space, and every switch ends |
| `qemu` | 3 processors started, 2 with address spaces or at the clock; 2 spaces, 3 pages, 2 by 2 entries, 4 calls; a clock of 3 seconds, 2 minutes and 2 hours, 7 ticks; a screen of 3 by 2, rectangles of up to 3 by 3 that begin anywhere from (-4,-3) to (4,3) | the boot stack has one user; every processor enters; halt switches off; no page of the tables is lost or in two places, walks find the map, users see their space; the time was shown once; drawings are cut off at the right and at the bottom, and what begins to the left or above spoils the ends of rows or what is in front of `fb`, and nothing else |
| `batch_four` | 4 workers | **violated**: with four coroutines the processor can go wild |
| `batch_freed` | 2 blocks | **violated**: a context is saved into a freed block |
| `free_early_return` | 2 blocks | **violated**: `co_wait` can return early |
| `ps_default` | 4 processes, nothing changes | **violated**: `pstree` without an option loses siblings |
| `ps_vanished` | 3 processes, one birth or death | **violated**: `pstree` uses NULL |

Bounds. Three blocks and three workers let a block of one round be another
coroutine's in the next, in any order; rounds are unbounded, so only the number
of coroutines of one round is bounded, and the proofs lift that. Blocks are
interchangeable, hence the symmetry in the safety runs (none where liveness
is checked). Three blocks besides main in `free_heap` are enough for a chain of
starters and waiters in which the middle one ends first. A capacity of two with
six items fills the queue, empties it and makes producers and consumers wait.
Five processes have forests three levels deep with siblings on each level, two
events let a process end and another take its children or be born under it, and
room for five entries is one too few when all five are there (`MaxPids` is 3000 in
the code). `MaxCalls` is more than the depth of any forest: only a circle in
`pids` reaches it.

Three processors let one that was started halt while another one starts, and two halt
at once, with INITs on the way to all of them. A ring of three slots holds two keys, so four presses
fill it and run over it. Two event threads are what a second initialisation makes. A pipe of three
bytes with atomic writes of up to two, buffers of one and three bytes and a
stream of two give whole, refused and partial writes, and reads of less than was asked
for. One list of two pages and one of one let a walk end at
once, and be in the middle of a list when another processor starts its own. Three
pages are too few for two spaces with two tables each (six), so that pgalloc
fails, and enough for a space with all its tables; a page, any of those that are free, goes from one space to the other with its old contents,
for which four calls are enough (protect, map, unprotect, protect). Seven
ticks carry from the second to the minute and the hour. The rectangles begin and end on the
screen and beyond each of its four edges.

Deadlock is checked in `batch`, where main always goes on. The other runs stop
where the program does: when the processor has gone wild, when test 2 has
returned, when `pstree` has printed or crashed, when the program has halted, and
when the bounded program on AM has done all it may do.

Fairness. `rand() % co_stack_count` picks each entry again and again with
probability one: strong fairness of the pick of each block. A worker whose code
is resumed again and again returns, as the loops of the tests do: strong
fairness of its return. In `CoQueue` nothing is assumed of the workers' code
beyond weak fairness of the next step. `pstree` is one process that the scheduler
runs on: weak fairness of its step, and none for births and deaths.

In `native`, Linux runs every process and thread that can run: weak fairness of the
steps of the start, of the program that polls for keys, of the sound's two sides,
and of the iterations of each switch; none for key presses, calls of `map`
or interrupts. An event thread that waits for its mutex gets it when it is free
again and again (strong fairness, as the kernel's futex queue gives it), otherwise a program
that polls could keep it out for ever. `EverythingIsRead` has the premise that the
tasks are outside the lock again and again: two tasks that are switched between
inside the recursive lock for ever would keep the mutex. In `qemu`, every processor
takes its steps and every interrupt that was sent arrives: weak fairness of each
processor's step and of each receipt; none for halting. Both are what a
machine does; nothing in the code relies on more. Of the two port writes
in `__am_lapic_bootap` each has its own (`Choose` is the first).

### Findings

* *Stale `current`* (`co.c:100`, `119`, `203`). Behind the end of a coroutine,
  main runs with `current` naming the ended one and saves itself into its
  block. With two or three coroutines waited for in order, as in the tests, this
  is invisible, which is proved; with four, main's own block may be resumed with a
  stack pointer deeper than what main has kept. On a 64-bit build about three runs
  in a hundred of a four-worker program crash, one in twelve with five workers,
  none with three.
* *Early return of `co_wait`* (`co.c:164`). If main has called `co_yield` itself
  before, the same mistake makes a later switch to main restore the context of
  that `co_yield`: `co_wait` comes back with the coroutine still running. About
  every other run of a small program shows it.
* *Use after free* (`co.c:149`). `refresh_co_stack` frees a block and calls `co_yield`,
  which reads the status of that block and saves a context into it.
* *Lost siblings* (`pstree.c:507`). Comparing names by address makes the
  insertion stop early and cut the list. A shell with six children, five of them
  `sleep`, is printed by `pstree` with two and by `pstree -n` with six.
* *NULL node* (`pstree.c:522`). With two shells starting short-lived processes,
  about one run of `pstree -n` in ten dies of a segmentation fault.
* On AM the models found no disagreement with a text of the repository that a run
  could show, but three things a reader of the code should know. `mpe_init` calls
  `__am_ioe_init` without a look at `ioe_init_done`, although `ioe_init` panics on
  "double-initialization" (`native/ioe.c:53`): a program that does I/O between
  `ioe_init` and `mpe_init` gets a second event thread, mutex and pipe. This is the `early`
  in `DevicesReadyOnce`. A full ring of keys forgets all of them, not the oldest
  or the newest. Mapping a page of AM native again closes the list of its space to a
  ring, and the next switch never ends.
* Three more comments of `co.c` say something else than its code: CO_WAITING is
  not "waiting in co_wait" (27; `co_yield` at 196 and `co_wait` at 163 set it for
  others), main is not kept out while somebody lives (183; the test at 184 is
  commented out), and `co_yield` does not always save "the current coroutine's
  context" (202).

## 4. Proofs

`Libco_proof` is about `co.c` under any client that waits for a coroutine at most
once (`CoFree`), with any set of blocks and any capacity (`LibcoAssumption`). There is a lemma
for every way the processor gets somewhere else (`Resume` from a yield or from a wait, the return
to `uc_link`), and `FreeInductive`, `FreeSpec => []FreeInv`. `FreeInv` says that, until the processor
is wild, it is on the stack of a live block, in the client's code or in the loop of `co_wait`
(`Running`); `co_stack` lists the live, once each (`Listing`); the status is dead exactly of those that are over
(`Dead`); whoever is in the loop of `co_wait` waits for an allocated block, and no two wait for the
same (`Waiting`). `Listing` needs `Waiting`, or the entry that `refresh_co_stack` takes out
could have been taken out before; `Dead` needs `Running` for whose function it is that ends.

* `FreeListsLive`, `FreeDeadIffOver`, `FreeByItsWaiter` (an action property): the books are
  right whatever the client does, `co_stack` overflows included, after which the processor counts as
  wild.
* `FreeWildOnlyByOverflow`: with room for one coroutine besides main (`Capacity = 2`) nothing
  else makes the processor go wild. The invariant behind it (`SingleInv`) lists, for the one coroutine that
  can be there, the places where its stack and main's can be and what each has saved.

`CoBatch_proof` is about `CoBatch` with any set of blocks, any capacity and any
number of workers below the capacity (`LibcoAssumption`, `BatchAssumption`).

* `TypeCorrect`: `Spec => []TypeOK`, from the lemmas about the operations in `Libco_proof`.
* `Inductive`: `Spec => []BatchInv`. The invariant has four parts. `Books`:
  `co_stack` is main followed by the coroutines not yet waited for, in order;
  these are the allocated blocks. `Worker`: a worker's context is where its stack
  is, its status is dead exactly when it is over, its `uc_link` is main.
  `Processor`: a worker runs as `current`; main may run behind the `current` of an
  ended worker, and then everything else about it still holds. `Round`: nothing
  has run before the first `co_wait`, and the end of the awaited coroutine
  brings main back at once, which is what keeps `current` allocated at every
  `co_start` and every dead `current` out of reach of a second `free`. None of
  these is inductive alone: `Books` needs `Round` for the entry that is
  removed, `Processor` needs `Worker` for whom the switch resumes.
* `StackSafe`, `WaitsToTheEnd`: consequences, whatever the number of workers, as
  long as the processor is in the program.
* `ShallowUpToThree`, `SafeUpToThree`: with `Workers <= 3`, `Spec => []SavedShallow` and
  `Spec => []NeverWild`. `SavedShallow` says when main's saved context can be deeper than its
  stack: only if its own block was written in the `reclaim` frame, which needs a co_wait of
  an already ended coroutine, hence not the first of the round, and harm needs
  yet two coroutines after that. The bound is sharp, see `batch_four`.
* `PromiseKept`: with `Workers <= 3`, `Spec => KeepsPromise`, the batch client implements `Coroutines`.
  That a step is one of the protocol, or none, holds for any number of workers as long as the
  processor does not go wild (`StepPromised`); only that it never does needs the bound.

`CoQueue_proof` (any producers, consumers, items and slots; `QueueAssumption`) first shows that test 2 is
a batch client: `QueueIsBatch`, `Spec => Batch!Spec`, for an instance of `CoBatch_proof` with `Producers +
Consumers` workers, one action at a time. With it come the type of libco's part and `BatchInv`,
which says that a worker runs only if main is in a `co_wait`. The rest is about the queue: `QueueTypeCorrect`,
`SizeIsLength`, `ItemsInOrder`, and `ConsumersStay`, whose invariant `Flag` ties `g_running` to
main's progress through `co_wait`: main clears it only when it has waited for all producers. Nothing
here bounds the number of workers: as long as the processor is in the program, the test is right.

`PsTree_proof` (any processes, parents, births and deaths, any set of names with spaces, any length of `pids`;
`PsTreeAssumption`):

* `PsTypeCorrect`: `Spec => []TypeOK`, whatever the options.
* `CrashesHaveCause`: `Spec => []CrashHasCause`, whatever the options, if the stack takes more calls
  than there are pids. `Known` says what `pids` has to do with the processes: who is in it was there,
  once but for process 1, and who stays is in it or still in `dirents`; this gives the causes
  "null" and "overflow". For "depth", `Ages`: if no name has a space there is a
  function from processes to numbers that grows from every parent named by
  the machine or by an entry to the child, and from process 1 to everyone. A birth extends
  it, and a death, which makes process 1 a parent, keeps it. It grows along the calls,
  so there are no more of them than pids.
* `NothingIsLost`, `SiblingsAreSorted`, `NobodyIsShownTwice`, `SteadyAreShown`: `NoNodeLost`, `SiblingsSorted`,
  `ShownOnce` and `SteadyShown`, for the options `-n` and `-p` and a root that is a process. (Without an option
  the first one is false, see `ps_default`; with root 0, the second and the third.) The
  invariant is `Forest`: the children of a node are those of its process in the part of
  `pids` that its call has gone through, each once. As `SortedIs` shows that `qsort` leaves
  the entries in order, the next child is behind all of these, the loop that looks
  for its place ends at the last sibling, and nothing is cut off (`InsertedLast`).
  A printed tree has no process twice (`OncePerProcess`): the
  parents of two nodes of one process are two nodes of one process, as only one entry
  names its parent, so the first node with a twin is the root; but then each node has
  a twin below the last node of the root's process, that node itself too.

There is no induction in these proofs: where one is called for they take a least
or a greatest number (`Least`, from `NatLessThanWellFounded`; `Greatest`).

`NativeDevices_proof`, the ring (any tasks and keys, any ring of at least two slots, any number of
event threads; `KeyRingAssumption`): `KeyTypeCorrect`, and `RingImplementsQueue`,
`KeySpec => RingIsQueue`, until the ring is misused. The abstract queue is the stretch of the ring from `key_f` to
`key_r` (`Contents`). The invariant `RingInv` says, as long as there is no misuse,
that the event thread between its lock and its unlock is alone in the mutex that the global
names (`Exclusion`), and that the indices and codes in everybody's locals are
still those in memory (`LocalsFresh`). Without the first the second is not inductive,
without the second a store of `key_f` or `key_r` could undo another one. Four lemmas
say what `% KEY_QUEUE_LEN` does to `Contents` when a key goes in, comes out, or
finds the ring full; each step is then a `Press`, a `Read` or a stutter. `MisuseHasCause`:
`misused` only becomes TRUE when the devices have been initialised twice or there are two
tasks. Mutexes are numbered in the order in which they are made, and a thread has never
loaded one that is newer than the global's; with one mutex it has loaded that one.

`NativeDevices_proof`, the sound (any pipe, any buffers, any stream and any number of new pipes; `AudioAssumption`):
`AudioTypeCorrect`, and `SoundInOrder`, `AudioSpec => []PlayedInOrder`. `AudioInv` counts: what
was played, is in the pipe and is still to be written make up the stream, in order, and as long as
there is no fault `count` is what is in the pipe but for what the writer and the callback are about to
add or take off (`Counted`). Each of the two keeps the other's share fixed (`Undisturbed`), which is where a
lost update would show.

`Native_proof`, the address spaces (any processors, spaces and pages; `PageMapsAssumption`): `HostMapsTheSpace`,
`PageMapsSpec => []PageMapsTypeOK /\ []HostIsSpace`. In the middle of a switch a processor has
a part of a list mapped, which no formula about single pages can name. The invariant
says that the pages of each list can be numbered from its end (`List`); a processor that
leaves has the pages with numbers up to that of `pp`, one that enters those above it (`Has`), and
all it has are marked `is_mapped`, or it would not unmap them. It needs that no two processors
use one space (`Apart`), which holds until one strays. Each action is a lemma; those about
one list and one processor (`ListInsert`, `SeesLeavePage`, ...) do not mention the state.

`Native_proof`, the start (any number of processors; `MaxCpuAssumption`): `BootTypeCorrect` and
`DevicesReady`, `BootSpec => []DevicesReadyOnce`. `BootInv` adds where the children can be before the
first `+` (`Waiting`), what `mpe_init` knew of the devices (`Known`), and that nobody
begins to initialise them once the children are released (`Ready`).

`Qemu_proof`, the start (any number of processors; `NAssumption`): `ApTypeCorrect` and
`BootStackSafe`, `ApSpec => []BootStackExclusive`. `ApInv` has one part per value of the jump in the boot
record: `Asleep` before `mpe_init`; `Booting`, where everyone below the one that is being
started is in the program, everyone above sleeps and has no interrupt on his way, and an INIT can
only be the first on its way; `Stopping`, where a processor that comes out of a reset loops in the
boot record and those on the boot stack only leave it.

`QemuParts_proof`, the page tables (any pages, spaces, processors, sizes of tables, any number of calls;
`PageTablesAssumption`): `TablesTypeCorrect`, `PagesAreOwned`, `WalkFindsTheMap`, `UserIsAtHome`. `Tidy` gives every
page that is out exactly one place, in a directory or as one, and `Filled` says of
each entry what was asked for. Both are stated for the pages, pointers and live spaces as arguments,
so that the lemmas about adding a table, changing an entry and giving a space
back are about functions, and an action only instantiates them.

`QemuParts_proof`, drawing (any screen, any rectangle, at coordinates of either sign; `DisplayAssumption`):
`DisplayTypeCorrect`, and `DrawingIsClipped`, `DisplaySpec => []DrawnIsClipped`. The invariant says what is on the screen after `j` rows, in
the columns that a start to the left does not spoil, and that `pixels` is `j * w`. The work is
in showing that different pixels are different cells of
the frame buffer and that a row does not go on into the next one (`CellsOfRow`).

`QemuParts_proof`, the clock (any lengths of minute, hour and day, any number of readers and ticks; `RtcAssumption`):
`RtcTypeCorrect`, and `TimeIsShown`, `RtcSpec => []ShownTime`. The provers know nothing of `%` and
`\div` by numbers that are not constants; `DivMod` and `SameSecond` are what the proof
needs of them. `RtcInv` says that what a reader has read so far was shown at moments in
order (`ReadAt`), and that since the loop began less than a minute has passed (`InTime`), which is in
the guard of the clock's step and stands for code that is much faster than the clock. Then equal
seconds at the beginning and at the end mean that no register changed between.

`Native_proof` and `Qemu_proof` also show that the compositions implement the specifications of their
parts (`NativeIsItsParts`, `QemuIsItsParts`), for which each of their actions is a step of
one or more parts that leaves the others alone. So the theorems about the parts
hold while all of them run, `NativeTypeCorrect`, `NativeSafe`, `QemuTypeCorrect` and `QemuSafe`, with no
assumption about `workload` and with the exceptions that the parts make.

Model-checked only: the liveness properties, which are out of the prover's reach, among them
that `pstree` ends (`Terminates`). Every safety property of a passing run has a theorem.

## 5. Not modelled

The depth of a coroutine's own calls on its 8 KiB stack; a failing `malloc`;
`fini`, which frees nothing that matters; two threads calling the library, which
it does not support. In `pstree`: the layout of what is printed, how the command
line is read, `countPIDs` (its result is not used), pids that are given out
again while the program runs.

AM native: how signals interrupt a processor, how `cte.c` copies contexts and changes
stacks; what that does to the modelled parts is `Preempt` and `Switch`. `MMAP_NONE`, and
the hash table that finds a `PageMap` by its address. A failing `fork` or `write`,
after which the code panics. Graphics, timer and disk, which are calls of SDL and Linux.
SDL, Linux and pipes are modelled from how the code uses them.

AM on qemu: what happens before `main` on processor 0, switches of mode, the loading of the ELF
file, the set-up of LAPIC and IOAPIC, the classification of interrupts, `gpu_render`, the
ATA disk, the serial port. Two levels of page tables, not four. `cte.c` without its
contexts.

`klib`, apart from `rand` and `atoi`, panics. The drafts in `libco/old`, `libco/test1` and
`pstree/old` are built by no Makefile. `kernel.c` has more than a hundred thousand lines, of which all
but about a hundred are the pixels of one picture; that is 95 of every
hundred lines of the repository's code, and there is no behaviour in it to
model. An eighth of what remains is LLVM's `int64.c`.

The other parts of the repository are listed in `PROJECT.json` with the reason.

## 6. Plan

1. `libco` (done): `Libco`, its three clients, `Coroutines`, first theorems.
2. `PsTree` (done): scan, sort, build and print against processes that change.
3. AM native (done): `NativeBoot`, `KeyRing` against `KeyQueue`, `Audio`,
   `PageMaps`, and `Native`, which composes them.
4. AM on qemu (done): `ApBoot`, `PageTables`, `Rtc`, `Display`, and `Qemu`.
5. Theorems (done): the library under any client, test 2 and the batch client, the ring refines the queue,
   the sound, the handshake, the page tables, the address spaces, the start, the display, the clock,
   the two compositions, and the scan, the sort and the tree of `pstree`.
6. Left: the ATA disk's wait for its status, and `gpu_render`, as models.
