# TLA+ models of the CS:APP lab programs

This directory holds specifications of the programs under `src/4. lab`: what
they do, step by step, as TLA+ modules; configurations that check them with TLC
on small instances; and theorems about them that the TLA+ proof system checks
for every value of the constants. Line numbers are those of the sources.

Run a check with `tlc -config MCShell.cfg MCShell`, a proof with
`tlapm Shell_proofs.tla`. `PROJECT.json` lists the runs, the lines each
definition stands for, one mutant per property, the hazards of the code and the
theorems.

## The system: inventory

The repository is a course's worth of programs, not one program: the labs, each
with its solution, the drivers that grade it, and the library they share.

| part | state | operations | what is hard |
|---|---|---|---|
| job list, `tsh.c` 437-589 | `jobs[MAXJOBS]`, `nextjid` | `addjob`, `deletejob`, `initjobs`, `clearjob`; lookups by pid, job ID, state | slots are cleared in place under pointers others hold; job IDs wrap around; the list is bounded |
| shell, `tsh.c` 80-434, 632-653 | the job list, the signal mask, the stack of handlers, the locals of `eval`, `do_bgfg`, `waitfg` | read a command, fork, add, wait, `bg`, `fg`; `sigchld_handler`, `sigint_handler`, `sigtstp_handler`, `sigquit_handler` | handlers run between any two steps and inside one another; signals do not queue; children run, stop, continue and die on their own, or because somebody else signals them |
| proxy, `proxy.c` | one thread per connection, each with its locals | accept, read a request, ask the cache, connect, relay, insert | threads interleave; peers vanish; failures return early |
| object cache, `cache.c` | a linked list in memory, its size, one semaphore | `fetch_object` (a hit becomes the newest), `receive_object`, `insert_object`, `remove_object` | pointers into a list others rewrite; every path must give the semaphore back |
| buffered I/O, `csapp.c` 751-915 | a buffer, a count and a pointer into it | `rio_readnb`, `rio_readlineb`, `rio_writen` | short, interrupted and failing system calls; a buffer shared between calls |
| cache simulator, `csim.c` | an array of sets of blocks, three counters | `updateSet` for load, store, modify | LRU order kept by moving blocks; E at its limits |
| allocator, `mm.c`, `memlib.c` | a heap of words: headers, footers, five free lists | `mm_init`, `mm_malloc`, `mm_free`, `mm_realloc` | boundary tags inside memory the user writes; coalescing on four cases |
| allocator driver, `mdriver.c`, `ftimer.c` | the trace, the ranges handed out, sizes, errors | check, measure space and measure time of every trace, each on an empty heap | a wrong order accuses a correct allocator; a heap that is not clean on a replay |
| transposes, `trans.c`, `test-trans.c`, `tracegen.c`, `cachelab.c` | the two matrices, a cache, the results of the functions registered | `transpose_submit` by size, `trans`; validate, simulate, grade | tiles that do not divide the matrix; conflict misses; which function a result is of |
| bit puzzles, `bits.c`, `tests.c` | none | 13 pure functions of words and their test functions | overflow, the smallest integer, infinities |
| puzzle harness, `btest.c`, `decl.c` | options, the arguments generated, points, an alarm | read options, run tests, score | an alarm jumps out of the middle of a test; numbers that do not fit |
| Tiny, `tiny.c`, `tiny/csapp.c`, `adder.c` | one connection, the locals of `doit`, a child, a mapping | accept, read a request, serve a file, run a program, report an error | two processes write one response; a file changes between `stat` and its use; clients vanish |

The shell's job list is shared by its main loop and by four signal handlers, and
blocking SIGCHLD is the only synchronisation. The children and the terminal are
the shell's environment. The proxy's threads share the object cache alone; they
meet in `fetch_object` and `insert_object`. The csapp wrappers decide which
failures return and which end the process. Tiny serves one connection at a
time, and forks a program that writes to the client behind its back. `mdriver` calls
the allocator and looks at what it gets; `test-trans` runs the transposes on a
simulator of the same design as `csim`; `btest` calls the puzzles and is interrupted
by its own timer. The other programs are sequential.

Left out: `list.c` of the boot camp (four list operations without hidden state), the
homework programs, `bomb.c` and `farm.c` (puzzles about machine code), the Python and
shell drivers, trace files, `clock.c` and `fcyc.c` (timers that `config.h` does not
select), the lecture material.

What makes each part correct, beyond what its unit tests reach:

- **Job list**: whatever slots and job IDs it uses, it is a set of jobs named by
  process ID; a full list refuses a job and loses nothing else; a job ID handed
  out is not in use.
- **Shell**: no child is forgotten although signals do not queue; no wake-up is
  lost between the test and the sleep of `waitfg`; the prompt comes back when
  the foreground job died or stopped and not before; keys reach no background
  job; no job on the list is dead once everything has settled.
- **Proxy and object cache**: the semaphore comes back on every path; the linked
  list ends and holds only memory that is allocated; an object is filled by one
  thread and does not change once it is cached; the list is a recency cache.
- **Buffered I/O**: bytes come in order, each once, however they arrive; lines and
  blocks are whole unless the connection ended.
- **Cache simulator**: an access hits exactly when the block of its address is held, and
  the array of a set implements LRU replacement; what is counted adds up with what is in
  the sets.
- **Allocator**: boundary tags and free lists describe the same heap; no word a
  caller holds is written; nothing leaks or overlaps; the fit is the best one.
- **Allocator driver**: its ranges are the blocks handed out; why it finds fault is known;
  every play of a trace gets the same blocks.
- **Transposes**: every element is copied once, whatever the tiles; the tiles of the
  graded sizes stay in the cache; the grade is that of the submission's own run.
- **Bit puzzles**: each agrees with its test function on every word.
- **Puzzle harness**: points are given for exactly the functions that ran to the end
  without an error, after the boundaries were among their arguments.
- **Tiny**: nothing of a connection outlives it; one well-formed response, of the length
  it says, to the request the client made, if that names a URI; nobody waits for ever.

## The modules

| module | models | how |
|---|---|---|
| `JobTable` | `tsh.c` 437-589 | the helper routines as operators on a function from slots to records |
| `JobSet` | what a job list promises | abstract: a function from pids to states, with `Start`, `End`, `Change` |
| `Shell` | `tsh.c` 80-434, 632-653, and the kernel around it | EXTENDS `JobTable`; one action per step that a signal can come between |
| `Shell_proofs` | theorems | of list, handlers and main loop |
| `RecencyCache` | what the object cache promises | abstract: the objects held, which is newer than which, who got what |
| `Proxy` | `proxy.c`, `cache.c`, the failures of `csapp.c` | one action per blocking call, lock, or step along the list |
| `Proxy_proofs` | theorems | |
| `LRUSets` | what a cache with LRU replacement does with a trace | abstract: a sequence of blocks of memory for every set; an access is of an operation and an address |
| `ByteStream` | what buffered reading promises | abstract: bytes not handed out, the call being made, its answer |
| `Rio` | `csapp.c` 751-915 | one action per `read`, `write` or copy |
| `Csim` | `csim.c` | one action per line of the trace |
| `Malloc` | `mm.c`, `memlib.c` | the words of the heap; one action per call |
| `Mdriver` | `mdriver.c`, `ftimer.c` | EXTENDS `Malloc`: one action per request checked or played, per replay, per trace |
| `Transpose` | `trans.c`, `test-trans.c`, `tracegen.c`, `cachelab.c` | one action per tile copied, one per function evaluated |
| `Cachelab` | the two programs of the lab | composes `Csim` and `Transpose`: a run starts one of them |
| `Bits` | `bits.c`, `tests.c` | operators on words of `W` bits; floats as records of exact numbers |
| `Btest` | `btest.c`, `decl.c` | EXTENDS `Bits`: one action per option, function, call of a puzzle, and the alarm |
| `Tiny` | `tiny.c`, `tiny/csapp.c`, `adder.c`, `open_clientfd` | one action per system call, of the server, its child, the clients |
| `Mdriver_proofs` | theorems | sections 1 to 13 have what each routine of `mm.c` does to a heap, 14 to 20 what follows for every caller and for the driver, 21 and 22 that replays are alike |
| `Btest_proofs` | theorems | sections 1 to 7 about words, floats and the puzzles, 8 to 11 about the harness |
| `Tiny_proofs`, `Cachelab_proofs`, `Rio_proofs` | theorems | the second about `Csim`, `Transpose` and their composition |
| `NatLemmas` | lemmas | on `Min`, `Max`, induction and finite sums, for all of them |
| `MCShell`, `MCProxy`, `MCRio`, `MCCachelab`, `MCMalloc`, `MCBtest`, `MCTiny` | | symmetry sets and constants for the runs |

### Shell

`pc` is the place of the main loop between two steps a signal can come between:
`prompt`, `addjob` (forked, SIGCHLD blocked), `waitfg` (about to test `fgpid`),
`sigsuspend` (tested, about to sleep), `asleep`, `unblock`, and the steps of
`do_bgfg`: `read pid`, `bg kill`, `bg state`, `fg kill`, `fg state`. `frames` is
the stack of active handlers. `Signal` installs every handler with an empty
`sa_mask`, so a handler blocks its own signal only and another one may run on
top of it; `saved` is the mask to return to. A step reads or writes the job
list once. `deletejob` and the write of `ST` run with every signal blocked (382,
401) and are one step; `addjob` fills the pid of a slot before its state, and
runs with SIGCHLD blocked, so the key handlers see no half of it.

A child is `forked` until `setpgid`, `grouped` until `execve`, and then
`running`, `stopped`, `doomed` (stopped with a SIGINT pending) or `zombie`. The
kernel's part (`Kill`, `Move`, `Waitable`, `Deliver`) is what the code relies on:
one pending bit per signal, SIGCHLD when a child dies, stops or continues,
`waitpid` reporting any child that died or newly stopped, and none that goes on
(`sigchld_handler` does not ask with `WCONTINUED`, 384). Any child may at any time be
killed, stopped (`StopsItself`) or continued (`Continues`) by itself or by somebody else.
`sigsuspend` opens the mask and sleeps in one step. SIGQUIT ends the shell at once wherever it is.

What `parseline` reads is reduced to the kind of command. Printing, the command
line kept in a job and the program a child runs are left out. A job is one
process: helpers that a job forks into its group are not modelled.

### Proxy

The linked list is the code's own: `next` pointers, the walker's `p` and `q`, and
`allocated`, since memory handed out again is what makes a stale pointer
dangerous. `fetch_object` is `LockFetch`, `FindNext`*, `Hit` or `Miss`;
`insert_object` is `TooLarge`, or `LockInsert`, (`StartRemove`, `FindLast`*,
`RemoveLast`)*, `Link`. `doit` between them is one action per call that waits for
the network. A header line or a body buffer is one unit of size.

`Rio_writen` and the read wrappers end the process on an error
(`ConnectionBreaks`), and so does a failed `malloc` through the NULL pointer in
`init_object` (`OutOfMemory`). Early returns do not free `obj`, as in the code:
its memory stays in `allocated`. In `read_requesthdrs`, end of file leaves the
buffer as it is, and the loop writes it for ever (state `spin`); before the
first header the buffer is uninitialised, so all outcomes are allowed.

### Rio

One thread calls `rio_readnb`, `rio_readlineb` and `rio_writen` in any order on one
connection, as `doit` does. The `rio_t` is the code's: count, pointer and a buffer
that keeps old bytes and starts uninitialised. `read` returns any part of what has
arrived, is interrupted, fails or finds the end of file; `write` takes any part.
`bufp` counts the bytes a call has stored or written, from which both `nleft` and
the `n` of `rio_readlineb` follow. `ByteStream` sees a call only when it returns;
until then the bytes it has stored count as not handed out. `Proxy` does not use
this module: it takes a line or a block as a unit, which is what `Rio` justifies.

### Csim

A set is an array of `E` blocks sorted so that the blocks that are not valid come
first, then the valid ones from the last used. `updateSet` works on a record of
a set and the counters, so that `M` is two of them in a row. `line` is the line of the
trace that was read last. `LRUSets` sees it too, and nothing of tags or index bits: it
divides the address by the block size, so that what hits is a matter of the address alone,
and it takes no array, so that the order of the blocks is that of their last uses. The trace
may end at any time, so the run does not check for deadlock.

### Malloc

Memory is a function from word addresses to integers and every helper of `mm.c`
takes a memory and returns one; headers pack size and flags as the code does,
list pointers are addresses. Only the code selected by the `#define`s of `mm.c`
is modelled: segregated lists, best fit, LIFO. A caller's word is a negative
number that names its block and its place in it (`Data`), so that a word that is
overwritten or moved to the wrong place is seen. After each call the words that
nobody may read are written as `Garbage`: states that differ only there behave
alike as long as the code reads none of them. If it did read one, the garbage
would turn up as a size or a pointer. A new block takes the smallest free id, as
ids name nothing in the code. `heap_listp` is no variable: every use of it reads
a class list first. In its second case `coalesce` calls `unjoin` twice for one block (627,
647); the second call writes again what the first wrote, and is left out.

### Mdriver

`DriverInit` chooses a caller: any program, whose calls are those of `Malloc`'s `Next`, or
the driver. The trace the driver plays is chosen while it is checked (`CheckRequest`), one
request after the other, so that every trace up to `MaxOps` requests is checked, then played
for its space (`eval_mm_util`) and `Repetitions` times for its time (`eval_mm_speed`).
`Restart` is `mem_reset_brk` and `mm_init`: all bytes that `mm_init` does not write keep one
unknown value, so that a read of an old byte would show up as a difference between two
plays. The `fill` pattern is a number that names block and word, so that two blocks whose
ids agree modulo 256, which the driver cannot tell apart, are told apart here. Where it
compares the bytes of a block that was moved (656), it compares a `char` with a number of 0
to 255: for the ids in `HighIds`, whose low byte is at least 128, no byte is the one
expected, whatever it holds (`Preserved`). `add_range` compares the ends of a new payload
with the ranges it has: one that lies around an old one would be missed, as in the code.

### Transpose

A step copies a tile, in the order of the loops, and asks the simulator (direct
mapped, 32 sets, as `test-trans` runs `csim-ref`) for every element it reads or
writes. `A` and `B` are adjacent arrays as in `tracegen.c`, so that a tile that
reaches behind the matrix reads and writes what lies there. A step of `trans` copies
one row of `A`. Each function is evaluated in a new process with a new `B`; `Evaluate`
is what `eval_perf` does with the outcome.

### Bits and Btest

A word is the number of its bits, so that overflow wraps, as every build of the lab
does (`isTmax` and `negate` rely on it although the language leaves it undefined). The
width is a parameter: the constants of the code are those of the width, which is 8, 16 or
32. `&`, `|` and `^^` are what they do to the sets of bits of two words (`Ones`,
`Number`). The folds in halves and the loop of `test_floatPower2` are functions of
the number of rounds. The floating point operations of `tests.c` are done on exact numbers,
in units of the smallest float: a result that is not too large or too small is exact.
`btest`'s texts are records of what `strtoul` and `strtof` find in them. The alarm may go
off between any two calls; after a test has returned and before the next
`sigsetjmp`, it jumps into a frame that is gone (phase `lost`), and nothing is known
from there on.

### Tiny

A URI is the sequence of its parts, a line the sequence of its words, and a response
the sequence of its lines and pages. `pc` is the server's next system call; `doit`'s
locals are variables, since `sscanf` leaves those it finds no word for as they were, and
what is on the stack may be the last request's, or what calls since then have written
there. What a client has sent is its
`inbox`: it may go at any time, in the middle of its request, and take back what was
not read. `child` is the process that `serve_dynamic` forks: it has a copy of stdout's
buffer, which `exit` writes out when `execve` fails, into the connection by then.
`Change` is the owner of the files at work: between `stat` and `open` a file may be
removed, emptied, shortened, or lose its permissions, and a page of a mapping that lies
behind the file's new end kills the server (SIGBUS), as an empty file (`mmap` of
length 0) and a client that has gone (SIGPIPE, or `unix_error`) do. `adder` dies on a
query without `&`; its `sprintf` from `content` into `content` is undefined, so that what
comes before may be lost.

## The runs

Several properties are conjunctions of parts with names of their own, each commented
where it is defined: `ListIsTrue`, `JobsChangeWithoutFg`, `CacheInv`, `CacheCallsEnd`, `HeapInv`,
`DriverKnowsBlocks`, `RioInv`, `CsimInv`, `TinyInv`, `ScoreInv`.

| run | instance | shows |
|---|---|---|
| `shell` | 2 children, 2 slots, all commands, ctrl-c and ctrl-z, `nextjid` up to 2 | the list, with a slot for every child; signals and wake-ups; the prompt waits for the foreground job, with `fg` and without; keys |
| `shell_overflow` | 3 children, 2 slots, no `fg`, ctrl-z and ctrl-\\, `nextjid` up to 3 | the full list; fresh job IDs; that the list implements `JobSet`; one foreground job; the changes of state |
| `shell_live` | 2 children, `fg` by pid, ctrl-c, fair | `waitfg` ends and every dead child is reaped |
| `proxy` | 2 threads, 2 URLs, 3 objects of memory, sizes up to 2 | mutual exclusion, the list, refinement of `RecencyCache` |
| `proxy_live` | 2 threads, 2 URLs, 2 objects, sizes up to 1, fair | every walk ends and the semaphore comes back |
| `rio` | buffer of 2, calls for 1 to 3, 3 different bytes, 4 in flight, fair | reads implement `ByteStream`; writes are whole; reads end at the end of file |
| `cachelab` | `csim`: 2 sets of 3 blocks, the addresses of 4 blocks each, 9 accesses; `test-trans`: 13 sizes of matrices | sorted sets, counters, refinement of `LRUSets`; shapes, misses, grades |
| `malloc` | 208 bytes, first chunk 64, sizes 0, 12, 40, 100, 500, 3 blocks, one of a high id; 2 traces of 3 requests, 2 repetitions | tags, lists, payloads, leaks, best fit; the reason of every alarm, replays alike |
| `datalab` | words of 8 bits, 8 command lines, 2 alarms | puzzles agree with their tests, points are earned, boundaries are tested |
| `tiny` | 2 clients, 6 requests, 2 addresses (one taken), one change of a file, fair | nothing leaks, responses are whole and those of the URI that was named, clients are answered |
| `shell_twofg`, `proxy_freed` | | one finding each, see below |

**Why the bounds are enough.** Two children give a foreground and a background job, two
handlers' worth of deaths for one SIGCHLD, and a slot that is deleted under `do_bgfg`'s
pointer; three children on two slots give a full list with a job that is not on it. Job IDs
up to 3 over 2 slots wrap `nextjid` around (`shell_overflow`). In `shell` and `shell_live`
it stays at most 2, and for the list with room nothing depends on it but which job `%jid`
names. The handler stack needs no bound: each kind of signal blocks itself, so at most three
handlers are active. `JidLimit` only stops commands from being read once `nextjid` is past
it. `fg` is left out of `shell_overflow` because two of its properties,
`ForegroundIsWaitedFor` and `JobsChangeWithoutFg`, fail with it (the finding `shell_twofg`),
and what they say is of a shell without `fg`. `shell_live` takes `fg` by pid only because of
what is seen below with a job ID.

Two threads suffice for every interleaving on the semaphore, and three objects of memory for
a list of two that evicts while a third is filled; sizes of 0 to 2 units reach both limits
exactly. Three blocks in a set distinguish the first, the middle and the last place; four
tags overfill it; nine accesses fill a set, evict, and use again; the addresses are the
first byte of every block and the other bytes of some, so that an offset in a block plays no
part. A call for three bytes on a buffer of two needs a second `read`, a line may end
inside, at the end of or beyond a buffer, and four bytes in flight leave some for the next
call. In the allocator's run the sizes make blocks of 16, 48 and 104 bytes, on three of the
class lists, a block too large for memory, heap growth, failure at the end of memory, all
four cases of `coalesce`, and every branch of `mm_realloc`. Two traces of three requests
reach every branch of `eval_mm_valid`, a call that fails, and a second heap that starts with
the bytes of the first.

The matrices are those of the assignment, others on both sides of their tiles,
and ones that are not square. Eight bits hold a decimal digit's
code, all boundaries of an integer and of a float with three bits of fraction; arrays of
eight values make `btest` sample instead of trying every word, as at 32 bits. Two
clients are one being served and one that waits or comes later with what the first left
on the stack; six requests reach both kinds of content, both errors of `doit`'s first
half, a request line with one word and one with none; one change is enough for each
window between `stat` and the end of `munmap` or `execve`.

## Fairness

The code waits in four places: `waitfg` for a signal, `fetch_object` and
`insert_object` for the semaphore, and `rio_read` for the peer.

- Shell: the scheduler runs the shell, and the kernel delivers an unblocked
  pending signal before the process goes on for ever. Handlers of keys can
  interrupt the main loop and the SIGCHLD handler again and again, so their steps
  are enabled on and off; that this does not go on for ever is strong fairness
  on `MainStep`, `ChldStep`, each `KeyStep` and the delivery of SIGCHLD. Nothing
  is assumed of the user, and of children only `ContinuesEnd`: that nobody stops and
  continues them for ever. Somebody who did so in step with the loop of `sigchld_handler`
  (384) would give `waitpid` something to report each time, and the handler would not end.
  `WaitfgEnds` has that the job does not run as its premise, and that `waitfg` ends, or
  somebody continues the job, as its conclusion.
- Proxy: weak fairness of each thread inside the cache, strong fairness of `P`: a
  semaphore that is given back again and again is got at last. Nothing is assumed
  of the network. A run in which the process exits is excepted by the properties.

- Rio: weak fairness of the steps that read, copy or return; a `read` with something to
  report is not interrupted for ever. `ReadsEnd` has that the peer has closed the
  connection as its premise.

- Tiny: weak fairness of the server, of its child and of each client. That a client
  that has connected sends a request or goes is an assumption about clients, and a
  necessary one: the server is iterative, and one silent client stops it. `Answered`
  excepts the server's exit and the endless loop at the end of a header (108).

Without those conditions the liveness properties fail by stuttering. The
allocator, the simulator and the harnesses are sequential and have no liveness beyond the
termination of a call, which is the evaluation of an operator.

## What is proved

TLAPS checks these for every value of the constants that satisfies the named `ASSUME`s of
the modules: `MAXJOBSAssumption`, `PIDsAssumption`, `CommandsAssumption`,
`JidLimitAssumption`, `KeysAssumption` for the shell; `MemoryAssumption` and
`SizesAssumption` for the proxy; `CacheAssumption` and `PowersAssumption` for the simulator;
`MatrixAssumption` (sizes of 1 to 256) for the transposes; `SizesAssumption` and
`BytesAssumption` for the buffered reads; `HeapAssumption` and `DriverAssumption` for the
allocator and its driver; `TinyAssumption` for Tiny; `WidthAssumption` and `BtestAssumption`
for the puzzles and their harness. They say what kind of value a constant is, and which are
distinct; `PowersAssumption` says that `2^s` and `2^b` are positive and that `2^(b+s)` is
their product, since the provers know nothing of powers. `HeapAssumption` says what `mm.c`
relies on: the first chunk is a multiple of 8 of at least a smallest block (the code has
4096), it fits into memory behind the prologue, a size of memory fits into `size_t`, and the
width of that is a power that 8 divides. `WidthAssumption` says how a float divides its
bits: every int must be below the largest float, as `tests.c` converts one to the other (32
bits with 8 of exponent are such, and so are 8 with 4). `BtestAssumption` has the range of
at least four that the arrays need (the code has 500000), and what `strtoul` and `strtof`
may find in an option.

| theorem | inductive invariant | why it is needed |
|---|---|---|
| `ShellTypeOK` | `TypeOK /\ JobFound` | `do_bgfg` writes through `job`, so it must be a slot wherever it is written through |
| `ShellNoChildForgotten` | itself, on `TypeOK` | a SIGCHLD frame is pushed as the pending bit is cleared, and popped only when `waitpid` has nothing left; every change of a child that makes it waitable sets the bit |
| `ShellNextJidFresh` | `JidInv` | job IDs are bounded by `MAXJOBS` as well, since `deletejob` recomputes `nextjid` from the largest |
| `ShellForegroundIsWaitedFor`, `ShellAtMostOneFG` | `ForegroundInv`, `NoFgPath` | `"fg pid"` and `"fg %jid"` are not in `Commands`; then a slot in state `FG` is the one whose pid `waitfg` waits for |
| `ShellListIsTrue` | `ListInv` = `ChldMasked`, `FramesTrue`, `JobsInv`; `WakeInv` | see below |
| `ShellIsJobSet` | `ListInv` | a pid has one slot, so that writing to the slot is a step on the pid; a free slot means fewer than `MAXJOBS` jobs |
| `ShellKeysSpareBackground` | `ForwardsSpare`, on `ListInv` | between reading `fgpid` and `kill` other handlers run, and none makes the job a background one |
| `ShellSleepsForLiveJob` | `WakeInv`, on `ListInv` and `NoChildForgotten` | see below |
| `ShellWaitsForForeground` | `AwaitedInForeground`, on `ListInv` and `WakeInv` | what `waitfg` waits for is in state `FG` or `ST`; when `waitfg` ends, `fgpid` has not answered its pid, so it is `ST`, or no longer listed, or another slot in state `FG` was found first |
| `ShellJobsChangeWithoutFg` | `NoFgInv` = `ForegroundInv`, `ListInv`, `JobsHaveStates` | a listed job has one of the three states, and `bg` and `sigchld_handler` write two of them |
| `ProxyMutexHeld` | itself, with the types of `mutex` and `pc` | each label inside the cache is entered by a `P` and left by a `V` |
| `ProxyCacheInv`, `ProxyCachedDoNotChange`, `ProxyIsRecencyCache` | `Inv /\ Total`: `Linked`, `Walking`, `FilledByOne`, `Asking`, `Total` | see below |
| `CsimIsSound`, `CsimIsLRU` | `SortedFrom`, `Recent` of every set, `CountsInv` | the valid blocks come last, each tag once; read upwards they are the tags from the last used, each the number of one block of memory in this set, so `sortSet` moves a tag to the front and the block before the first valid one is the free one; as many blocks are valid as there are tags, so a use changes the sum over all sets as it changes the counters |
| `CachelabRunsCsim` | the invariants of the two above | a run of the lab's programs is one of `csim`, or leaves its state alone |
| `EveryPuzzleIsRight` | `Typed` | see below; when a function is tested its values do not matter, as all words are spoken of |
| `ScoreIsRight` | `Harness` = `Typed`, `Scored`, `InBounds` | `Scored` has the sums over the functions before `i`; an alarm leaves `k` where it was, so the next test must begin at 0 |
| `BoundariesAreTested` | `Harness` | a function is finished at the last tuple, and `k` has been every smaller number |
| `NothingIsCutOff` | `Typed` | an option's argument is 0 before it is taken, or the number is refused |
| `TransposesCopyOnce`, `TransposesGraded` | `TransInv`: `RunInv`, `GradeInv` | see below |
| `RioIsSound`, `RioIsByteStream` | `CallInv` | the bytes a call has stored are those it counts, and `rio_readlineb` has seen no newline while it goes on |
| `MdriverHeapIsSound`, `MdriverPayloadsKept` | `DriverInv`: `HeapHolds`, `Filled`, the legal trace | see below |
| `MdriverBestFit`, `MdriverAlarmsAreExplained` | `DriverInv` | `Answered`: what a call gives, or why it fails, is said of the heap it found; a block that `mm_realloc` moved holds what it held (`KeptIn`), so the driver's comparison fails for a high id only |
| `MdriverPlaysAlike` | `DriverInv`, `PlayInv` | lockstep with a record of the first play (below) |
| `MdriverKnowsBlocks` | `DriverInv`, `Counted` | a block that is given is apart from the ranges of all others, so `add_range` finds nothing; the blocks held lie one behind the other, so the sum of their sizes is below the end of the heap |
| `TinyIsClean` | what is open, forked and mapped at each place of `main`, `doit` and the helpers | a `close`, `wait` or `munmap` is on every way back to `accept` |
| `TinyWellFormed`, `TinyLengthKept`, `TinyOwnAnswer` | `AnswerInv` = `MailInv`, `DoitInv`, `ServedInv`, `GotInv` | see below |

**The list is true** (`ShellListIsTrue`). What a handler knows must hold until it acts on
it. SIGCHLD is blocked while its handler is active and from `fork` to `addjob`
(`ChldMasked`), so handlers above a SIGCHLD handler are key handlers; they start no child
and reap none, so a pid that `waitpid` reported as dead is free, and one it reported as
stopped is not, until the list has been changed (`FramesTrue`). Whether it still is stopped
is not known: somebody may have continued it. `JobsInv` then relates list and children, and
that a job in the foreground runs once the signals are handled is `WakeInv` again (below).
That every child is listed needs room: `RoomForAll` says that there are no more children
than slots, and that a free slot is found is the pigeonhole principle. Without room a child
is lost and the shell may crash (see the findings), so `RoomForAll` is the theorem's
hypothesis. The other parts of `ListInv` need no room, and neither do the three theorems
that build on it.

**No wake-up is lost** (`ShellSleepsForLiveJob`). `waitfg` comes back to its test with
SIGCHLD blocked, whatever handlers interrupted it (`WaitMasked`); a foreground
job that is stopped has not been reported by `waitpid` yet, or a handler is about to write
`ST` (`Fresh`); this also holds for the job that `addjob` or `fg` is about to put in
the foreground, since nobody reports anything between (`NextFresh`), and what sleeps,
sleeps for a job on the list in state `FG` (`SleepsForFg`). When no SIGCHLD is
pending and no handler is active, `waitpid` has nothing to report, so the job runs.

Three theorems have `NoFg` as their hypothesis, that `fg` is not among the commands:
`ShellForegroundIsWaitedFor`, `ShellAtMostOneFG` and `ShellJobsChangeWithoutFg`. With `fg` they
are false: run `shell_twofg`. `ShellWaitsForForeground` has no such hypothesis, and an exception
instead: a cleared slot in state `FG`, which only `fg` leaves behind, can make `fgpid` answer
another pid than the one waited for, and the prompt comes back at once.

**The linked list** (`ProxyCacheInv`, `ProxyIsRecencyCache`). `Linked` says that the
pointers from the root form a path: a finite sequence of different objects that ends
with NULL and holds allocated memory only. `Nth`, `Cached`, `newer` and the size of
the list are read off the path, so what the pointer writes of `fetch_object` (three),
`insert_object` (two) and `remove_object` (one) do to a path is three lemmas about functions:
`ToHeadPath`, `AtHeadPath`, `WithoutLastPath`. They need to know where the thread's `p` and
`q` are: `Walking` says that they are two neighbours of the path, and that
`fetch_object` has passed no object of its URL. This survives the steps of other
threads because of `MutexHeld`, and those of threads that fill an object outside the
semaphore because of `FilledByOne`. `Asking` says that a URL is known where it is stored,
and `Total` that `cachep->size` is the sum and within the bound.

**The heap** (`MdriverHeapIsSound`). `TagsAgree` and `ListsHoldFree` hold between calls; a
routine breaks both at one place at a time. `HeapAt(m, brk, S, lo, h)` says of a memory what
they say, but of all except the `h` bytes from `lo` on, the hole: the addresses in `S` are
the begins of blocks without gap or overlap (`Walls`), every header knows its
neighbour and every footer its header, no two free blocks are neighbours (`Tags`), and
the lists hold the free blocks, linked both ways, with a rank that goes up along each list,
so that none is a circle (`Linked`). A free block opens to a hole when `unjoin` takes it off its
list (`OpenFree`), an allocated one when it is freed or moved (`OpenUsed`); the hole
takes in the block in front or behind (`WidenDown`, `WidenUp`), is cut (`Narrow`), and closes to
an allocated block (`CloseUsed`) or, by `join`, to a free one (`CloseFree`). `coalesce`, `mm_free`,
`place`, `extend_heap`, `mm_malloc`, the three ways of `mm_realloc` and `mm_init` are chains of
these. Each also says which blocks are in use afterwards (`Used`) and that no word of another
one has changed (`Spares`); nothing inside a hole is seen from outside (`HoleWritten`).
`Heap` and `Listed` are walks: that they reach all blocks, each once, needs that a walk exists at
all (`WalkExists`), that each step goes at least 16 bytes on (`WalkEnds`), and that a list's rank
goes up (`ListedOnce`). The lists are ordered by class, so that a best fit within the first
class that has one is a best fit (`ClassGrows`).

`DriverInv` adds who holds what. `HeapHolds` says that the blocks held are those in use, each once
and large enough; `Filled` that the data is in them; of the driver, that its ranges are theirs,
and that the trace is one that a program may make, so that each request of a replay finds a
block where the first play found one. `mm_realloc`'s move down is the hardest: the payload
is copied upwards over the old tags and links of the free block, which must be off its list by
then, and the rest must not be made a block before the copy is done (`MovesDown`).

The theorems about the allocator have `SizesFit` as their hypothesis: no size of a request is
within 11 bytes of the top of `size_t`. Without it `ADJUST` (266) wraps and `mm_malloc` gives out a
block that is too small.

**Replays** (`MdriverPlaysAlike`). A property of two runs: the first play and a later one, from
memory with other garbage and with none of the data written (`eval_mm_speed`). `PlayInv` says that
there is a record of the first play, the state of the heap after each request (`Recorded`),
and that a replay is at a state that has the same end, the same blocks held, and a memory that
agrees with the recorded one (`Agree`) in every word that is known, which is one that the
allocator has written: data and garbage are negative, the allocator's words are not.
Every routine reads known words only and does the same to both (`PutAgrees` up to
`ReallocAgrees`): headers always, footers and links of free blocks (`HeapKnown`), and nothing
inside a hole but the tag it was given (`HoleKnown`, `FreeTold`, `HoleSplit`, `HoleLowered`). The
record begins as every play does, because `mm_init` writes each of the ten words that
`mem_reset_brk` leaves (`RestartsAlike`); a request that is checked makes it longer
(`CheckRecords`), and one that is played again finds its result in it (`PlayedAlike`).

**Whose answer** (`TinyWellFormed`, `TinyLengthKept`, `TinyOwnAnswer`). A response is
written by up to three pieces of code, `serve_static` or `serve_dynamic`, then the child, in
two processes. `ServedInv` says what the client that is served has got at each place of
`doit`, as one equation (`HasWith`): what it got, followed by what `Rio_writen` has yet to
write, is the header, or the header and the pages, of the file in `filename` and of the size
in `sbuf`, and not of what the file is now. `Rio_writen` moves a unit from one side to the
other and changes nothing in the sum (`UnitMoves`), so it needs no case of its own. `Parsed`
says that the locals are those of this request, if its line has at least two words:
`parse_uri` sets all of them on each way that goes on. Of a line with fewer it says that
there is no other way on than with an empty line or a bare `GET`; there `uri` is not the
client's. `MailInv` says that a client connects once, that the backlog has no client twice
and that who waits has heard nothing: so the served client's first unit is the first of its
own response, and a client that was served is never written to again. `GotInv` then has
`Begun` at any time and `Whole` after the `close`, and the three properties follow from
these (`AnswerImplies`). `TinyWellFormed` has the hypothesis `ProgramsRun`: no program of
the site is an empty file at the start. With one, `execve` fails although nothing changed,
and the child sends the log.

**Every element once** (`TransposesCopyOnce`, `TransposesGraded`). `IsTiling` says of a
function that its tiles cover the matrix and no two have an element in common. It is shown
of the plain scan, and of the three submissions by giving the tile of row `n` and column
`m`: `4(n/8) + m/8` for 32 columns, `8(n/8) + m/8` for 61, `32(n/8) + 4(m/8)` and the part
of the block for 64 (`Tiling32`, `Tiling61`, `Tiling64`). `CopyTile` is a recursive
function, which has a value since a run of its two loops exists (`RunExists`); `PlaceOf`
numbers the elements of a tile in the order of the loops (`PlaceIs`). Then `Holds(c, D)`
says of the memory and the counters that exactly the elements of `D` have been copied: one
element adds one to `D` (`CopyElementHolds`), a tile its elements (`CopyTileHolds`), and
after the last tile the result is valid (`TilingIsValid`). With 32 or 64 columns and a
number of rows that 8 does not divide, the last tiles reach beyond the matrix. `Spoilt`
says where this shows: row `N`, column 0 of A is nothing, and its cell of B is the one of
row 0, column 1, which was copied before (`CopyTileSpoils`), so that `validate` fails for
every such size. `GradeInv` is what is left of the functions that have returned.
`TransposesGraded` has the hypothesis that the submission is registered
(`SubmissionRegistered`), as `registerFunctions` does.

**Every puzzle is right** (`EveryPuzzleIsRight`). The provers know nothing of `^`. That a
power of two is twice the one before follows from the number of subsets of a set
(`PowerStep`), and from it what powers do to quotients and sums. A word is then a set of
bits: a number below `2^n` has the bits of its set, and is the only one that has
(`NumberBits`, `SameBits`), so that `&`, `|`, `^^`, `~` and the three shifts are facts about
sets (`Operators`, `ComplementBits`, `RightBits`, `PowerOf`). Each puzzle on integers
has a lemma of its own: `bitXor` and `conditional` are equalities of sets, `negate`,
`isAsciiDigit` and `isLessOrEqual` cases of the signs of what overflows. `logicalNeg` and
`allOddBits` fold a word in halves: after each round a bit is set if all bits at a distance of
less than the power so far, or of the same parity, were (`AndShiftedIs`), for 3, 4 or
5 rounds. `howManyBits` keeps its highest bit below the half it looks at next. A float is
the disjoint sum of sign, exponent and fraction (`FloatFields`, `FloatJoined`), and
`u2f` grows with the bits of the magnitude (`ValuesGrow`), so that `f2u` undoes it
(`ValueBack`) and what is to be shown of the three float puzzles is a fact about exact
numbers. In `test_floatPower2` the exponents that square and multiply have left are
saturated (`SatProduct`), so that a product that went through infinity is still
the right one (`PowerLoopIs`). Of `floatScale2` the theorem excepts the floats that become
a NaN (see the findings), and of `conditional` the lemma has all triples (`ConditionalRight`),
where `PuzzlesRight` takes two of the words from the corners.

**What the harness tests** (`ScoreIsRight`, `BoundariesAreTested`). The values are pieces put
one behind the other by `FlattenSeq`, whose length and elements `FlattenIs` has for
any number of pieces of one length; so they fit into the arrays (`FloatValsAre`, `IntegerValsAre`),
also when all words are taken: then `2^W` is at most `13 * TEST_RANGE + 1`, and it is
not one more than the array has, because 13 divides none of `2^8 - 1`, `2^16 - 1` and
`2^32 - 1`. That the loops reach each combination of boundary values is that a number is
found from its digits, the lengths being the bases (`MixedRadix`, `TupleExists`).

Each proof has a lemma per group of actions and a step per action. `addjobSpec`,
`deletejobSpec`, `fgpidSpec`, `getjobpidSpec` and `maxjidSpec` say what the list
helpers return, `getBlockFinds`, `sortSetMoves` and `updateSetUses` what those of the
simulator do, and are what the actions' proofs cite.

Two sums are proved about without induction: `MapThenSumSet` is a recursion that has a
solution on every finite set (`AddsExists`), and a least counterexample shows that its
value does not depend on the order in which `CHOOSE` takes the elements (`SumTakesOff`).

Model-checked only: the liveness properties (temporal proofs with fairness and
ENABLED are out of the prover's reach), and how many misses a transpose has
(`TileStaysCached`), which is a fact about particular addresses. Every invariant that a run
checks, and every other property of steps, is a theorem too.

## Findings

- **A second job in the foreground** (`shell_twofg`). `fg` looks its job up with
  SIGCHLD deliverable (`tsh.c` 313-332) and writes `FG` at 342. If the job is
  reaped in between, the cleared slot becomes `FG`, against the comment "At most 1
  job can be in the FG state" (35).
- **Freed memory sent to a client** (`proxy_freed`). A hit is written to the client
  after `fetch_object` gave the semaphore back (`proxy.c` 106); the object may be
  evicted, freed and filled for another URL meanwhile.

Seen in the models, without a run of their own:

- With more children than slots, a child that is not listed and stops makes
  `sigchld_handler` write `job->state` through NULL (395): `NeverCrashes` fails with two
  children on one slot.
- `fg %jid` reads the pid of a slot (321) that was cleared after `getjobjid`: it waits for
  pid 0, which is what `fgpid` then answers. `WaitfgEnds` fails with the command `fg %jid`.
- `floatScale2` turns every float with the largest exponent and a fraction into a NaN,
  where 2*f is infinity (`bits.c` 323). Its tests do not see it: they stop at the
  largest power of two (`btest.c` 144), which they call the largest normalized number (137).
- A request line that is empty or a bare `GET` is answered from the `uri` that an earlier
  request left on the stack (`tiny.c` 63): the client may get the page that another client asked
  for. `OwnAnswer` excepts these two lines, and says that no other gets such a page.
- A SIGCONT from outside the shell sets a stopped job going, and the list goes on to
  call it stopped ("ST (stopped)", `tsh.c` 29), because `sigchld_handler` does not ask `waitpid`
  about it (384). `ListIsTrue` says nothing of what is listed as `ST`.
- A background job that is sent a SIGSTOP goes from `BG` to `ST` (394-395), which the comment
  on job states (31-34) does not draw. `TransitionsWithoutFg` has it as a third change.
- For an id whose low byte is at least 128, `eval_mm_valid` compares a signed `char` with a
  number it cannot hold (`mdriver.c` 656) and reports that `mm_realloc` did not preserve the data,
  although it did: 648 says that the loop makes "sure that the new block contains the data from
  the old block". `AlarmsAreExplained` names this alarm as the only one without a reason.
- A program that `execve` cannot start any more sends its copy of Tiny's log to the
  client (`tiny.c` 212), when the log is not a terminal's.
- Two `add_range`s do not see that a payload encloses an older one (`mdriver.c` 381).

And, where the repository states nothing that they contradict: `bg` continues a job (335)
and then writes `BG` (336), and a stop in between is overwritten, so that a stopped job
is listed as running; after the wrap-around two jobs can have one job ID; a key
typed before the child's `setpgid` and `execve` is lost; `sigint_handler` may kill a
group that is gone; `MAXJID` (20) is not used; `bg` continues one process and `fg` a group.
One broken connection ends the proxy's process; a client that closes before the end
of its headers leaves a thread spinning; `obj` and `clientfd` leak on early returns.
`ADJUST` wraps near the largest `size_t`. With `E = 0` the simulator reads past a set.

## Mutants

Each property of a passing run has a mutant: an operator with the comment
`Mutant` beside the definition it replaces, which changes it as a plausible
mistake would. Under the mutant TLC finds the property violated in the same run.

## Plan

The order was: job list and shell; object cache and proxy; buffered I/O; cache simulator;
allocator; then Tiny, the transposes, the puzzles and the programs that grade them;
then the proofs about the shell's list, its refinement, its keys and its wake-ups, about
the simulator, the buffered reads, Tiny and the proxy's list; then the allocator
with its driver; then whose answer is whose in Tiny, and
the tiles of the transposes; last the puzzles and their harness, and that replays are
alike. What is left is under Not modelled.

## Not modelled

- **Text.** `parseline` is reduced to the command it recognises; command lines kept
  in jobs, headers, URLs, logs and everything printed are left out unless a property is
  about them. `listjobs`, `usage` and the texts of the error wrappers only print.
- **Of `csapp.c`**: `rio_readn`, the `sio_` routines, and the wrappers that only report an
  error. `Rio` has the short and interrupted reads and writes; `Proxy` and `Tiny` take
  a line or a block as a unit. A failing `close` or `getnameinfo` is left out.
- **Of `mm.c`**: what other `#define`s would select (other policies of fit and of the
  lists); `mm_check` is stated as invariants instead.
- **Of the drivers**: the runs of libc's `malloc` (`eval_libc_*`), the timers that `config.h`
  does not select (`fcyc.c`, `clock.c`), reading the trace files, running valgrind, and the
  scripts in Python, Perl and shell: they measure or print.
- **Signals** other than the five the shell handles or sends. A job is one process.
- **`list.c`** of the boot camp: four list operations without state of their own, which
  its own `main` exercises.
- The homework programs, `bomb.c` and `farm.c` (puzzles about machine code), and the
  lecture material are not parts of a system.
