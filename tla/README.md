# A TLA+ development of the gitSTY1 systems programming labs

The repository holds five independent families of C programs: a shell
(`shlab`), two memory allocators with their test driver (`malloclab`), a cache
simulator and blocked matrix transposes with their evaluation (`cachelab`), a
concurrent web proxy with its I/O library and a small server (`proxylab`), and
a kernel module (`kernellab`). They share no state; each is modelled on its
own. This project has TLA+ modules of all five, TLC configurations that check
them on small instances, and TLAPS proofs of the safety of the shell, both
allocators and their driver, the measurement, the cache simulator, the
transposes, the proxy's threads, request and relay loop, Tiny and the kernel
module for every value of their constants.

Run `tlc -config X.cfg M` for the pairs listed under *Runs*, and `tlapm M.tla`
on the modules listed under *Proofs*.

## Inventory

| Part | State | Operations | Interaction | What is hard |
|---|---|---|---|---|
| `shlab/tsh.c` | job table `jobs`, `nextjid`, `errno`, locals of `eval`, signal mask | `eval`, `waitfg`, `addjob`, `deletejob`, lookups, three signal handlers | handlers interrupt the main flow and one another; children change state in the kernel and raise SIGCHLD | every interleaving of handlers with `eval`; collapsing signals; stale `errno` and pids; full table; reuse of job IDs |
| `malloclab/mm-firstfit.c` | the words of the heap, the break | `mm_init`, `mm_malloc`, `mm_free`, `mm_realloc`, `coalesce`, `place`, `extend_heap` | called by `mdriver.c`, calls `mem_sbrk` of `memlib.c` | tags read long after they were written; boundary cases of split and merge; out of memory |
| `malloclab/mm.c` (`mm2.c` is the same file) | the heap and the sorted explicit free list in it | `mm_malloc`, `mm_free`, `mm_realloc`, `add_free_block`, `remove_free_block`, `find_fit` | as above | four cases each of insertion and removal; links that are never initialised; sizes with and without overhead |
| `malloclab/memlib.c` | the memory, the break | `mem_sbrk`, `mem_reset_brk` | called by the allocators and the driver | the limit; memory that a reset does not clear |
| `malloclab/mdriver.c` | the trace with its blocks, the range list of live payloads, errors | `main`'s loop, `eval_mm_valid`, `eval_mm_util`, `eval_mm_speed`, `add_range`, `remove_range` | the caller of the allocators | the same trace replayed on dirty memory; ranges that must follow the payloads |
| `malloclab/fcyc.c`, `clock.c` | the k best samples, the cache buffer, five parameters; the counter at the start of a measurement | `fcyc`, `add_sample`, `has_converged`, `clear`, the setters; `start_counter`, `get_counter`, the compensated pair | the timer interrupts between any two steps; `fcyc` calls the counters | words that wrap; a parameter that changes while a buffer of the old size is kept; samples that include interrupts |
| `cachelab/csim.c` | its parameters, lines with age, three counters | `parse_arguments`, the replay loop, `check_cache` | reads a trace | parameters left unset; ages that are not unique; counters that must agree with the content |
| `cachelab/trans.c` | none | `transpose_submit`, `transpose_blocking`, `transpose_64M`, `trans` | called by `tracegen` | index arithmetic at the borders of blocks |
| `cachelab/test-trans.c`, `tracegen.c`, `cachelab.c` | list of functions, `.csim_results`, results | `eval_perf`, `validate`, `printSummary` | runs `tracegen` under valgrind, `csim-ref` on its trace | a file that a program which failed did not rewrite |
| `proxylab/proxy.c` | ring of thread arguments, descriptors, two mutexes, log | main loop, `doit`, `parse_uri`, `get_filetype`, `open_clientfd_ts`, `format_log_entry` | one thread per connection | shared static results of libc; reuse of descriptors and of ring records; early returns with a lock or a descriptor; header lines that arrive in pieces, uris without an end |
| `proxylab/csapp.c` | the rio buffer | `rio_read`, `rio_readlineb`, `rio_readn`, `rio_writen`, wrappers | called by the proxy and by tiny | short counts, end of file, errors that end the process |
| `proxylab/tiny.c` | descriptors, the name left in `pathname` | `main`'s loop, `doit`, `parse_uri`, `serve_static`, `clienterror` | one client after the other; files change under it | a file that changes between `stat` and the copy; a stale name; a request that never ends |
| `proxylab/proxy-latest.c`, `proxy-old.c`, `proxy_thread_test.c` | | earlier versions of the proxy | | |
| `kernellab/kernellab.c`, `request-pid.c` | the kobject and its two attributes; a message and a `pid_info` per call | `kernellab_init`, `kernellab_exit`, `kcurrent_write`, `pid_write`; the program that writes the attributes and prints the answer | a call walks the kernel's task list while processes start and end | a task that is freed under the walk; every failing allocation or copy; an address passed as an `int` |

What makes each correct:

* the shell: its job list is the set of children it has not collected; one job
  is in the foreground at most; `waitfg` returns when, and only when, its
  child is reported; keys reach the foreground job alone;
* the allocators: payloads are disjoint, aligned, inside the heap and keep the
  caller's data; the heap stays a sequence of consistent blocks; freed memory
  can be found again;
* the driver: it accepts a correct allocator, and what it measures is what it
  has checked;
* the cache simulator: it counts what an LRU cache of that geometry does;
* the transposes: B becomes the transpose of A, with few misses where it counts,
  and test-trans reports what happened;
* the proxy: each thread works on its own connection, leaks nothing, never
  waits for ever, connects to the host its request names, forwards the response
  as it is, logs each request once with its own time;
* Tiny: a whole file or none, the one that was asked for;
* the measurement: a sample is the cycles the function took, wherever the words
  of the counter wrap, and the result is the smallest of the samples that agree;
* the kernel module: a caller is told about the process it asked for, and every
  way out frees what the call has allocated.

`PROJECT.json` lists, under `hazards`, each place where one of these could go
wrong in a way that a test would hardly reach.

## Modules

**Shell.** `TshJobs` has the job table and its operations as operators on the
table (`addjob`, `deletejob`, `fgpid`, `maxjid`, ...). `Tsh` is the program: the main
flow is the variable `pc` with one action per call of `eval` and `waitfg` that
a signal can separate from the next one; each handler has a frame (`handler`)
and a nesting depth (`nest`), because a handler may be interrupted by a signal
of another kind. The kernel's part (`proc`, `pending`, `collected`) is
modelled from how the code uses fork, waitpid, kill and sigprocmask, and
marked external. `JobControl` states what the user sees: a set of jobs with
states, one in the foreground. `TshRefines` has the refinement mapping.

**Cache lab.** `Csim` has the geometry, `check_cache` as the actions `Hit`,
`Fill` and `Evict`, and the replay loop; `lastUse` is a history variable that no
action reads. `LruCache` is the reference: a set of tags per cache set with the
times of their last use. `CsimArguments` is `parse_arguments`, one word of the
command line per step. `Transpose` has each transpose function as the sequence
of its moves, and `eval_perf` with what it starts: `tracegen` makes the moves
and validates, the simulator replays their accesses, `.csim_results` carries
the result. `MCCachelab` composes the three programs: a behaviour is of one of
them.

**Allocators.** `BoundaryTags` has the macros on the words of the heap (sizes
and addresses in words of four bytes) and the record `heap` of the memory, the
break and the ends of the free list. `MmFirstFit` and `MmExplicit` are the two
allocators: their routines are operators from a heap and arguments to the heap
after the call and the pointer returned, so that both the free caller and the
driver can use them. The free caller allocates, fills, frees and (first fit)
reallocates; its actions are in `MmFirstFit` itself and, for `mm.c`, in `MmCaller`,
with the invariant `MmIInv` of the list and the blocks. `MmRealloc` adds
`mm_realloc` of `mm.c`. `Allocator` is the abstract specification: regions with data, disjoint and
aligned. Both allocators map to it: the data of each region is read from the
concrete memory, so the implementation holds only if tags and links never touch
a payload.
`Mdriver` is the driver with either allocator linked to it: `main` over the
traces, each trace checked, measured and timed, with the memory as the pass
before has left it. Traces are what `read_trace` can leave, and are chosen as
the driver goes. `Clock` has the counters of `clock.c` as words of `WORD` values
and the timer's interrupts, `Fcyc` the measurement on top of them, one step per
call, with the setters between two measurements. `MCMalloclab` composes both
allocators, `Mdriver` and `Fcyc`; a behaviour is of one of them.

**Proxy lab.** `Proxy` has the main thread and one thread per connection. Descriptors
are numbers that the kernel hands out lowest first and reuses at once;
`hostent` and `tm` are the static results of `gethostbyname` and `localtime`.
`Request` is what a thread does before it connects: it reads the request line and
the header in the pieces that `rio_readlineb` makes of them, splits the uri and
collects `client_message`. A uri is made of parts, so that what `parse_uri` finds
can be compared with what the client meant. `Relay` is what a thread does
afterwards: the loops that read a response through
the buffer of `csapp.c` and write it to the client, byte by byte, with every
short count. Both are one step in `Proxy`, and both take from `Csapp` the limit that
`rio_readlineb` puts on a piece of a line. `Tiny` is the server: one step per
call that can fail or wait, with files that change in between. `MCWeb` composes
`Request`, `Relay` and `Tiny`, a behaviour being of one of them.

**Kernel lab.** `Kernellab` has the module with its attributes, the callers of
`request-pid` and the kernel's task list, in which processes start, end and have
their structs used again. A call is a record that goes through `pid_write` one
allocation, copy, read of a task or free at a time. `kmalloc`, the task list and
`sysfs` are external.

`MCTsh` and `MCCsim` add what TLC needs: symmetry sets and address sets. The
modules named `...Proofs` and `NatLemmas` have theorems only.

Abstracted away: text of commands, of requests and log entries, and all output.
Outcomes of parsing that change the control are choices. `map` in `PROJECT.json`
gives the source lines of every definition. An operator whose comment starts
with "Mutant" is a plausible bug of the definition below it; no specification
uses it, `mutants` in `PROJECT.json` names the property that finds it.

## Runs

| Run | Question | Bounds |
|---|---|---|
| `tsh_safety` | Does the job list match the kernel, with one foreground job, through every interleaving of signals? | 2 slots, 3 process IDs (so that the table can be full), job IDs up to 2 before no new command is read, 1 key press or SIGCONT; process IDs are symmetric |
| `tsh_live` | Is every zombie reaped, does the prompt return, and does the shell implement `JobControl`? | 2 process IDs, no symmetry |
| `tsh_waitpid` | *violated*: the SIGCHLD handler exits the shell on a stale `errno` | 2 process IDs |
| `cachelab` | Does the simulator count as an LRU cache does, does it notice missing flags, which functions are transposes and what do they cost? | 2 sets of 2 lines, 16 addresses with 4 tags, 5 accesses; command lines of up to 9 words after the name; the three sizes of `driver.py` and 8x8, 6x8, 12x6 |
| `csim_lru3` | *violated*: with 3 lines per set the line evicted need not be the least recently used | 1 set of 3 lines, 4 tags, 6 accesses |
| `malloclab` | Do both allocators keep the caller's data, are blocks merged, or the free list sorted and complete and the fit the best one; does the driver blame either allocator only for a lack of memory, and do the later passes repeat the check; is a sample what the function took? | heap of 32 words, chunk of 8; requests of 0, 8, 12 and 24 bytes by any caller, of 8, 24 and 48 in 2 traces of up to 3 operations, each timed twice; words of 4 values, so that both wrap, 2 interrupts of 2 cycles, up to 4 samples with k of 1 and 2, 2 measurements with other parameters |
| `mm_realloc` | *violated*: after `mm_realloc` payloads overlap | heap of 30 words |
| `proxy` | Do threads keep to their connections, release what they hold and finish? | 3 connections, ring of 2 records, 4 descriptors (so that they run out) |
| `proxy_host` | *violated*: a thread connects to another thread's host | 2 connections |
| `web` | Is a uri split into its parts and the header passed on; does a response reach the client in order through every split of it; does Tiny send whole files; and do all three come to an end? | a line buffer of 4, so that pieces have up to 3 bytes, a message of 12, headers of up to 8 bytes in lines of any length; rio buffer of 2, responses of up to 6; 2 files of up to 2 pages, 2 connections |
| `relay_exact` | *violated*: a client is sent a byte that the server did not send | as `web`, responses of up to 3 |
| `kernellab` | Does every call free what it has allocated, and is it answered about the process it asked for? | 2 callers beside any third process, 3 pids, 3 task structs, so that a struct and a pid are used again under a walk |

The heap sizes leave room for three to five blocks with splits, remainders
that are too small to split, merging on both sides, and running out of memory;
a request of 0 makes `mm_malloc` refuse. The chunk of `MmFirstFit` is 8 words
instead of 1024, so that the heap grows both by the chunk and by the request.
The data that the caller writes (`Fills`) is a number that is neither a size
nor an address of the small heap: a tag that a payload overwrites leads the
walk out of its blocks. The bounds of the shell reach a full table, three
children at once, nested handlers and the wrap of `nextjid`; those of the proxy
reach a record of the ring in use again, descriptors in use again, and none
left; those of the relay lines that are cut by either buffer. A step of
`Transpose` makes `BATCH` moves or accesses, between which nothing looks. A
command line has four pairs of words: four flags with a value, some of them
repeated or missing; the word after them is a flag without a value or another.
`JidBound`, `EventBound`, `AccessBound`, `OpBound`, `ResponseBound`,
`HeaderBound`, `TickBound`, `CALLS` and `CONNECTIONS` are bounds of the models;
`MAXJOBS`, `MAXTHREADS`, `DESCRIPTORS`, `CHUNKSIZE`, `MAX_HEAP`, `MAXLINE`,
`MAXBUF`, `RIO_BUFSIZE`, `WORD` and
`REPEATS` are constants of the programs and the machine, made small. The boot
value of the counter is chosen so that the low word, and then both, wrap within
a measurement.

The proxy and web runs allow deadlock: when the connections of the model are used up,
the main thread waits in `accept` for ever, as the real one does when no
client comes, and a response that has been relayed is the end of its model.
The other systems stop only in states that say so (`exit`, `state`, `outcome`,
`pc`) and stutter there; `mm_realloc` stops where a payload has
destroyed a tag, which is beyond what the model can say.

**Fairness.** The shell (`Fairness` in `Tsh`): the processor runs whichever of
main flow and handlers has it, a pending signal that is not blocked is
delivered, and a forked child reaches its program. No fairness is assumed of
the user's keys, of the ends and stops of programs, or of new commands. The proxy: weak
fairness of each thread, which the scheduler gives; it includes that a client
sends its request or closes and that an origin server ends its response,
without which a thread waits in `read` as long as the peer likes. A mutex is
taken under weak fairness only: in the bounded model no thread takes it again
and again. `Request`, `Relay` and `Tiny` are sequential: the steps that the program
and its peers take (`Reads`, `Goes`, `Serves`) are fair, failures, broken
connections, clients that leave a request unfinished and changes of files are
not. No property of the allocators, the measurement or the kernel module needs
fairness.

## What the checks show

* The blocking of SIGCHLD from before `fork` until after `addjob` is enough:
  the table and the kernel agree at all times, with a full table as the only
  exception, and the abstract `JobControl` is implemented.
* `sigchld_handler` reads `errno` after a `waitpid` that returned 0 and did not
  set it. If an earlier call left ECHILD the handler breaks off as intended,
  otherwise the shell exits with "waitpid error" while a child still runs.
* The cache simulator is an LRU cache for one and two lines per set, which is
  proved; for three and more it is not, because a hit ages only the lines
  before it. It still never evicts the line just used, for any number of lines.
* `parse_arguments` counts flags, not different ones: four flags of which one is
  repeated pass, and a parameter of the cache is whatever the stack held.
* The submission transposes the three sizes it knows and no other;
  `transpose_blocking` is right only when N is a multiple of 4: otherwise its
  last blocks reach over the rows of B and overwrite the start of the next ones;
  `transpose_64M` is never a transpose. The strips bring the misses of the
  square matrices under the limits of `driver.py`. If `csim-ref` does not run,
  test-trans reports the misses that an earlier run left in `.csim_results`.
* `mm-firstfit.c` merges completely, wastes at most two words per block and
  never mixes payloads; `mm_realloc` there copies what it must.
* `mm.c` keeps its free list sorted and complete and its fit is the best one.
  Its `coalesce` never merges, and a remainder of two words is lost to the block
  and to the list; neither hurts a payload. Its `mm_realloc` compares the
  payload's size with the block's and returns payloads that overlap.
* The driver finds no fault with either allocator but a lack of memory, and each
  later pass gets the same pointers as the check, although the memory keeps the
  tags and links of the pass before.
* A sample of `clock.c` is exact on i386 wherever the two words wrap; on the
  Alpha, where the program sees one word, only while that word does not. With
  compensation it is at most what the function took, and too small by no more
  than the interrupts that were subtracted although they came just before or
  after. `fcyc` returns the smallest sample and stops as soon as k of them agree;
  its buffer always has the size that was set.
* `parse_uri` of the proxy finds host, port and path of every `http` uri but a
  host that nothing follows, which crashes the proxy; other uris have no host.
  The header reaches the server whole, unless a line is two bytes longer than
  a multiple of the buffer: its last piece looks like the empty line, and the
  lines after it are dropped. A client that ends its request early makes the
  loop append its last line until it writes past `client_message`.
* The proxy's threads are independent as long as each has read its argument
  record before the ring comes round; nothing enforces that (`late`). The copy
  of the `hostent` keeps the pointers to the shared one, so a thread may
  connect to another's host. A failed lookup leaves the mutex locked, but the
  same thread then closes descriptor -2, and the wrapper ends the process.
* No split of reads and writes loses or repeats a byte of a response, but
  `rio_readlineb` counts one byte too many for a line that ends at the end of
  the file or of the buffer, and the proxy sends that NUL and logs it.
* Tiny's body is as long as announced, whatever happens to the file, and the
  name that an earlier request left in `pathname` is never served. An empty
  file, a host without a name or a broken connection end the server; headers
  without an empty line make it spin; a relative uri gets no answer.
* `pid_write` frees both allocations on every way out but one: the message is
  lost when the second allocation fails. A caller is answered about the process
  it asked for, and told that there is none only if it was not there all the
  time, provided that no task ended while a walk stood on it: the list is
  walked without its lock, and then anything may be read, up to an oops. The
  address of the answer is sent as an `int`, which is right only where pointers
  fit in one (`wide`).

Seen in the models, with no run of their own: a stopped child is dropped from
the job list and is not tracked when it is continued; a foreground job that
the full table refused is not waited for; a background job that ends early is
printed with job ID 0; a key that is pressed before the child has its group is
lost or ends the shell; a blank line reaches `strcmp` as NULL; `deletejob` sets
`nextjid` to `maxjid+1` but `addjob` wraps it at `MAXJOBS`, so a live job's ID
can be handed out again; the driver's overlap test does not see a payload that
contains another one's range; requests other than GET keep their descriptor.

## Proofs

| Theorem | Module | States |
|---|---|---|
| `TypeCorrect`, `Invariance` | `TshProofs` | the type invariant and the inductive invariant `IInv` of the shell |
| `TableMatches`, `AtMostOneForeground`, `PromptFree` | `TshProofs` | the invariants that `tsh_safety` checks |
| `WaitfgWaitsForChild`, `BackgroundIsSafe`, `DeletionFreshens` | `TshProofs` | its action properties, from `IInv` |
| `RefinesJobControl` | `TshProofs` | the shell implements `JobControl`: initial states and every step map |
| `Invariance`, `HeapAlwaysTiles` | `MalloclabProofs` | the inductive invariant of `mm-firstfit.c`, and that its checker never complains and free blocks are merged, for any heap, chunk, requests and data |
| `RefinesAllocator` | `MalloclabProofs` | `mm-firstfit.c` implements `Allocator`: initial states and every step map |
| `MmInvariance`, `ListStaysSorted`, `ListServes` | `MmExplicitProofs` | the inductive invariant of `mm.c`, that its free list is sorted, linked both ways and apart from what the caller holds, and that it gives the best fit and drops no block |
| `MmRefinesAllocator` | `MmExplicitProofs` | `mm.c` implements `Allocator`: initial states and every step map |
| `DriverInvariance`, `OnlyMemory`, `AccountsAlwaysMatch` | `MmExplicitProofs` | the inductive invariant of `mdriver.c`; that its check never fails but for memory, and that its range list and totals are the live payloads, with either allocator, for any traces |
| `PassesRepeat` | `MmExplicitProofs` | that the later passes of the driver get the same pointers from a heap of the same size as its check, with either allocator, for any traces |
| `LabTypes` | `MmExplicitProofs` | the types of each program of the malloc lab |
| `SamplesAreRight`, `BestAreKept` | `MalloclabProofs` | what a sample of `fcyc.c` is worth, for any word, cost and timer; which samples it keeps and when it stops, for any K and tolerance |
| `Invariance`, `LinesAreSets`, `MissesAccount`, `StoresHit`, `MostRecentSurvives` | `CsimProofs` | the inductive invariant of the simulator, its parts and what follows from it, for every geometry and trace |
| `LruUpToTwo` | `CsimProofs` | with one or two lines per set `Csim` implements `LruCache`: initial states and every step map |
| `VerdictsAreRight` | `CsimProofs` | which functions of `trans.c` are transposes, and that `test-trans` finds out, for matrices of any size |
| `SetOrRepeated` | `CsimProofs` | what `parse_arguments` has set when the simulation begins, for any command line |
| `Invariance`, `TypesHold`, `DescriptorsAreOwn`, `OnlyRefusalsLeak`, `LogHasAll` | `ProxyProofs` | the inductive invariant of the proxy's threads and the three invariants that `proxy` checks |
| `TypesAlways` | `WebProofs` | the types of `Request`, `Relay` and `Tiny` |
| `Invariance`, `NulsAtCuts`, `ImagesArrive`, `AllIsForwarded` | `WebProofs` | where the relay adds a NUL, that images and their sizes are exact, and that nothing else is lost, added or exchanged, for any buffers and responses |
| `UriIsTakenApart`, `RequestIsForwarded` | `WebProofs` | what `parse_uri` finds; what of the client's header the server is sent, for any line buffer and any header |
| `WholeFiles` | `WebProofs` | `WholeFileOrNone` of Tiny, for any uris, files and number of connections |
| `KernellabInvariant`, `MemoryIsAccounted` | `KernellabProofs` | the types and the account of the module's memory |
| `AnswersAreRightAlways` | `KernellabProofs` | `AnswersAreRight`, for any callers, pids and task structs |

They hold for every value of the constants that satisfies the named assumptions
(`TshAssumption`, `JobsAssumption` of the job table, `MmAssumption`, `CsimAssumption`,
`ArgumentsAssumption` of the command line, `ClockAssumption`, `FcycAssumption`,
`SizesAssumption` of the matrices, `ProxyAssumption`, `LineAssumption`,
`RelayAssumption`, `TinyAssumption` and `KernellabAssumption`). A component that
a composition holds as an instance is proved about in the composition:
`MmExplicitProofs` extends `MCMalloclab`, `CsimProofs` `MCCachelab` and
`WebProofs` `MCWeb`. The arguments:

* *The shell's* invariant needs the windows in which
  SIGCHLD is blocked (`BlockedWindow`), what each handler frame may hold
  (`FramesMatchNest`, `KeyTargets`), that a pid is in one slot and that the
  foreground slot is the one `eval` waits for; only together they are inductive. For the refinement the invariant is joined by
  `JobsAreJobs`: the handler deletes only whom it has collected. Then `Fork`,
  `addjob`, `waitpid` and `deletejob` are `Start`, `List`, `Collect` and
  `Unlist`, and every other step leaves jobs and children alone (`Silent`).
* *The first-fit allocator's* invariant is `Tiled`: the blocks begin at the
  prologue, each ends where the next one or the epilogue begins, both its tags
  agree, and none begins inside another. `HeapTiles` alone is not inductive: it
  looks at the walk and says nothing of a footer that no one reads yet. The
  walk itself, `ListFrom`, is shown to visit exactly such a set
  (`ListVisitsBlocks`), by least counterexamples: from the break downwards, a
  recursive function that refers upwards exists (`UpwardRecursion`) and has the
  blocks from there on. Each routine is then a replacement of the blocks
  between two of them (`Retiled`, `Merged`): `coalesce` by one block in all four
  cases (`Coalescing`), `place` by one or two (`Places`), `extend_heap` at the
  end (`Extends`). They say which words are kept (`Kept`), so that for the
  refinement only the words that the caller or `memcpy` writes are left
  (`WritesPayload`, `Reallocs`); `mm_realloc` may copy more than the old
  payload, up to its footer, but never beyond the new block.
* *The explicit list allocator's* invariant `MmIInv` has the list as a sequence of
  blocks (`Linked`) and the blocks, free or allocated, as a set in which each ends before
  the next begins (`BlocksOf`). They need not tile the heap, because a remainder of two
  words is in no block. `FreeListSorted` is not inductive: it does not say that
  the links lead from `root` along exactly the blocks that the links back lead along,
  nor that a block has room for both links. That `Walk`, a recursive function,
  exists and follows the sequence is shown by least counterexamples (`WalkExists`,
  `WalkVisits`), and that it finds the first block that is large enough (`FindFit`).
  The four cases of `add_free_block` are one insertion into the sequence (`Spliced`,
  `AddsBlock`), those of `remove_free_block` one removal (`Unspliced`,
  `RemovesBlock`): neither reads a link that was never set, and both write links
  of free blocks only. Tags are put into words of the block itself (`TagsBlock`),
  so every call keeps the words of the blocks it does not touch (`Keeps`); with
  that `Taken` and `Extended` become `Gives`, a call that returns a block `Got`
  and `mm_free` `Gave`, from which the action property and the refinement follow.
* The driver's invariant `DInv` rests on what either allocator promises to any
  caller (`Sound`): after a call the new region is disjoint from the old ones,
  the others keep their words, and NULL leaves all as it was. It says that the
  pointer and size tables, at the live indices of the trace, are what the package
  holds (`Owns`), and that a trace is one that `read_trace` leaves: every index is
  allocated before it is used and freed once. That a prefix of
  a trace has a table of sizes is a recursion, shown to exist by a least
  counterexample; the totals of `eval_mm_util` are partial sums over the indices
  (`SumIs`), and that the heap has room for them is a count of the words of
  disjoint payloads. The theorems hold for traces of any length whose
  sizes are whole words, any number of traces and of repetitions.
* That a later pass repeats the check (`PassesRepeat`) compares two runs of an
  allocator on different memory: the check marks the payloads, a later pass does
  not, and each starts from what the one before has left. `TInv` keeps the
  heaps of the check as a history (`Ran`) and says that the heap of a later pass
  is a twin of the one at the same operation (`Twins`): for `mm-firstfit.c` the
  same break and the same words outside of the payloads (`SameShape`), which is
  more than its routines look at; for `mm.c` the same list and the same sizes of the
  blocks (`Alike`), because its blocks may leave words between them and its tags
  are not all that its list depends on. Each call keeps that and returns the same
  pointer (`MallocsShape`, `ReallocsShape`, `AlikeMalloc`, ...), `mm_init`
  establishes it from any two memories, and marking a payload of one does not
  disturb it (`WrittenShape`, `AlikeFilled`).
* In `Csim` the key fact is `MostRecentIsYoung`: the line used last has
  age 0 and the valid lines before it have been aged since; of those behind it
  one knows only that they were used earlier. With two lines per set that
  decides the victim, which is the refinement; with three it does not.
* In `Proxy` the invariant says where each thread can stand and what it holds
  there (`Threads`), who holds the mutexes and what the log has (`LogInv`),
  which records of the ring belong to threads that have not read them (`Ring`),
  and whose each descriptor is (`Own`, `Held`). While no thread is late, two
  threads that have not read their records are less than a round apart, so
  their records differ (`SlotsDiffer`); that is where `late` comes from.
* In `Relay` the invariant follows the NULs: each ends a piece of full length
  without a newline, or the text, and then nothing is left to read. An image is
  at all times what has been written, what is in hand and what is to come; for
  a text the same holds of what has been written without its NULs (`Conserved`).
  `WithoutNuls` is defined by recursion along the text; that the recursion has a
  solution, and that it distributes over concatenation, are shown by least
  counterexamples (`UpToExists`, `WithoutNulsConcat`), not by the library's
  induction.
* In `Request` the invariant follows the place up to which the header has been
  read (`ReadSoFar`): while lines are cut, it is a multiple of `MAXLINE - 1`
  bytes behind the beginning of its line, so the piece that ends a line has two
  bytes just when the line has two bytes more than such a multiple, and these are CR
  NL because every newline comes after a CR. A client that has closed
  without an empty line never gets there (`ClosedEarly`).
* In `Fcyc` the invariant has the sampler as it was before each call of
  `add_sample`: the values kept are in order, every other one is no smaller, and
  counting the calls tells whether the loop should have stopped. For the counter
  one needs how residues of words borrow from each other (`ModDifference`), with
  a second word or without one.
* In `Transpose` the moves of a function are written down in closed form
  (`BlockMove`, `StripMoves`, ...). Moves that stay in the rows of B write only
  right elements, so that for a transpose it is enough that they cover B
  (`CoversAs`), in whatever order. A function that is no transpose misses one
  element, or overwrites it with what it reads below A and never writes it
  again (`SpoilsAs`): the second element of the first column of B for
  `transpose_blocking`, the fifth of the first row for `transpose_64M`. With one
  column only, or less than five rows, the last two may be outside
  the matrix, which is why `SizesAssumption` excludes these sizes.
* In `CsimArguments` what has been set is what flags have been seen
  for, and four different flags are all of them.
* In `Tiny` it says for each `step` what the response of the current
  connection has (`Current`); a stale `pathname` can only be that of a relative
  uri, which gets no answer.
* In `Kernellab` it is enough, for the memory, to know the step of each call; for
  the answers, that a walk stands on a linked task that is not behind the
  one it looks for (`Walks`), and what it has copied so far (`Knows`).

`NatLemmas` has arithmetic of division, cardinality facts and least elements
that several of them use.

The provers cannot evaluate powers of two: `PowersAssumption` states that the
two that occur are positive, and TLC evaluates it in every run of `Csim`.

Only model-checked: liveness, because fairness and ENABLED are out of the
prover's reach (`ZombiesReaped`, `PromptReturns`, `WorkersFinish`, `ServersGoOn`);
`StripsPay`, the misses of two fixed matrices, a computation that
TLC's run makes completely; and `mm_realloc` of `mm.c`, which is wrong. What a recursive definition computes for
every input would need the library's induction; where a proof needs a recursion,
its existence and the property are shown by least counterexamples. The
theorems `LinesAreSets`, `MissesAccount` and `StoresHit` state
parts and consequences of `IInv`, which the run `cachelab` checks as a whole, and
`ImagesArrive` is the part of `ForwardsResponse` that holds.

## Plan

Done, in this order, most important first: the shell with its abstract job
control; the cache simulator with its reference; both allocators with theirs;
the proxy's threads; the proofs of the shell, with its refinement, and of the simulator; the driver
on the allocators; the relay loop on the robust I/O; Tiny; the transposes with
their evaluation; the simulator's command line; the kernel module with its
proofs; the measurement; the request; the proofs of the proxy, the relay and
Tiny; the proofs of the first-fit allocator; the proofs of the measurement, the
command line and the request; the proofs of `mm.c`; the accounts of the driver
with both allocators; the transposes for any size; the repetition of the
driver's passes.

Abstract specifications worth adding: a server that answers each connection
once, for `Proxy` with `Relay`.

## Not modelled

`callibrate` of `clock.c`, which measures the handler's cycles, is abstracted to its
result, the overhead and megahertz measurements to nothing; a cache block of
less than four bytes, with which `clear` never ends, is no parameter of the
model; `config.h` selects `gettimeofday` (`ftimer.c`), of which only the loop is
modelled. The cache simulator's shift of an address with s + b of 32 or more, the
splitting of a command line into words, valgrind, the trace files and
`driver.py` but for its limits, the
C library's malloc as the driver runs it for comparison, options of the
programs other than `csim`, the formatting of log entries, pages and messages,
`mm_check` of `mm.c` (called nowhere), the older versions of proxy and
allocator that are not built, and the examples of kernel modules. `mm2.c` is the same
text as `mm.c` and has no module of its own. The entries
with status `not_modelled` in `PROJECT.json` give the reason for each.
