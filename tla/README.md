# Verification of lmalloc and its Sensor Data Handler System

lmalloc is a collection of arena allocators, in user space and as kernel
modules, with a benchmark program and a program that exercises them: the Sensor
Data Handler System (SDHS), a multi-threaded process that receives Modbus
packets, buffers them and inserts them into Postgres. This directory holds TLA+
models of its parts, the TLC runs that check small instances of them, and TLAPS
proofs of the properties that matter most for every size. Paths below are
relative to the repository's `src/` directory.

## 1. Inventory

| Component | State it keeps | Operations | Interacts with |
|---|---|---|---|
| Sensor data pipe, `sdhs/Common/SensorDataPipe.c` | ring of buffer arenas, two atomic indices, an atomic count, two eventfds | create, get write buffer, flush, get read buffer, destroy | one writer and one reader thread, by shared memory and blocking reads |
| Modbus thread, `sdhs/DataHandlers/ModbusWithPostgres/Modbus.c` | connection, local pointer to the current buffer | connect, receive and check a frame, store it, flush and reconnect | pipe (writer), sockets, shutdown flag, barrier |
| Pipe throughput test, same file | remaining data | push a file through the pipe | pipe (writer) |
| Postgres thread, `.../Postgres.c` | epoll fd, counters of items, failures and timeouts | wait, take buffers, insert, exit | pipe (reader), database, shutdown flag, barrier |
| Insertion, `sdhs/DatabaseSystems/Postgres.c` | connection and its transaction, table metadata, scratch buffer | connect and describe tables; begin, copy, convert rows, commit or roll back | libpq |
| Modbus frames, sockets, test server: `sdhs/CommProtocols/Modbus.c`, `sdhs/Common/Socket.c`, `sdhs/DevUtils` | a stream per connection, the backlog | accept, frame, send, receive with timeout, parse | Modbus thread |
| Thread groups, `sdhs/Common/ThreadGroup.c` | manager (mutex, condition, count), groups and their flags | create, start, monitor, wait, destroy | all threads, by create, join and the mutex |
| Process, `sdhs/Sdhs.c`, `sdhs/DataHandlers`, and signals, `sdhs/Signals.c` | global shutdown flag | read the configuration, set up, start, wait, clean up; SIGINT and SIGTERM | every loop polls the flag |
| Thread wrappers, `sdhs/Common/Thread.c` | mutexes, conditions, barriers, thread control | thin wrappers; stop/stopped handshake | pthreads, the log |
| Logs, in `lm.h` and `sdhs/Sdb.h` | per module a lock, a line buffer and sinks | write a line, change the sinks | every thread, and the signal handler on its stack |
| User-space arena, `allocators/u_arena.c` | memory, capacity, position, flags; per-thread scratch arenas | create, destroy, bootstrap, alloc, free, pop, seek, reserve, scratch | every other component allocates from it |
| Strings, in `lm.h` and `sdhs/Sdb.h` | header, text and terminator inside an arena | make, append, format, shorten, free | arenas, scratch arenas |
| Kernel arenas, `modules/karena`, `modules/oldkarena`, and their user side in `allocators` | table of 100 slots, or a structure per mapping; memory of vmalloc | load, ioctls, mmap, fault, release, unload | processes through a device |
| Benchmarks, `benchmarks.c`, `tests`, `allocators/allocator_wrappers.c` | collected timings, numbered files of results | choose tests, fork, measure, write | allocators, SDHS, the file system |
| cJSON, `cJSON/cJSON.c` (vendored) | trees of items with owned, shared and constant strings | parse, print, minify, build, change, copy, compare, delete | every reader of a configuration |
| Conversions: `sdhs/Common/Time.c`, memory sizes in `lm.h` and `Sdb.h` | none | deadlines and timeouts; sizes such as `4kB` | waits, arenas |

The behaviours that are hard: the pipe is lock-free and blocks inside the
kernel; its slot is returned before the reader has used the buffer; the Modbus
thread keeps a pointer into the pipe across a flush; the loops poll a shutdown
flag but block in places where they cannot see it; threads meet at a barrier
that a failing thread never reaches; detached monitors outlive the wait of the
main thread; a signal handler logs; TCP cuts frames anywhere; the database may
commit without the caller hearing of it; the kernel modules share a table, or a
pointer, between processes that may die at any point; measured threads append to
one array without a lock. For the allocators: arenas bootstrapped out of one
another, whose positions move independently, and strings that grow in place.

What makes each part correct:

- *Pipe*: indices, counter and eventfds agree in every interleaving; the writer
  never gets the buffer the reader works on; no wake-up is lost.
- *Handler*: packets are read by the database code once, in order and unchanged,
  or given up with their buffer by an insertion that fails before its first row; a
  buffer never overflows; a shutdown request settles both threads.
- *Stream*: what is stored are whole packets in order; a client is served; both
  ends stop when asked to.
- *Insertion*: a success is in the database and an error is not; nothing is held
  after a failed preparation.
- *Thread groups*: cleanup happens once and after the threads; the manager's
  count is the number of completed groups; the process ends.
- *Control and logs*: no stop request or wake-up is lost; lines stay whole; a lock
  is released.
- *Arenas and strings*: live blocks lie inside the memory and do not overlap; what
  is acquired is released; text is not overwritten; results survive the release of
  scratch arenas.
- *Kernel arenas*: memory taken is mapped, allocated and one's own; what a process
  leaves behind is freed (by the new module; the release of the old one does nothing).
- *Benchmarks*: a file of results holds the measurement it is named after, all of
  it, and is never written over.
- *cJSON*: lists stay lists, every item and string has one owner, what a reference
  shares is not freed, printing and parsing are inverse, buffers suffice.

`PROJECT.json` lists all components, including those left out, and the hazards
line by line.

## 2. Modules

| Module | Models | Built on |
|---|---|---|
| `SensorDataPipe` | the pipe, with callers as general as C allows | |
| `PgRun` | the Postgres thread after the barrier | `SensorDataPipe` |
| `PipeThroughput` | `MbPipeThroughputTest` with `PgRun` | `PgRun`, `PacketFifo` |
| `PacketFifo` | abstract: a bounded first-in first-out channel whose receiver may discard batches, and close it | |
| `ModbusWithPostgres` | `MbRun` with `PgRun` and signals | `PgRun` |
| `ModbusStream` | the test server, TCP and `MbRun` at the level of bytes | `SdbTime` |
| `SdbTime` | the arithmetic of `Time.c` | |
| `PgInsert`, `MCPgInsert` | `PgPrepareCtx` and `PgInsertData` against a failing server; schemas for TLC | |
| `ThreadGroup` | `SdhsMain` from the configuration to the exit, tasks up to and after the barrier | |
| `Logging` | the two loggers under threads and signals | |
| `ThreadControl` | the stop/stopped handshake of `Thread.c` | `Logging` |
| `UArena`, `MCUArena` | the arena allocator; symmetry for TLC | |
| `ArenaStrings`, `MCArenaStrings` | strings, scratch arenas and the thread's arenas | |
| `KernelModule` | registration of the device and page sizes | |
| `KArena`, `OldKArena`, `MCKArena` | the two kernel modules with their user side; one instance for both | `KernelModule` |
| `MemSize` | the parser of memory sizes | |
| `TimedAlloc` | the collection of timings | |
| `Benchmarks`, `MCBenchmarks` | the benchmark program and its files | `TimedAlloc`, `MemSize` |
| `CJson` | items, lists, ownership | |
| `CJsonText` | parsing, printing, minifying | `CJson` |
| `CJsonUse`, `MCJson` | a program that uses cJSON | `CJsonText` |
| `SensorDataPipeProofs`, `PipeThroughputProofs`, `ModbusWithPostgresProofs`, `PgInsertProofs`, `ArenaStringsProofs` | theorems | the module named |
| `AllocatorProofs` | theorems | `UArena`, `Benchmarks` |
| `ThreadProofs` | theorems | `ThreadGroup`, `ThreadControl` |
| `KernelProofs` | theorems | `KArena`, `OldKArena` |

A definition whose comment begins with *Fault* is a variant of the definition
that follows it, with a plausible mistake in it. No specification uses it;
`PROJECT.json` says which property rejects it.

### How state and actions correspond to the code

*SensorDataPipe.* `WriteBufIdx`, `ReadBufIdx`, `FullBuffersCount` are the
atomics, `ReadEventFd` and `WriteEventFd` the counters of the eventfds, `Pos`
the positions of the buffer arenas in packets. `wpc` and `rpc` say where the
two threads are inside the pipe, `NextWriteBuf`, `CurBuf` and `Buf` are their
locals. A call is one action that enters the function (up to its blocking read)
and one action per later shared access: drain the eventfd, store the index,
change the count, write the other eventfd, free the next buffer.
`SdPipeGetWriteBuffer` and `SdPipeFlush` have the same tail, told apart by
`wop`. A read of an eventfd without `EFD_SEMAPHORE` returns the whole counter
and resets it. An interrupted read (`WriterInterrupted`, `ReaderInterrupted`)
is possible in the pipe's own specification; the handlers' specifications leave
it out, because `SdbSetupSignalHandlers` installs every handler with
`SA_RESTART`, which restarts such reads (and not `epoll_wait`, whose
interruption is modelled).

*PgRun.* `pgpc` is the control state: loop test, `epoll_wait`, inner loop,
inside the pipe, converting rows, exit. The two counters saturate at the
threshold, beyond which they make no difference. After the threshold of
timeouts the code reads an uninitialised event, so every outcome of the two
tests on it is allowed. `PgInsertData` reads the rows of the buffer one per
step, so the writer can interfere between two rows; whether the insertion
succeeds is a free choice (`PgInsert` says when it does). It may also return
before the first row (`PgInsertGivesUp`): when BEGIN, COPY or the header of the
copy fails, or, with either result, when the scratch memory does not suffice. The
loop then goes on with the next buffer, and the rows of this one are never read.
Three history variables tell what became of the packets: `consumed` holds the
packets read, in order, `lost` those of buffers given up, `passed` counts both.

*PipeThroughput* and *ModbusWithPostgres.* The file, or the packets that pass
all checks of `MbRun`, are numbered; `Mem` is the memory of the buffers, which
`ArenaFree` does not erase. Allocating room and copying a packet are separate
steps. In `ModbusWithPostgres` connecting, receiving in time and the checks on
a frame are free choices; `staleWrite` records that a packet went into a buffer
that is not the current one. `MbPipeThroughputTest` is compiled but not started
by this commit; it is modelled because it is the pipe's simplest real writer.

*ModbusStream.* The stream of a connection is a sequence of cells that know
which packet they belong to and at which place; a cell read at its place is the
number written there, at any other place it may be taken for any number, so
that a receiver out of step is possible and must be harmless. `Accept`, the
send actions and `ServerCloses` are the server's loops, `cpc` follows `MbRun`
with the connecting and receiving it calls. A send takes what fits and makes a
new packet when the buffer is full; to a peer that has gone the first one is
answered by a reset and the second raises SIGPIPE, which ends the process. A
receive returns any prefix of what has arrived, or fails (`ReceiveFails`). `newest`
is a history variable, the highest number of a packet that was stored whole; numbers
are told apart up to `MaxId`, which stands for all from there on. `used` counts the pushes on the
arena that is never reset; when it is full the process crashes. `SdbTime` has the two conversions
to double of `SdbTimeoutExpired`: `Spacing` is the distance of the doubles around a
time, `AsDouble` the nearest one.

*PgInsert.* `held` is what `PgPrepareCtx` must give back, `tables` and `pipe`
what it leaves for the inserting thread. Every call to libpq is an action with
its outcomes: it works, the library fails before the server hears of it, the
server refuses, the connection breaks, or the answer is lost after the server
has acted. `server` is the session's own view of its transaction; `stored` the
committed batches; `results` what the caller was told. Sizes are computed as
the code computes them, so the conversion buffer that is too small for its rows
is a state of its own, after which nothing is claimed.

*ThreadGroup.* `conf` is the configuration (each handler in test mode, not in
test mode, disabled or unknown); `task[i][j]` is the life of a thread: none,
init, barrier, run, failed or done. `mainpc` follows `SetUpFromConf`,
`TgManagerStartAll`, `TgStartGroup`, `TgManagerWaitForAll`, `TgDestroyManager`
and the rest of `SdhsMain`. A monitor joins, cleans up and reports under the
mutex. The mutex is not a variable: `HoldsMutex` names the states in which the
main thread has it.

*Logging* and *ThreadControl.* A log module is a lock and a buffer; a thread has
a stack of log calls and signal handlers, of which the top one runs. Taking the
lock, filling the buffer, writing each sink and unlocking are steps. Three
threads run the control operations, one action for each stretch between a lock
and an unlock or a wait; waking the sleepers logs a line with the control's
mutex held. `WaitingForMarkStopped` starts with any value, because
`SdbTCtlInit` does not set it. `causes` records the three ways in which the code
leaves a lock taken.

*UArena.* `mem`, `cap` and `cur` are the fields of the structures. Three
variables describe the clients rather than the code: `usable` (arenas that may
be used), `blocks` (memory in use) and `path` (out of which arenas an arena was
bootstrapped). Moving a position down gives up every block and arena above it;
this is the contract under which the operations are called. Addresses wrap at
`SizeMod`, and `ua_pop` compares signed values. The unchecked `ua_falloc` is
called only where the capacity was checked before (`tests/tight_loop_test.c`,
lines 182-186).

*ArenaStrings.* `lib` chooses between the two libraries, whose string functions
differ only in making empty strings and in freeing. The memory is modelled cell
by cell, a cell holding the number of the string that wrote it, so overwriting
shows. `scratch` is the stack of scratch arenas with the conflicts named when
they were asked for. `misused` records that the caller left the contract: a
string that is not the last allocation of its arena, or lies outside of the
innermost scratch in it, grew or was freed. `raw` holds the strings in use whose text the
library itself left unterminated or cut; such a string still has its header. A
scratch that is released takes with it the strings whose `depth` it is, which is
the innermost scratch of their arena when they were made.

*KArena* and *OldKArena.* `karenas` is the table, `index` the
`current_arena_index`, `regions` the memory of `vmalloc`, `maps` the mappings
with their slot, `held` and `blocks` what the processes believe they own. A
handler is as many actions as it has accesses another handler can come between:
a create finds a slot under the lock, allocates, publishes the index, and the
`mmap` that follows reads it. A process may exit at every step; the release
handler then runs over the table. `causes` records a race for a slot, a death
between create and `mmap`, and an arena left behind that was bootstrapped. In
`OldKArena` the structure hangs off the mapping and `mmapInfo` is the one
pointer all processes share; `shared` is a history variable, the structures that a
process has mapped which they were not made for. Its allocation does not test for
room, so positions pass the end of the memory, in the model up to `OkaPosBound`; a
call on a structure that was freed ends the model (`okaCrashed`). In `KArena` nothing happens any more once the
kernel has freed what was not allocated (`oops`). `within` is a history variable:
the arenas that the one in a slot was bootstrapped out of, at any remove. A
process that moves a position down gives up the blocks above it and the arenas
bootstrapped out of that memory (`KeptBlocks`, `Kept`). `ka_destroy` does not unmap:
`leftover` is a history variable, the mappings of arenas that were destroyed, which
stay in `maps` and fault into whatever their slot holds by then. Each access is a
fault in the model; that a page which was touched before keeps its page
(`get_page`) is left out, and so is a `fork` that hands on mappings.

*TimedAlloc* and *Benchmarks.* In the tight loops one thread appends timings; in
the SDHS test each load and store of `add_timing` is a step. `disk` maps a
directory to its files, a file to the timings in it and to whether it has been
flushed, cut or not; `proc` and `parent` are the running process and what a fork
has put aside. `lm_mem_sz_from_string` is an operator on sequences of
characters. The specification is `BenchSpec`, with `BenchInit`, `BenchNext` and
`benchVars`. `drained` says that no thread of a data handler was left running in
the process. Of the constants it is assumed that the array has room for a
measurement on top of what a data handler has put there (`BenchAssumption`,
`TimedAssumption`: `add_timing` does not look, `allocator_wrappers.c:37`), and that
under a debugger, where all tests share one process, the data handler is tested
once (`ConfsAssumption`: its collection is started with
`init_alloc_tcoll_dynamic`, which leaves the position where it is).

*CJson*, *CJsonText*, *CJsonUse.* A heap maps addresses to items with their
`next`, `prev`, `child`, `string`, `valuestring` and flags, and counts
allocations so that the next one can fail anywhere. `string` and `valuestring` are
pointers, to a literal or to a string in `text`, the allocated strings of the heap: a
reference has the pointer of the original, and freeing or overwriting what it points
to shows in both. The functions of the library
are operators from heap to heap; recursive ones are RECURSIVE operators. A text
is a sequence of characters of a reduced alphabet. `CJsonUse` is a program that
calls the functions in any order and keeps to the interface: it gives away only
what it owns, does not make a tree part of itself, and does not delete or replace
what a reference elsewhere still shares, neither children nor value (`MayDelete`,
`Borrowers`).

## 3. Runs

| Run | Bounds | What it checks |
|---|---|---|
| `pipe` | 4 buffers of 2 packets | `PipeInv`, the pipe's inductive invariant, and `Exclusion`, for any callers |
| `throughput` | 3 buffers of 2, 9 packets, threshold 2 | rows in order, whole buffers given up or none of their rows, all packets get to `PgInsertData` unless the reader leaves, refinement of `PacketFifo` with its fairness |
| `mbpg` | 3 buffers of 2, 5 packets, threshold 2, stop after 5 items | no overflow, rows read in order or given up with their buffer unless a stale buffer is written, buffers are taken, a shutdown settles |
| `modbus` | packets of 2 cells, frames up to 5, a kernel buffer of 9, 2 connections, 3 packets told apart, 3 attempts to connect | whole packets, none twice or after a later one, over reconnects and torn packets; clients are served, both threads end; deadlines and timeouts from the first seconds of a clock and from the present |
| `postgres` | 3 schemas, up to 3 rows, 3 insertions, 2 failures, 40 bytes of scratch, buffers of 25 | nothing held after a failed preparation, packets are rows, the result of an insertion is true |
| `groups` | 2 handlers of any kind, groups of 3 threads | cleanup, count, barrier, all handlers or none, end of the process |
| `control` | 3 threads, 3 log modules, 1 SIGINT, 1 log call besides, 1 failing library call | the mutex, whole lines, locks, the depth of calls and handlers, the handshake completes |
| `uarena` | capacity 3, requests up to 4, structure of size 1, 3 arenas | the allocator's properties under every sequence of operations |
| `strings` | 2 arenas of 5 cells, 2 strings, texts up to 2, scratch arenas 2 deep, format buffer 3 | text is not overwritten, results survive the release of a scratch with one conflict, and with two outside of the thread's first arena |
| `karena` | 2 processes, 2 slots, pages of 2, requests up to 2, 3 calls of `vmalloc`; either module, the old one with up to 3 blocks and positions up to one past a memory of 2 | slots and memory are one's own up to mappings left over, all is freed by the new module; in the old one what is reserved is inside the memory and blocks that nobody shares stay apart and allocated |
| `bench` | 9 timings, 2 threads with 2 allocations, 2 iterations of 2 sizes, 1 fault per start, up to 2 starts, 13 configurations | files are right, complete and never written over; memory sizes for every text of up to 4 of 7 characters |
| `json` | 4 items, 2 allocated strings, 4 allocations per call, limits of nesting and depth 2, numbers of 2 digits, 2 to 4 calls; texts up to 3 edits from a seed | the heap is sound, trees survive printing and copying, buffers suffice, the parser accepts exactly the grammar, minifying keeps the meaning |

The named parts of a checked conjunction (`PipeInv`, `MbPgInv`, `TgInv`, `KaInv`,
`OldBlocksBacked`, `ControlInv`, `ResultIsTrue`, `PacketsRight`, `StringsInv`, `FilesRight`,
`HeapSound`, `TreesSurvive`) have their own comments in the modules.

Why the bounds are enough. Four buffers let the ring be longer than the three
buffers that can be in use at once, so an index that runs ahead is seen; three
are the smallest number for which exclusion holds. Two packets per buffer give
empty, partial and full buffers. Nine packets are more than four buffers, with
a partial chunk at the end, so the ring wraps. Five packets of the handler
suffice for a wrap, a partial flush, a reconnect and a stale write together.
A kernel buffer of nine cells holds one frame and the header of the next, so a send is
whole, partial or impossible; the second connection is waiting while the first
is served. Two failures in three insertions let an insertion fail, its rollback
fail, and a later one succeed. Two groups are needed for monitors that report in
any order. Three control threads are all the roles there are; one signal is
enough to interrupt any of them inside the logger. In the arena, a capacity of 3
with requests from 0 to 4 has requests that are empty, fit exactly and exceed by
one, and two bootstrapped arenas can be siblings or nested. Two strings in an
arena of five cells leave room for one to be behind the other and for neither to
grow. Two processes and two slots let processes race for a slot and let one hold
an arena and one bootstrapped out of it. A second start of the benchmarks meets
the files of the first. Four items are a parent, two children and a copy or a
reference. `BreakOnCount` and `FailThreshold` stand for 10000 and 5.

Where a run stops following a behaviour. `karena` ends a behaviour at a race for
a slot and `strings` at the first misuse of a string (`UntilMisused`): the
properties claim nothing of what follows, because the code does nothing to
recover. For the old module `karena` follows states with at most three blocks and with
three structures, two if one of them is shared (`Followed`); this only keeps the
run small. `strings` registers the arenas in the order of their numbers
(`RegisteredInOrder`), which loses nothing, because arenas are alike.

Fairness. Weak fairness of each thread throughout: the operating system
schedules it when it can go on. In `FairMbPgSpec` this includes the timeout of
`epoll_wait` and the timeout of the receive (500 ms), in `FairTgSpec` the timed
wait on the condition (1 s). `Spec` of `ThreadControl` has a conjunct for the
control operation and one for the log calls of each thread; a mutex that is
released comes to whoever waits for it. `Spec` of `ModbusStream` is fair to
server and client. Nothing is assumed of the network, the database, signals,
failures, spurious wakeups, or of how long a task runs.

Deadlock is not checked where the system may stop for good: threads that have
all ended or are blocked for ever (`throughput`, `mbpg`, `groups`, `control`,
`modbus`), a program that has made its calls or met its bound (`postgres`,
`strings`, `karena`, `json`).

### Where the code differs from its comments and messages

Seen while modelling; the properties name these cases as exceptions, or hold
only outside of them.

- With the two buffers of the shipped configuration the writer is offered the
  buffer that is being read: `Exclusion` fails with `BufCount = 2`.
- The first read of the write eventfd takes all credits, so the writer then waits
  for the reader although buffers are free (`SensorDataPipe.c:122`).
- After `SdPipeFlush` `MbRun` goes on filling the buffer it has handed over
  (`Modbus.c:209`; `staleWrite`).
- An insertion that fails before its first row leaves the whole buffer unread, and
  the loop goes on with the next one (`DatabaseSystems/Postgres.c:449-501`; `lost`).
- The `break` at the threshold of failed insertions leaves the inner loop only
  (`Postgres.c:165`), and the timeout of `epoll_wait` is computed in another unit
  than milliseconds (`Postgres.c:121`).
- A thread may stay blocked in the pipe after a shutdown request
  (`ShutdownSettles` lists how).
- A failing `pthread_create` leads to joining threads that are stuck at the
  barrier (`ThreadGroup.c:152`; the exception in `ProcessEnds`).
- The manager may be freed before all monitors have reported (`Sdhs.c:223`).
- A log lock stays taken after an error in `Sdb__WriteLog__` (`Sdb.h:760`), after
  `lm__disable_log_to_term__`, which locks twice (`lm.h:646`), or when a signal
  comes to a thread that holds the lock its handler needs; these are the
  exceptions of `StopCompletes`.
- `PgInsertData` commits nothing and reports success when its conversion buffer
  does not fit (`DatabaseSystems/Postgres.c:494`), and the buffer is sized with
  one length per row (line 488). `RowSize` is accumulated on memory that is not
  cleared when the arena comes from `malloc` (line 207).
- `SdbTimeval` takes the microseconds with `&` where a remainder is meant
  (`Time.c:94`): a timeout may be shorter than asked for, never longer.
- `SdbTimeoutExpired` compares doubles, so a timeout that has passed by up to 256 ns
  may not count as expired (`Time.c:100`).
- With two conflicts the scratch arena is the first arena of the thread, also if that
  is one of them, and its release loses the results made there (`u_arena.c:265`; the
  exception in `ResultsKept`).
- A create takes back the mark on its slot before the `mmap`
  (`karena.c:135`), and the `mmap` uses an index that another process may have
  set (`karena.c:390`, `okarena.c:337`); a release stops at the first bootstrapped
  arena (`karena.c:445`).
- `ka_destroy` leaves its mapping, which points at the slot and so reaches the memory
  of the next process that gets it (`modules/karena/karena.c:358`; `leftover`).
- `oka_alloc` gives memory past the end of the arena (`okarena.c:165-184` has no test,
  nor has `oldkarena.c:48-60`; the exception in `Backed`). After one process has
  mapped the structure of another, either may use what the other has freed (`shared`).
- Threads that append timings lose some (`allocator_wrappers.c:37`), and a shutdown ends
  the wait for them while they run (`Sdhs.c:223`). Under a debugger they then go on
  appending during the tests that follow; `DataIsTests` and `SdhsTimings` claim
  nothing of the files opened after that (`drained`).
- `cJSON_AddItemReferenceToObject` loses the reference when there is no memory
  for the name (`cJSON.c:1995`); `cJSON_Minify` treats the second of two
  backslashes in front of a quote as an escape (`cJSON.c:2723`).

## 4. Proofs

All proofs are for arbitrary constants.

*The pipe* (`SensorDataPipeProofs`). `PipeInvariant`: `PipeInv` holds always.
The property of interest, `Exclusion`, says nothing of the eventfds and is not
inductive. The strengthening is `SinglePermission`: of the write eventfd, the
writer in transit, the read eventfd and the reader in transit exactly one has
the permission to move. It determines the indices and the count
(`IndicesAgree`) and justifies the index computed before the wait
(`LocalsAgree`). `ReaderWriterExclusion` then follows with `BufCount >= 3`,
because the buffer two places ahead is a different one. Assumptions:
`BufCount >= 2` for the invariant, `BufCount >= 3` for exclusion. With two
buffers it is false.

*The throughput test* (`PipeThroughputProofs`). `TestInvariant` and
`RowsDeliveredInOrder`: the rows read are packets in increasing order, and with the
ones of the buffers given up they are 1, 2, 3, ... without a gap and without a
repetition, for every file, buffer size and number of buffers from three on. `TestInv` adds to `PipeInv` how the
control states fit together and that the buffer being read, the one handed over
and the one being filled hold consecutive packets that follow the packets
already read or given up. Every step of the test is a step of the pipe
(`TestStepIsPipeStep`), so the pipe's invariant carries over.
`TestImplementsFifo`: every step maps to a step of `PacketFifo` with room for
three buffers, or to a stutter; a buffer given up is a `Discard` of its packets.

*The arena* (`AllocatorProofs`). `UaInvariant`, and from it `BlocksNeverOverlap`,
`BlocksInsideMemory` and `DestroyReleasesAll`. `NoOverlap` is not inductive: a
block of one arena must also stay clear of the free memory of all others.
`UaInv` says that two arenas in use are apart or one was bootstrapped out of
the other and lies below its position, and that a block lies in its owner below
the position and clear of arenas that its owner contains. Assumption:
`Cap + MaxRequest < HalfMod`, that is, no request is so large that position
plus size wraps around or turns negative; without it the tests of the
allocator do not mean what they say.

*The handler* (`ModbusWithPostgresProofs`). `HandlerInvariant`: `MbPgInv`, for
every number of buffers from two on. `RoomForPacket`, the property of interest
in it, needs `PipeInv` and how the control state of `MbRun` fits that of the pipe
(`MbControlAgrees`): a buffer that has just been got is empty. Every step of the
handler is a step of the pipe or leaves it alone. `PacketsDelivered`: as long as
`staleWrite` is false the packets stored are the rows read, in order, the ones of
buffers given up before their first row, and the ones still on their way. The strengthening, `PacketsAccounted`, is part of the
checked property: the buffer held by the reader, the one handed over and the one
being filled hold the next packets, and their lengths and the rows passed add up
to what was stored. Assumption: `BufCount >= 3`, as for the exclusion it uses.

*Thread groups* (`ThreadProofs`). `TgInvariant`, `CleanupOnceAfterThreads`
and `ManagerBelievesTruth`, for any number of data handlers. The three
invariants are inductive only together (`TgIInv`): that cleanups come after the
threads needs what a monitor has done to be what is recorded of its group
(`MonitorsAgree`); that needs monitors to start after their tasks
(`LaunchInOrder`); and that no barrier is passed early needs the same order. The
count is a cardinality, so `CountAgrees` holds until the wait is over and the
manager may be gone.

*Insertion* (`PgInsertProofs`). `PrepareGivesBack` and `PacketsAreRows`, for every
set of sensor files and every size of a buffer; `HeldOnTheWay` says what is held
at each point of `PgPrepareCtx`. `ResultsAreTrue`: what makes it inductive is
`TransactionAgrees`, that an open transaction holds rows of this call and of
calls whose COMMIT or ROLLBACK got no answer, and no others. Assumption
(`SchemasAssumption`): every table has a column to insert with a positive
length, as the pipe divides by the size of a row.

*Control and logs* (`ThreadProofs`). `ControlInvariant`, for any log
modules, any bound on calls and failures and any of the two signals. That lines
are whole is not inductive: `CallsHoldLocks` says that a call between the lock
and the unlock, however deep below handlers that interrupted it, has the lock of
its module, that no other call of the same thread has it, and that the buffer
holds its line from the filling on. A lock is not reentrant, so a call that
interrupts another on the same module waits for ever instead of tearing its
line. `NestingBounded` says how deep a stack may be: the thread's own call, two
frames for every signal that came, one for every failure that raised SIGABRT;
`Depth` counts a handler together with the line it is about to log.
`MutexForBroadcast`: between steps the control's mutex is held by the thread
that broadcasts and by nobody who sleeps. Assumptions: the three threads are all
there are, `Thread` and `Signals` are log modules of `Sdb.h`.

*Strings* (`ArenaStringsProofs`). `StringsInvariant`: `StringsInv`, and
`ResultsSurvive`: `ResultsKept`, for any arenas, capacities, strings, texts and
depth of scratch arenas. That texts are intact is not inductive. `StringsApart`
says that strings in use lie below the position of their arena and do not overlap;
`ScratchesNest` says that what a scratch sets the position back to lies below it,
that the scratch arenas of one arena are ordered, and that a string lies behind
this place if it ends with the scratch or an inner one and before it otherwise.
So the release of the innermost scratch keeps every string that does not end with
it, and only the string whose end is the position may grow or be freed. A string
that the library left incomplete keeps its header: `TextIntact` says of every
string in use what its cells hold. `ResultsKept` follows from these and from
`ScratchesChosen`: `ua__scratch_get__` takes the first arena that differs from some
conflict, which is not the conflict if there is one, and the first of all if there are
two. A result lies in an arena that the scratch is not in, and stays; in the first
arena it is above the position that the release goes back to. Assumption: arenas are
numbered from 1, as 0 stands for none.

*The kernel module* (`KernelProofs`). `KaInvariant`: `KaInv`, and
`ReleaseFreesAllMemory`: `ReleaseFreesAll`, for any processes, slots, pages and
requests. Both follow from `KaInductiveInvariant`. That a block is backed by memory
of its process, and that no mapping of another one reaches it but a leftover, is a
statement about pages, mappings, slots and regions at once; the inductive invariant
takes it apart:

- `Handlers`: no two handlers are in the middle of the same slot, and a slot is
  marked exactly while a handler fills it, so `find_open_slot` never returns a slot
  in use.
- `RegionsKept`: a slot that is not bootstrapped has memory that is allocated, for
  its owner, and no other slot has it; so `vfree` is called once for each region.
- `ArenasNest`: two arenas a process holds are disjoint, or one was bootstrapped out
  of the other and lies in its used part; each lies in a mapping of the slot it
  has, or of one of the arenas it was bootstrapped out of. `BlocksNest` says
  the same of blocks, and `BootstrapNests` of the memory on its way from
  `ka_alloc` to the ioctl that makes an arena of it.
- `MapsCurrent`: a mapping that is not left over from a destroyed arena belongs to the
  arena in its slot, and to the owner of the slot. Every mapping that is not current
  has been left by `handle_arena_destroy`, so only those reach other memory
  (`OthersKeepOut`).
- `NothingLost`: every region is in a slot that its owner, or the release that is
  under way, will still free.

A create that hands its mark back before the `mmap` lets another process take the
slot, which is why all of this is claimed until handlers race; `NothingLost` also
ends with a process that dies before its `mmap` or leaves a bootstrapped arena
behind. From mappings to bytes: two blocks of a process are disjoint ranges of
addresses, in the mapping of one slot each, and `karena_vm_fault` is injective on
it; blocks of two processes are in slots of different owners, whose regions differ.
Assumptions: a page has at least one byte and the table at least one slot.

*The old kernel module* (`KernelProofs`). `OldModuleBacks`: `OldBlocksBacked`, for
any processes, page size and number of arenas. The strengthening is in the
property: the structure a process is about to map is its own and not freed
(`Mapped`), and blocks lie below the position (`Backed`), so that the next one is
apart from them; a reservation is checked against the size, whatever the position.
`Mapped`, `Backed` and `Apart` speak of the structures that nobody but their maker has
mapped. They need no assumption on the others: a call changes the structure of its
mapping only, and the structure a process is about to map is the last it created, so
it is its own unless a later one has taken its place in the shared pointer, and then
that one becomes shared. So the invariant holds throughout, not only until a
structure is shared.

*The benchmarks* (`AllocatorProofs`). `BenchInvariant`: `BenchInv`;
`FilesInvariant`: `FilesRight`; `ResultsInvariant`: `ResultsPresent`; `FilesStay`:
`NoOverwrite`, for any tests, functions, classes, sizes, threads, iterations and
failing calls, and any number of starts. None of them is inductive. `BenchIInv`, which
is, consists of these parts:

- Where the program is (`TestOK`, `PhaseOK`, `EntryOK`): the tests, loops and sizes
  that are left are the end of the ones asked for, and what is written is what was
  just measured.
- Whose memory it is (`FreshOK`, `ScratchOK`): a child starts with untouched statics,
  so its files count no other process's allocations; the release of the scratch goes
  back to where `prepare_logging` had left `main_ua`.
- What threads still do (`CellsLeft`, `ThreadsOK`, `SdhsOK`): a thread may store a
  position long after it was loaded and throw others back, so no bound on the position
  alone is kept by a step. What is kept is a bound on a position, stored or loaded,
  plus the number of stores that are still to come (`CurLeft`, `IterLeft`, cardinalities of
  sets of pairs of a thread and a number). Below such a position every cell has a timing
  or waits for a thread that stores the position first (`CurRight`): this is why
  racing threads lose timings and leave no hole.
- What a file is (`NumbersOK`, `OpenOK`, `BodyOK`, `DataOK`, `LogsOK`): of a number
  and a name there is one file, an open file belongs to the running process, and a file is complete unless
  it is the newest one of the directory that is being written.
- What has been done (`ProgressOK`): as long as no call has failed and the arena has
  room, every test, loop and size that was worked off has left its file.

A step changes the directories in one of three ways, adding a file under a new number or name,
completing the newest one, or settling the files of a process that goes
(`DiskEffects`); files that are there stay there through each of them. Assumptions: the
three named above, of `TimedAlloc` and `Benchmarks`.

The inductive invariants are properties of the runs or conjunctions of them, so
TLC checks them on the small instances as well, except for `TestInv`, `UaInv`,
`BenchIInv` and the types `SequencesTyped` of `PgInsertProofs`, which are defined in
modules of proofs. `BenchIInv` was checked by TLC on the instance of `bench` before
it was proved.

Only model-checked:

- all liveness, which is beyond this prover, and with it the fairness part of the
  refinement;
- `SizesParsed`, which says what a fold over the characters of a text computes, and
  needs an induction over data;
- `StreamInv` of `ModbusStream`, whose deadlines are computed with the bitwise operators
  of `SdbTime`, out of the prover's reach;
- the properties of cJSON, whose modules use RECURSIVE operators, out of its reach as
  well.

## 5. Not modelled

- `SdpDestroy` and the body of `MbPgCleanup` (compiled out).
- `malloc` and `mmap` failing in `ua_create`: the code does not test for it.
- `TimeoutCounter` in builds whose log level removes the message that increments
  it (`Postgres.c:132`); those builds have the behaviours in which the threshold
  is not reached.
- The second wait of the throughput test at the barrier, to which no partner
  comes, is a state of `PipeThroughput` without a property: this commit does not
  start the test.
- `GSignalContext.Pipe`, which is written and never read.
- Trylock and timed waits with a finite timeout in `Thread.c`: no caller.
- Of cJSON: the value of numbers, UTF-16 escapes, byte order marks, raw items,
  comments, array and object references without an owner, the allocation hooks.
- The token scanner and the file mapping of `Sdb.h`; bit tricks, list and timing
  macros of `lm.h`: no state.
- `metrics/timing.c` and `utils/system_info.c`: arithmetic on cycle counters and
  reading of the system's description.
- How long anything takes; the contents of packets and rows beyond their number.
- Proofs of concept, scripts and data.

## 6. Plan

1. The pipe, its reader and writers, the process, arenas and strings, kernel
   modules, insertion, stream, control and logs, benchmarks, cJSON: done.
2. Proofs: the pipe, its writers and reader, thread groups, insertion, control and
   logs, the arena, strings, both kernel modules, the benchmarks: done.
3. Out of the prover's reach and left to TLC: liveness, the cJSON modules, the parser
   of memory sizes, `ModbusStream` through `SdbTime`.
