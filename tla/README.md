# Conduits: a verification of the shared-memory queues

The repository implements *conduits*: byte queues in a shared mapping that
threads and processes read and write through `conduct.h`. There are two
implementations of the interface, `conduct.c` (one critical section at a time)
and `concurrentconduct.c` (readers and writers copy at the same time), and a
few programs that use them. This directory models both implementations, the life
cycle of a conduit and the one program that is more than a test, `julia.c`, in
TLA+; it checks them with TLC and proves properties with TLAPS.

    tlc -config conduct_records.cfg MCConduct     # any run, see "Runs"
    tlapm ConductProofs.tla                       # the proofs about Conduct

## Inventory

| Part | State it keeps | Operations | Hard behaviour | What makes it correct |
|---|---|---|---|---|
| buffer arithmetic (both files) | start, end, isEmpty; per call passByMiddle, secondLimitLoop | evaluate size and position, limits of the loops, walk of the cells | exact passage over the last cell; full against empty; fields that outlive a round | a round moves its size to consecutive cells and leaves the indices inside the buffer |
| `conduct.c` | `struct content` under one mutex, two condition variables; per call `struct dataCirularBuffer` | read, write, write_eof, each blocking or not, vectored read and write | rounds of one call interleave with everybody else's; trylock retries; state computed before a wait and used after it; one signal per round; end of file | FIFO, atomic pieces, no lost wakeup, no more than asked, mutex released once, end of file releases every reader and loses nothing |
| `concurrentconduct.c` | the same, tmpStart, tmpEnd; two more condition variables (MPMC build) or two more mutexes (SPSC build) | the same; each round reserves, copies without the mutex, validates (in turn) | concurrent copies, validation out of order, broadcast after the unlock, end of file, which side mutex an exit releases | disjoint reservations, copies inside them, FIFO at the validations, one thread per side, side mutexes given back, no lost wakeup |
| segments of an iovec (`apply_loops`) | index and place in the iovec, per call | move a byte or a piece, enter the next segment | the place outlives rounds and loops; empty segments | a vectored call moves what one of the concatenated segments would |
| life cycle (both) | directory, file, mapping, `struct conduct` | create, open, close, destroy | create against open and destroy, truncation of a live mapping, kills and failures between two system calls | no access behind a file, no conduit in use initialised again, a created conduit keeps its name until it is destroyed |
| `julia.c` | two conduits, `julia_c`, the progress of a draw | request, compute, reply, paint | both sides blocked on full conduits; `julia_c` without a lock; replies of an old draw | nobody waits for room, each tile painted once with one `julia_c`, a draw ends |
| `test_3thread_depedency.c` | two conduits | order, compute, collect | end of file through sleeping workers | not modelled (a benchmark) |
| `sortedLinkedList.c` | a sorted list | insert, remove | called by nothing | not modelled |
| `conduct_torture.c`, `test_simple.c`, `test_vectored_IO.c` | | | | not modelled; what they assert is compared with the models below |

All interaction of readers and writers goes through the mapping: they share
nothing else, and learn of one another by the two condition variables and the trylock of a retry.

## Modules

| Module | Models | How it corresponds |
|---|---|---|
| `CircularBuffer` | `eval_size_to_manipulate`, `eval_position_and_size_of_data`, `eval_limit_loops`, the index walk of `apply_loops` | one operator per value these functions compute; the two fields of `struct dataCirularBuffer` that survive a round are arguments, because the code does not always assign them |
| `Conduct` | `conduct_read_v_flag`, `conduct_write_v_flag` of `conduct.c` and their wrappers | `mutex`, `start`, `end`, `isEOF`, `isEmpty`, `buf` are `struct content`; `call`, `data`, `pc` are the stack of a thread; one action per path through a critical section |
| `ConcurrentConduct` | the same functions of `concurrentconduct.c`; `SingleReaderAndWriter` chooses the build | reservation, every byte of the copy, and validation are separate actions; `side` is `mutexRead` and `mutexWrite` of the SPSC build |
| `ConductFifo` | nothing in the code: the abstract queue both promise | a sequence of bytes, an end-of-file mark; `Drains` says what the mark means to readers |
| `IovecWalk` | `init_dataCirularBuffer` and the loops of `apply_loops` on the caller's side | `memcpy` chooses the version of the loop; one action per iteration |
| `Lifecycle` | `conduct_create`, `conduct_open`, `conduct_close`, `conduct_destroy` of both files | `dir`, `size`, `content`, `stored` are the file system, the other variables `struct conduct` and the place in the call, per process; `UnlinkFirst` is conduct.c |
| `Julia` | `draw_callback`, `paintit`, `mousse_callback`, `julia_thread` | a conduit is a queue of QSIZE records, which `Conduct` shows of records of the atomic limit |
| `MC...` | instances for TLC | sets of threads, calls, iovecs, processes |
| `...Proofs` | | theorems and proofs about the module of that name; `ConductFifoProofs` is about `Conduct` as a queue, `ConcurrentProofs` about `ConcurrentConduct` and `SidesProofs` about its SPSC build |

`Conduct` and `ConcurrentConduct` extend `CircularBuffer`. Each instantiates
`ConductFifo` with a refinement mapping (`Fifo`): the queue is the cells from
start to end, what a call has moved is its `sizeReallyManipulate`. In
`ConcurrentConduct` bytes enter or leave the queue when the round is
*validated*, so the bytes copied but not yet validated do not count.

Where both files have the same code (life cycle, segments), a definition of the
model is mapped to one of them.

What one action is:

* `Conduct`: a whole critical section. All it touches is under the mutex,
  except `isEOF`, which writers also read before they lock (`Refuse` and
  `Enter` are steps of their own) and which a section assigns once. The signal
  at the end of a section is part of it; it wakes one sleeper, any of them.
* `ConcurrentConduct`: the section that reserves, each copied byte, the section
  that validates, and the broadcast to the other side after its unlock. The
  SPSC build locks a side mutex before (`LockSide`) and unlocks it right after
  that broadcast, in one step with it: what the other side does in between does
  not look at the side mutex.
* `Lifecycle`: one system call that changes or reads what other processes see;
  the fstat of `conduct_create` (`StatNew`) and its ftruncate (`SetSize`) are two.
* `Julia`: one call on a conduit, or one callback of GTK between two draws.
* `pthread_cond_wait` is the release of the mutex, the sleep, and `Acquire`;
  spurious wakeups are allowed at any time.
* A round that moves more than its call has left goes on behind the caller's
  last `iovec` entry. What it finds there is undefined: it copies garbage
  (`Garbage`, or bytes beyond the request), or the thread dies where it stands
  (`WriteCrash`, `ReadCrash`, `CopyCrash`), with the mutex if it has it.
* `Killed` ends a process of `Lifecycle` at any step: descriptor and mapping go,
  files and names stay. `CreateFails` is any failing call of `conduct_create`.

What is abstracted: outside of `IovecWalk` an iovec is the sum of its lengths; a byte is its writer
and its place in that writer's stream, modulo `Stamps`; pthread calls do not
fail except trylock; sizes do not overflow. A call with a null pointer is the
call of count 0 (both are `EINVAL`).

## Runs

Bounds: `SizeMax` cells, `SizeAtom` the atomic limit, `Stamps` distinguishable
bytes per writer, and the sets of calls (in the MC modules). In the run that
checks the FIFO with one writer (`conduct_rounds`) `Stamps` exceeds by one what
the buffer can hold of the writer's stream, so a lost, repeated or swapped byte
shows; with records (`conduct_records`) it exceeds the record. With two writers of
concurrentconduct.c it is 2 (`concurrent_writers`, `concurrent_side_rounds`): a
byte differs from its neighbours of the same writer and from all of the other
one. It is 1 in runs that do not look at bytes. The
state spaces are otherwise finite by themselves: TLC explores all of them. A
buffer of 3 or 4 cells and a limit of 2 or 3 lets rounds pass the end exactly
and not exactly, from every position, and lets calls take one, two or more
rounds; in the buffer of 2 with a limit of 2 of `concurrent_sides` they do so, too.

| Run | Instance | Checks |
|---|---|---|
| `conduct_records` | 2 writers, 2 readers, records of the limit | `NoLostWakeup`, `RecordsComeWhole`, `ImplementsFifo` |
| `conduct_rounds` | 1 writer, 1 looping reader, up to the buffer's size, EOF, fair | `NoLostWakeup`, `NeverMoreThanAsked`, `ImplementsFifo`, `WriteReturns`, `EofDrains` |
| `conduct_any` | 2 writers, 1 reader, calls of twice the buffer | `TypeOK`, `MutexDiscipline`, `EmptyMeansSameIndex` |
| `concurrent_writers` | MPMC build: 2 writers, one with calls of several rounds, rounds of the limit, which fit together, 1 looping reader, fair | `ReservationsDisjoint`, `NoLostWakeup`, `ImplementsFifo`, `WritesGoOn` |
| `concurrent_sides` | SPSC build: 2 writers, 2 readers, blocking one-round writes, reads longer than the buffer, EOF | `TypeOK`, `ReservationsDisjoint`, `AloneOnItsSide`, `NoLostWakeup` |
| `concurrent_side_rounds` | SPSC build: 2 writers of unequal one-round writes, 1 reader up to the buffer's size, EOF | `CopiesWhatItReserved`, `ImplementsFifo` |
| `iovec_walk` | all iovecs of up to 4 segments of 0 to 3 bytes, both loops, every cut into rounds of up to 4 bytes and two loops | `TypeOK`, `OnTheStream`, `SegmentLeft`, `RoundEnds` |
| `lifecycle_server` | one name, 3 files, a server that creates, 2 clients, all of which destroy, 2 sizes, kills | `MappingsInsideFiles`, `SizeSeen`, `NeverInitialisedAgain` |
| `julia_draws` | 2 workers, QSIZE 3, draws of 0 to 9 tiles, 2 values of `julia_c`, fair | `TypeOK`, `RoomForAll`, `QuietBetweenDraws`, `EachTileOnce`, `DrawEnds` |

What the three smaller instances leave to the bounds: 4 segments put an empty
one first, in the middle, twice in a row and last; 3 files are the old one, the
one being created and one more that a client still maps; 9 tiles are up to three
drains of QSIZE requests, with and without a rest. Files are recycled when no
name and no process holds them, as inodes are, so that the run of the server
goes on for ever.

`conduct_any` and `concurrent_sides` do not check for deadlock: a thread may die
there, in `conduct_any` with the mutex, in `concurrent_sides` with a side mutex,
so that the others wait for ever. A walk of `IovecWalk` ends when the call has
moved everything, and `julia` when its window is closed. `conduct_records`
uses symmetry of the writers and of the readers, `lifecycle_server` of the
clients and of the files; both check no liveness.

The safe regimes these runs and the theorems below establish:

* `conduct.c`: one writer and one reader with requests up to the size of the
  buffer; or any threads with records of exactly the atomic limit when it divides
  the buffer (the sizes `julia.c` uses).
* `concurrentconduct.c`, MPMC build: one reader with calls of one round, and writers
  all of whose rounds are of the atomic limit, which divides the buffer, and fit
  the buffer together (`concurrent_writers`). That they fit together is not
  enough: writers of unequal rounds may wait with a `passByMiddle` that grows
  stale (`concurrent_stale_pass`), while rounds that divide the buffer always have
  room up to its end when they set the flag.
* `concurrentconduct.c`, SPSC build: any threads, when writes block and take one
  round, and the atomic limit is 1 or one thread reads, with calls up to the size
  of the buffer (`ReadsStayFresh`; `concurrent_side_rounds` is the latter). The
  writes may be of unequal sizes: `mutexWrite` is kept through the wait, so
  nobody moves `tmpEnd` under a sleeping writer.
* Life cycle: conduct.c, one creator per name. Anybody may open and destroy; that
  a created conduit can be found is not part of it (`lifecycle_destroy_newer`).

Outside of these regimes, and for some expectations of the README and the tests,
the code disagrees with what is said of it. Each of these configurations, of the
module its name begins with (`MCConduct`, `MCConcurrent`, `MCIovecWalk`,
`MCLifecycle`), ends in a counterexample. The first three are runs and findings of
PROJECT.json, one for each way in which rounds, reservations and wakeups go
wrong; the others are run by hand:

| Configuration | Property | Said | Done |
|---|---|---|---|
| `conduct_stale_pass` | `NeverMoreThanAsked` | README.md:16, as far as asked | a writer keeps `passByMiddle` from before its wait (933); when another writer moved `end` past the last cell, it fills the buffer to its end |
| `concurrent_two_readers` | `ReservationsDisjoint` | README.md:33, multiple consumers | the second reader takes an all-reserved buffer for a full one (608) |
| `conduct_eof_readers` | `EofReleasesReaders` | test_3thread_depedency.c:213, 280, 535 | `write_eof` signals once (888), a read that returns 0 wakes nobody: of two readers asleep one is never woken |
| `conduct_stale_limit` | `NeverMoreThanAsked` | README.md:16, as far as asked | `secondLimitLoop` (476) survives from an earlier round of a call that passes the last cell twice, the second time exactly; needs a call longer than the buffer, or two readers with calls of several rounds |
| `conduct_unequal_writers` | `NoLostWakeup` | README.md:12, blocking writes; conduct.c:53 | the one signal of a read (819) wakes a writer that still lacks room; a writer with room sleeps on |
| `concurrent_two_writers` | `ReservationsDisjoint` | README.md:33, multiple producers | `isEmpty` still makes all of the buffer available to the second writer while the first copies (575) |
| `concurrent_stale_pass` | `CopiesWhatItReserved` | README.md:16, :33 | a writer keeps `passByMiddle` from before its wait (592); its copy leaves its reservation |
| `concurrent_eof_sleep` | `EofReleasesReaders` | test_3thread_depedency.c:213, 280 | `write_eof` wakes nobody (1049) |
| `concurrent_side_lost` | `SideMutexesReturned` | README.md:13, non-blocking writes; README.md:34, SPSC | the exits of a writer without room (1092, 1100) unlock `mutexRead` and keep `mutexWrite`: one non-blocking write without room, or a second round without, and no thread writes any more |
| `iovec_empty_segment` | `OnePlace` | README.md:14, vectored read, write | the byte version of apply_loops (all of concurrentconduct.c, and conduct.c without MODE_MEMCPY) copies from or to the memory behind an empty segment, to the end of the call |
| `lifecycle_destroy_newer` | `KeepsItsName` | conduct_torture.c:115-117, a created conduit opens | conduct_destroy unlinks by name (218), also the file of a newer conduit |
| `lifecycle_two_creators` | `MappingsInsideFiles` | README.md:11, multiprocessing | one process unlinks, the other creates, the first opens and truncates (284) what the other has mapped |
| `lifecycle_truncate` | `MappingsInsideFiles` | README.md:11, :17 | concurrentconduct.c opens with O_TRUNC and does not unlink (358): creating a conduit of a name in use cuts the file under every mapping of it |

More disagreements follow from the same definitions and have no configuration of their
own, because a property would only restate a guard or because they are outside
of the models.

Reads and writes:

* `RetryBusy`: a blocking write of several rounds returns a short count when the
  trylock of a retry (conduct.c:878) finds the mutex taken;
  conduct_torture.c:118-120 aborts on that.
* A thread that dies in its critical section keeps the mutex (README.md:71 names
  a robust mutex as a possible improvement): `WriteCrash` and `ReadCrash` model
  it, every other thread then waits for ever, and the safety properties of
  `conduct_any` only say that what is left is consistent.
* A read at end of file returns 0 (conduct.c:747-757), where
  test_vectored_IO.c:51-57 expects a negative value.
* Of two MPMC writers that wait for room one may starve: `WritesGoOn` is about
  their union.
* Reads of concurrentconduct.c fail with `EPIPE` beside unread bytes (833), which
  `ConductFifo` states as `Drains = FALSE`; a round under way when another thread
  writes end of file is still validated, and nobody reads it.
* `write_eof` of the SPSC build unlocks with a flag without INTERNAL_FLAG_WRITE
  (1051), too: `mutexWrite` stays locked. After end of file no write goes on
  anyway, so `SideMutexesReturned` allows it.

Life cycle:

* conduct_open of a file under creation reads 0 as the size of its mapping
  (`SizeSeen` allows it): its conduct_close cannot unmap.
* A name of 100 characters is refused after `fileName[100]` was written
  (conduct.c:241); the clean-up of conduct_create then unlinks the file named by
  the first 100 characters, and that of conduct_open looks at a `cond->mmap`
  nobody has set.
* concurrentconduct.c closes the descriptor of a failed initialisation twice
  (402, 455), and maps anonymous conduits MAP_PRIVATE (395), so that processes
  do not share them after fork.

`julia.c`: paintit leaves on a read that fails, and workers on any failing call,
with an end of file in `two` (107, 137); no call fails as long as nobody writes
end of file, so these exits are never taken.

### Fairness

`FairSpec` assumes weak fairness of the steps of a thread inside the library
(the kernel schedules runnable threads), strong fairness of `Acquire` (every
holder releases the mutex after a bounded section, and a thread that competes
for it does not lose every race), and that the threads in `Looping` call again
and again, as the worker loops of the example programs do. It assumes no
spurious wakeups and no calls by anybody else. Strong fairness of the mutex is
an assumption about the pthread implementation: POSIX does not promise it, but
without it no blocking call of any program using a mutex can be shown to return.

In the two fair passing runs of conduits the looping reader makes only blocking calls. A
reader that only tries may find the mutex taken every time it comes, and then
nobody makes room for the writer: `WriteReturns` and `WritesGoOn` need a reader
that waits. `WriteReturns` is about a writer alone on its side; among several a
wakeup may be lost (`conduct_unequal_writers`). `conduct_eof_readers` and
`concurrent_eof_sleep` assume the same fairness, so that their reader sleeps on
although every thread that can run does.

`Julia`: the callback of GTK runs on (weak fairness of `Callback`), some worker
takes a request when there is one, and each worker replies when there is room;
these are what `NoLostWakeup` and fair conduits give. Which worker takes a
request is nobody's promise. `IovecWalk`: a thread in apply_loops is scheduled.

## Proofs

A theorem assumes the named assumptions of its module and, where it says
`ASSUME ... PROVE`, one of these about how the conduit is used. Each is true of
a run that checks the same properties:

| Assumption | Says | Run |
|---|---|---|
| `OneEachSide` | one thread reads, one writes and marks the end; no call is longer than the buffer | `conduct_rounds` |
| `Records` | reads and writes are of exactly the atomic limit, which divides the size | `conduct_records` |
| `NoEofCalls`, finitely many threads | nobody calls conduct_write_eof | `conduct_records` |
| `BlockingOneRoundWrites` | the SPSC build; writes block and are at most the atomic limit, so that no writer takes an exit that loses `mutexWrite` (`concurrent_side_lost`) | `concurrent_sides`, `concurrent_side_rounds` |
| `ReadsStayFresh` | the atomic limit is 1, or one thread reads, at most the whole buffer in a call | `concurrent_side_rounds` |
| `OneCreator` | conduct.c; a name has one creator; anybody may destroy | `lifecycle_server` |

Without the first two a second limit or a flag of an earlier round may be left
over and the queue is not one (`conduct_stale_pass`, `conduct_stale_limit`);
without the third one signal does not release all readers (`conduct_eof_readers`);
without the fourth a writer that gives up keeps `mutexWrite`
(`concurrent_side_lost`), and that is a use README.md:13 promises: the theorems of
`SidesProofs` say what holds short of it. Without the last a mapping may end up
behind its file (`lifecycle_two_creators`, `lifecycle_truncate`).

`CircularBufferProofs`: for every size of the buffer, `WriteRoundExact` and
`ReadRoundExact` say that a round with fresh limits moves exactly its size, to
or from consecutive cells, each once, whether or not it passes the last cell;
`RoundsKeepCount` that the bytes between start and end grow and shrink by that
size, also where start = end turns from empty to full or back.
The lemma `RoundStaysInside` is about any round, also one with stale limits:
`start` and `end` stay inside the buffer and no cell outside of it is touched.
The only assumption is `SizeAssumption`, what `conduct_create` checks.

`ConductProofs`: for any set of threads, any calls, any size and atomic limit,

* `TypeCorrect`: `Spec => []TypeOK`, in particular the indices stay in range;
* `MutualExclusion`: `Spec => []MutexDiscipline`;
* `EmptyIndices`: `Spec => []EmptyMeansSameIndex`.

All three follow from the theorem `Invariant`, `Spec => []IInv`. `IInv` adds
two facts to types and mutual exclusion. `CallsOpen`: a thread inside the
library has a call, a writer has as many bytes as it wants to write, and a
thread that is about to enter a section has something left to do; without it a
round could have size 0, or leave its cell undefined. `EmptyUnlessCrashed`:
isEmpty implies start = end in every state but those in which somebody died in
the middle of a round; without the exception it would not be inductive, and
with it `EmptyMeansSameIndex` follows because the dead thread keeps the mutex.
There is one lemma per action, grouped where actions differ only in the result
they return; what a round does to cells and indices comes from the lemmas of
`CircularBufferProofs`. `NextInv` combines them. The assumptions are
`SizeAssumption` and `ConductAssumption` (types of the constants, and that
`write_eof` is a call of one byte, as conduct_write_eof_FLAG makes it).

`ConductFifoProofs`: in the two regimes, for any size, atomic limit, threads and
calls,

* `ConductIsFifo`: `Spec => ImplementsFifo`. Every step of `Conduct` is a step of
  the abstract queue or a stutter: `FifoPut` and `FifoGet` for the rounds,
  `FifoReturn` for every exit, `FifoEnter` and `FifoPutEof`. What a round does to
  the queue (`QueueAfterWrite`, `QueueAfterRead`) follows from its being exact,
  by `WrittenCells`: a writer's cells lie behind the contents.
* `MovesWhatIsAsked`: `[]NeverMoreThanAsked`, from the same exactness.
* `OneEachSideLosesNoWakeup` and `RecordsLoseNoWakeup`: `[]NoLostWakeup`.
* `RecordsStayWhole`: `[]RecordsComeWhole`.

Exactness needs fresh limits, and there each regime has its own invariant on top
of `Base` (`IInv`, and how far a call is at each place, `Tidy`). `AloneInv`, one
thread on each side: between two rounds of the reader its flag is clear, and
a second limit that is left over is behind what the call has moved, so a call no
longer than the buffer cannot stop right behind the last cell again; the flag of a
sleeping writer is still right because nobody else writes. `RecordInv`: start and
end are multiples of the atomic limit, a call is one round from a multiple, so no
flag and no limit is ever set and the contents are records. Lost wakeups are about
`pthread_cond_signal`, which wakes one thread of several: `EnoughAwake` says that
while anybody sleeps on a side, the threads of it that are awake are enough for
all there is to do. A record needs one reader, so one signal for one record keeps
that; its proof counts threads, hence finitely many.

`ConcurrentProofs`: in both builds, for any threads, calls, size and atomic
limit, `TypeCorrect` (the four indices stay in range) and `CopiesInsideBuffer`
(so does the next cell of every running copy), in the states in which
`ReservationsDisjoint` fails too. The invariant adds `CallOpen` to the types: a
thread before a round has something left to do, since a round of size 0 could go
without passing from the last cell, and a running copy has cells to visit, all
of them in the buffer. `RoundStaysInside` gives that for the limits of a round,
fresh or stale; the hypothesis it needs, that a round without passing ends
before the last cell, comes from `WriteWithoutPassing` and `ReadWithoutPassing`
for whatever start, end, tmpStart and tmpEnd are when the round is reserved.
A broadcast moves other threads, so `OneActs` says once what a step may do to
them and the lemmas of the actions are about the thread that acts.
`LosesNoWakeup`, `[]NoLostWakeup`, has no assumption either: the broadcast after
the unlock wakes everybody, so it is enough that its thread is still to make it.
`IInv /\ NoLostWakeup` is inductive; the delicate step is a reservation by another
writer, which must not turn a justified sleep into a lost one (`RoomShrinks`).

`SidesProofs`: the SPSC build, for any number of threads on each side.
`SidesValidateInTurn` (`[]AloneOnItsSide`), `SidesCopyApart`
(`[]ReservationsDisjoint`) and, for readers that stay fresh, `SidesCopyTheirCells`
(`[]CopiesWhatItReserved`). The invariant `SInv` has four parts. `IInv`. `Excluded`: until end of file the side
mutex belongs to the thread that is past its lock, and at any time at most one
thread of a side has cells reserved; the second does not follow from the first
after conduct_write_eof has unlocked `mutexRead` under a reader, and holds because
end of file stops all reservations. `Indices`: the claim of a reader begins at start,
ends at tmpStart and lies in what is used, that of a writer begins at end and lies
in what is free; without a claim tmpStart is start, and tmpEnd is end.
`WritesOnce`: a write moves everything in its only round, with the flag it set
before it fell asleep still right, so no writer gives up. `FInv` adds `ReadsFresh`, the
same for readers, where the second limit of an earlier round is the danger.

`SidesAreFifo`: `Spec => ImplementsFifo` for the same use of the SPSC build. A byte is
stored long before its round is validated, so the queue is what lies between start and
end, and a call has moved what it has copied less the current round (`validated`).
`QInv` adds to `FInv`, for each thread in a round: the `copied` first cells of
its claim hold the bytes of that round (`Copied`), and the round fits what is left
of its call (`PieceOf`). That copies of other threads leave this true is
`SidesCopyApart` once more. A copied byte is then in no cell of the queue
(`QueueUncopied`), every step but a validation is a stutter or one of the entering and
leaving steps, and validations are `Put` and `Get` (`FifoPut`, `FifoGet`, from
`ContentsAppended` and `ContentsTaken`).

`IovecWalkProofs`: for every set of iovecs and every division into rounds and
loops, `TypeCorrect`, `VectoredMovesTheStream`, `NeverBehindTheArray` and
`PlaceNeverLost`: with memcpy, or without empty segments, the place in the
segments is that of the bytes moved (`OnePlace`). The invariant (`WalkInvariant`)
is types and `OnTheStream`, which says where the byte version may have lost it: in
an empty segment, having copied. `Before`, the sums of the lengths, is a constant
with an assumption, because a sum over a sequence is a recursion the provers do
not unfold. `PieceFits` says that a piece of memcpy stays in segment, request
and loop and is not empty unless the segment is.

`JuliaProofs`: for any finite set of workers, any QSIZE and any number of tiles,
`TypeCorrect`, `NobodyWaitsForRoom`, `QuietWhenIdle` and `DrawsAreRight`. The invariant of
`PipelineInvariant` counts: requests, busy workers and replies together are
`repcount` (`Counted`), and `repcount` is below QSIZE while the main thread
requests, and 0 between draws (`Drained`). `DrawsAreRight` adds `DrawInv`: each
request sent is in exactly one place (in `one`, with a worker, in `two`, or
painted), and everything computed since the draw began used one `julia_c`.
That is why the lemmas `TailKeeps` and `AppendKeeps` are about moving a record
from one place to the next.

`LifecycleProofs`: for any processes, names, files and sizes with one creator per
name in conduct.c, `NoAccessBehindTheFile`, `SizeIsOfTheMapping` and
`UsersKeepTheirConduit`. The invariant (`LifecycleInvariant`) says what each
process knows of its file at each step (`Place`: the name is free when it is
about to create, the file has length 0 before ftruncate, a mapping has the
length of its file ...), that a file under creation has one creator, and that
the stored size is 0 or the length of the file. `PlaceKept` is the argument
used for every action: a process whose file and name others leave alone knows
what it knew.
Nobody's destroying matters to it: an unlink takes a name from a file and leaves
the file to those who have it.

Only model-checked: in the MPMC build the refinement of `ConductFifo`,
`ReservationsDisjoint` and `CopiesWhatItReserved`;
and all liveness (`WF_`, `SF_` and `~>` are out of reach of the prover).

## Not modelled

* `conduct_show` (prints), the drawing of `julia.c`, the Makefile.
* `test_3thread_depedency.c`: a benchmark whose conduits are those of `julia.c`;
  its end of file is checked on the conduits themselves. Pipes and sockets
  belong to the kernel.
* `sortedLinkedList.c`: linked into the concurrent build, called by nothing.
* Anonymous conduits as files (there is none), the contents of `struct content`
  under a second creator, names that copyFileName refuses.
* Failures of pthread calls other than trylock, and of the calls of
  `conduct_open` beyond those of `Map` and `LockFails`, which leave nothing
  behind either.

## Plan

Done, in this order: `CircularBuffer`, `Conduct`, `ConductFifo` and the
refinement, `ConcurrentConduct`, the proofs of `IInv`; then the SPSC build,
`IovecWalk`, `Lifecycle` and `Julia` with their proofs, and the types of
`ConcurrentConduct` in both builds.

Then the proofs of `ConductFifoProofs` and `SidesProofs`, with the refinement by
the SPSC build, and those of the remaining type invariants.

Next: reservations of the MPMC build with one reader, which queue up between `end`
and `tmpEnd`: `ReservationsDisjoint`, `CopiesWhatItReserved`, then its refinement,
where a round becomes visible when its turn to validate comes.
