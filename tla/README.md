# TLA+ models of cdrtools

cdrtools records and reads CDs: `cdrecord` writes tracks to a drive, `readcd`
and `cdda2wav` read them back, `mkisofs` lays out file system images, and
`libscg` and `librscg`/`rscsi` carry the SCSI commands. This directory holds
TLA+ modules of the parts whose correctness depends on the order of steps of
several actors, the TLC configurations that check them on small instances, and
theorems about them that TLAPS checks.

## Inventory

| component | state | operations | partners | what is hard |
|---|---|---|---|---|
| input FIFO of cdrecord (`cdrecord/fifo.c`) | a ring of slots in shared memory: owner, users, fd, len, data; counters puts, gets, done | child: `faio_reader`, `faio_read_track`, `faio_read_segment`; parent: `await_faio`, `faio_get_buf`, `fifo_percent`, `kill_faio` | track input files on one side, `write_track_data` on the other | two processes that poll words of shared memory without a lock; stores after the hand-over; time limits; a child with inherited exit handlers |
| track writing (`cdrecord/cdrecord.c`) | track table, bytes read and written, block size, last-block flag | main's loop over the tracks, `write_track_data`, `pad_track`, `write_secs` | FIFO, drive driver | must cut the input exactly like the FIFO; boundary cases of padding and clipping |
| packet writing (`cdrecord/wm_packet.c`) | the same, per packet | `write_packet_data` | as above | which packet is the last one |
| exit handling (`cdrecord/cdrecord.c`, `libschily/comerr.c`) | handler list, `exflags`, `scgp->running`, `scgp->cb_fun` | `intr`, `intfifo`, `scsi_cb`, `exscsi`, `excdr`, `comexit` | every other part | signals at any point, handlers that issue SCSI commands themselves |
| command transport (`libscg/scsitransp.c`) | the command block, `running`, callback, retry decision | `scg_cmd`, `scg_vhead`, ... | drivers above, OS back end below | retries, interrupts during a command |
| remote SCSI (`librscg/scsi-remote.c`, `rscsi/rscsi.c`) | two ends of a byte stream, open device | open, close, send command, reset, ... | `libscg`, drive | framing on the error paths |
| `readcd` (`readcd/readcd.c`) | position, retry counters, error count | `read_generic`, `read_retry`, `write_disk` | `libscg` | retry bookkeeping |
| `cdda2wav` ring (`cdda2wav/ringbuff.c`, `semshm.c`) | ring of buffers, two pipes as semaphores | `get_next_buffer`, `define_buffer`, `get_oldest_buffer`, `drop_buffer`, `semrequest`, `semrelease` | reading parent, writing child | wake-ups, termination of one end, in-place changes of a buffer the other end compares with |
| drive drivers (`cdrecord/drv_*.c`) | state in the drive | sequences of SCSI commands | `libscg` | lies in firmware |
| data formats, `mkisofs`, `libhfs_iso`, `libedc`, support libraries, build system | none shared between actors | conversions | | no interleaving |

What makes each component correct:

* **FIFO**: a slot is never filled while the parent uses it; the parent gets the
  segments in order, without loss or repetition; both processes agree on where
  each segment begins; neither waits for ever, but for an interrupt that the parent
  forgets; a burn that reports success has written everything; a premature end of the input is noticed.
* **Track and packet writing**: a burn reported as good has all of its input on the
  medium, in order and in the announced length; no block follows the one flagged as
  the last of its track.
* **Exit handling**: whatever interrupts the end of the program, the FIFO process is
  stopped and the drive gets its cache flushed and its sector size and door back; no
  write starts after a signal; the program ends.
* **Transport and remote SCSI**: both ends agree where each message ends, on the error
  paths too; a call returns, with the answer of that call.
* **readcd**: a reread neither skips nor repeats a sector; retries are bounded.
* **cdda2wav ring**: the child only sees defined buffers, in order; no wake-up is
  lost; the end of one process is noticed by the other.

`PROJECT.json` lists the hazards behind these properties, each with its line.

## The core: the FIFO of cdrecord

### What is modelled

`Faio` models `cdrecord/fifo.c` and the loop that consumes it. The correspondence:

| model | code |
|---|---|
| `owner`, `users`, `fd`, `len`, `bufp` | fields of `faio_t`, one per slot; the data in a slot is the track, offset and length it was read from |
| `puts`, `gets`, `done` | `struct faio_stats` |
| `cpc`, `buf_idx_reader`, `trackno`, `rbytes`, `rlen`, `closed` | where the child is, its locals, and the input files it has closed |
| `ppc`, `buf_idx`, `cur`, `wbytes`, `wspt`, `wlen`, `pusers` | where the parent is and its locals: track, bytes read of it, current block size, count, the register of `--f->users` |
| `child` | alive, killed, killed by an interrupt that the parent forgot, or left by the timeout of `faio_wait_on_buffer` |
| `ending`, `outcome` | an interrupt noted in `didintr` or `cb_fun`, then the progress of the exit handlers; the reason for the end |
| `written`, `restores` | blocks the drive accepted, runs of `exscsi` |

`Child*` actions are `faio_reader`/`faio_read_track`/`faio_read_segment`; `Parent*`
actions follow main from the grace time through `await_faio`, the session, the
loop over the tracks, `write_track_data` with `faio_get_buf` inlined, and the exit
handlers. An action is one access to shared memory that the other process can
observe, together with the process-local work that follows. So
`f->owner = owner_reader; f->users = sp->users; sp->puts++` are three actions, and
`if (--f->users <= 0) f->owner = owner_faio` is a load, a store and a store.
`await_faio`'s scan is one step because at that point no slot belongs to the child.

Interrupts. The child is forked before any handler is installed, so the interrupt key of
the terminal kills it, whatever the parent does; a signal to the parent alone does not.
What the parent does depends on where it stands (`ParentInterrupt`): before the grace
time and between two calls of `signal()` it dies too, without exit handlers
(`InterruptKills`); in the grace time `intr` notes it and the next test of `didintr` ends
the program (`InterruptNoted`, `ParentNoted`); between the last test (`ParentLastTest`,
cdrecord.c:932) and `signal()` (948) `intr` notes it and nobody asks any more
(`InterruptLost`); later `intfifo` calls `comexit`, at once (`InterruptLeaves`) or, when
a command is running, behind it (`InterruptNoted` again). `ExitHandlers` has the
stores of this protocol one by one, a second interrupt, and the parts of `exscsi`.

Memory model: the accesses take effect in program order. `owner` and `users` are
declared `volatile`; `len` and `fd` are not, and the calls between their stores and
the store to `owner` keep a compiler from moving them. Reordering by a processor
with a weaker memory model is outside the model.

Input: the end of a file stays the end (a terminal or a growing file is outside),
a read delivers what was asked for unless the file ends (`fill_buf` loops), and
each input is read by this program only.

`FaioPipe` is the abstract specification: a lossless channel of at most N segments,
of which one may be on loan. `FaioRefinement` gives the mapping: the channel is
the slots between what the parent released and what the child published. A slot
is published when the owner word changes, not when `puts` does; it is taken when
`gets` is counted and returned by the next `faio_get_buf`.

### Modules

| module | contents |
|---|---|
| `Faio` | the model, its properties, and mutated forms of some definitions that show each property can fail |
| `FaioPipe` | what the FIFO promises |
| `FaioRefinement` | refinement mapping, `ImplementsPipe` |
| `FaioInv` | the inductive invariants: `Inv` of the ring, `Delivered` of what reaches the drive, `EofInv` of the scan for dead pipes, `Gone` of how the child can have left |
| `FaioProofs` | each action keeps `Inv`; theorems about the ring, and that it implements `FaioPipe` |
| `FaioDelivery` | each action keeps `Delivered`, `EofInv` and `Gone`; theorems about the burn, the counters, the owner words, the scan and the waiting |
| `NatSums` | lemmas: induction over numbers, recursive sums; also used for the track writing |
| `MCFaio` | instances for TLC |

### Runs

| run | checks | shows |
|---|---|---|
| `faio` | `EofInv` (with `TypeOK`) and the safety invariants, `Burns`, `ImplementsPipe` | without faults, for every table of `AllTables` |
| `faio_faults` | `Inv`, `Delivered`, `NobodyStuck`, `OwnershipCycle`, `EndsOrHangs` | with failing reads, failing drive commands, interrupts at any point, stalled input and a child that gives up: both processes end, unless the child died of an interrupt that the parent forgot |
| `percent` | `NeverFullWhileStreaming`, violated | the manual says the printed level never reaches 100% while the FIFO streams; `puts + 1 - gets` does |
| `maxwait` | `ChildStaysOn`, violated | the limit of 240 s is shorter than the time a blank command may take, and the child starts to wait before blanking |
| `dead_pipe` | `DeadPipeWritesNothing`, violated | a dead pipe of a later track is beyond the slots `await_faio` looks at |
| `restore` | `RestoredOnce`, violated | the child that gives up runs the parent's exit handler, and the parent runs it again |

Bounds. N is 3, the minimum `init_faio` accepts (`MIN_BUFFERS`): enough for a free,
a filled and a held slot at once, and small enough that tracks of one to six
segments wrap the ring, leave it partly filled, and fill it exactly. The tables of
`AllTables` have one, two and three tracks with known size (the file equal, longer,
shorter), unknown size (ending on a segment boundary and off it), size zero, the
empty pipe, block sizes that are one or several sectors and differ between tracks,
and two tracks from the same pipe. A track is at most 17 units long and a segment at most 4. No
counter needs an artificial bound: the input is finite.

Faults are switched by the constant `Faults`; `LongPhases` names the phases of the
parent that may outlast `WRITER_MAXWAIT`. In the run `faio` both are empty, so what
it shows of liveness is about a drive that answers in time.

Deadlock is checked in every run: the only state without a step is the end of both
processes, which `Idle` marks. (`Hung` has one: a further interrupt.)

Fairness. `FairSpec` assumes weak fairness of `ChildStep` and of `ParentStep`: the
operating system schedules both processes, and a `read` or a drive command that the
process waits for returns. It does not assume that an interrupt happens, and it
does not force a choice among a process's outcomes.

### Proofs

For every N >= 3, every set of track tables, every subset of faults and of long
phases, from the named assumptions of `Faio` alone:

| module | theorems | state |
|---|---|---|
| `FaioProofs` | `Invariant` | `Inv` |
| | `TypeCorrect`, `SlotsExclusive`, `SegmentsAgreed`, `UsersDrained` | `TypeOK`, `SlotExclusive`, `SegmentAgreed`, `UsersDrain` |
| `FaioDelivery` | `DeliveredAlways` | `Delivered` |
| | `InOrder`, `AllBurnt`, `PercentAlwaysInRange` | `WrittenInOrder`, `BurntComplete`, `PercentInRange` |
| | `OwnersCycle` | `OwnershipCycle`, an action property |
| | `EofInvariant`, `DeadPipesStop` | `EofInv`, `PrematureEOFAborts` |
| | `NobodyIsStuck` | `NobodyStuck` |
| `FaioProofs` | `RingImplementsPipe` | `ImplementsPipe`, the refinement |

The argument. None of these invariants is inductive alone. That a slot is not
shared follows from which slots are in use, and this is not readable from the owner
words: the child may force the last slot's word while nobody looks at it, and a
slot the parent holds may be marked `owner_reader` until it counts down `users`.
`Inv` therefore counts. `InRing`, from `puts` and `gets` corrected by where the two
processes stand (`Published`, `Released`), is the number of occupied slots; they are
those from `buf_idx` on (`InUse`). On this `Inv` states

* `Cursor`: the child's index is the first free slot, or `buf_idx` if all are in use;
* `Owners`: the owner word each slot has, with the forced last slot as the exception,
  possible only for a child that read at most N segments;
* `Contents`: each occupied slot's `fd` and `len` match the data in it, and the data
  is a segment `faio_read_track` can have cut;
* `Chain`: each occupied slot's segment begins where the one before it ended, and the
  last ends where the child goes on;
* `ParentPlace`: the first begins where the parent goes on;
* `BlockSize`: the parent's reduced block size can only follow a last segment, hence
  its `asks` is never less than what the child asked for. This is what makes the "short
  segment" branch of `faio_get_buf` unreachable;
* `Users`: a count above one never occurs, so the decrement always reaches zero or less.

`Chain` and `ParentPlace` tie the two copies of the loop together across any number
of segments; no property of a single slot does. `ParentKeeps` and `ChildKeeps` have a
step per action, and under it one for each part of `Inv` the action disturbs; the
mapping used by the parts is that of `FaioRefinement`. TLC checks `Inv` in the run with faults.

The forced last slot deserves a word: `Forced` allows an owner word that lies, but
only with `puts <= N`, and when the parent comes to that slot it holds a segment or
is never asked for again. `CursorFree` and the lemmas about `ChildForceLast` and
`ParentRelease` settle this.

`Delivered` carries this from the ring to the drive. `WrittenInOrder` speaks of the
list of blocks the drive has taken, and says nothing of the parent, so no step keeps it by
itself. `Counted` adds that the parent's `wbytes` is where the last block of the
current track ends (`CurEnd`); with `SegmentAgreed` from `Inv` the next block then
begins there. `TracksComplete` says that a track behind the parent is on the drive in
full: the parent leaves the loop over a track when it has counted all of it, or when a
segment of length 0 tells the end of the file, and `Contents` and `ParentPlace` say
that such a segment is only cut where the file does end. The exception in `Counted` is a track
announced with size 0 and a file behind it, of which `wbytes` counts what is
clipped from the block. `Awaited` says that behind `await_faio` the ring has been full once
or everything has been read; `OwnersCycle` needs it, since only the forced last
slot may leave the cycle, and only while the parent does not look at it. TLC checks
`Delivered` in the run with faults.

`RingImplementsPipe` rests on `FlightIs`: the sequence of segments that the mapping of
`FaioRefinement` reads off the ring is made of the slots behind the held one, `Published -
gets` of them, each in use. With it the store of the owner word is `FaioPipe`'s
sending, the count in `gets` its receiving, the next `faio_get_buf` its return of
the segment; every other step leaves the channel alone.

`DeadPipesStop` is about the scan of `await_faio`: a pipe on stdin that delivers
nothing stops the burn before anything is written, if its segment is among the first
N. Which slot that is depends on all tracks before it, so `SegmentsBefore` adds up
what they take, and `EofInv` compares this sum with the ring while it fills for the
first time (`FirstRound`):

* `ReadSoFar`: `puts` is at most `SegmentsBefore` of the child's track plus the segments
  of what it has read of it (`Cuts`); and a file that was closed before answers -1, an
  empty pipe 0. `CutsBound` is the arithmetic: a track never takes more segments than
  `SegmentsOf`, because each segment but the last is whole.
* The dead pipe's segment is therefore in a slot at or before `SegmentsBefore[t]`. When
  the last slot is full or forced and this is below N, the child has passed the track
  (`ScanComplete`); the slot before belongs to another file, so the scan sees it.
* Conversely a slot that the scan stops at is filled (`fd` of a free one is still `NoFd`),
  begins its track, and its track is a dead pipe (`ScanSound`).

The first part of the property asks that reads do not fail (`"read" \notin Faults`): a
pipe whose read fails delivers -1, which the scan does not look for. The second, that
the scan stops for no other reason, holds with every fault. TLC checks `EofInv` in the
run `faio`.

`NobodyStuck` is the safety side of `Burns` and `EndsOrHangs`, which are liveness and stay
with TLC: but for one case, no state is one in which a process polls an owner word that
nothing will change. Both processes cannot poll at once: a child that polls has filled
the ring (`PollsWhenFull`), and while the parent polls the ring is not full. A child that
has read everything has published what the parent still asks for, or has forced the last
slot: a table shorter than the ring is where this matters, and the mutant without the
forced word shows it. `Gone` adds how the child can have left: it is killed only once the
parent is ending or is about to, and before the scan it gives up only on a full ring.

The one case is in the code. An interrupt from the terminal between the last test of
`didintr` and the `signal()` behind the loop kills the child and is forgotten by the
parent, which then polls the last slot in `await_faio`, without a time limit, unless the
ring was full by then (`Hung`). A further interrupt ends it. `NobodyStuck` excepts exactly
this child (`"forgotten"`), and `EndsOrHangs` says that a run in which the two processes do
not end stays in `Hung` for ever; TLC refutes both without the exception.

`SegmentsBefore` is a recursive function. The library's induction theorems take an
operator as a parameter and cannot be used here, but well-foundedness of `<` on the
numbers can, as a statement about sets: every set of numbers with an element has a
least one (`LeastInNat` in `NatSums`). `SumDefined` builds from it the function that
the recursive definition asks for; `SegmentsAdd` has the recursion equation, that the sum is
a number, and that it grows.

Model-checked only: the liveness properties `Burns` and `EndsOrHangs`. They rest on fairness,
which is a statement about `ENABLED`, outside the prover's reach.

### Not in the model of the FIFO

Allocation and locking of the shared memory, the statistics printed at the end,
byte swapping of audio data, Mac OS and OS/2 variants, the packet branch (which
calls the same `get_buf`; `TrackWrite` has it without the FIFO), several descriptors
read by multiple users of a slot (`sp->users` is always 1), and a kill of the child
by a third party.

## The ring of cdda2wav

### What is modelled

`CddaRing` models the two processes of `cdda2wav` after the fork: the parent
(`forked_read`) reads sectors into a ring of buffers in shared memory, the child
(`forked_write`) saves them. `ringbuff.c` keeps the ring, `semshm.c` the waiting.
Nothing in the tree defines `USE_SEMAPHORES`, so the variant with two pipes is the
one that is built, and the one modelled.

| model | code |
|---|---|
| `he_fill_buffer`, `last_buffer` | the two pointers in shared memory, as indices (`NULL` is -1) |
| `total_segments_read`, `total_segments_written`, `child_waits`, `parent_waits`, `eorecording`, `nSamplesToDo` | the words of the same names in shared memory, samples counted in segments |
| `data` | which segment a buffer holds |
| `p2c`, `c2p` | bytes in `pipefdp2c` (read by the parent) and `pipefdc2p` (read by the child) |
| `rpc`, `iloop`, `rsig` | where the parent is, `global.iloop`, a signal on its way to it |
| `wpc`, `nSamplesDone`, `retval`, `wsig`, `left` | where the child is, its locals, a signal, why it ended |
| `saved` | the segments the child has saved |
| `stale` | history, read by no action: a process was woken and found nothing to do |

`Reader*` actions follow `get_next_buffer`, `do_read`, `define_buffer` and
`CloseAll` in the parent; `Writer*` actions `get_oldest_buffer`, `do_write`,
`drop_buffer` and `CloseAll` in the child. A wait is three steps, as in
`semrequest`: compare the counters, raise the flag, read from the pipe; a release
is three steps, as in `semrelease`: test the flag, lower it, write the byte. An
assertion that fails ends the process at once, without `CloseAll`; so does the
child's use of a `NULL` buffer. `do_read` with its retries is one step, since it
changes nothing the child looks at except `eorecording` and `nSamplesToDo`, whose
stores are steps. Each word is read and written in one access.

Ends: the parent's read error, the child's write error (which interrupts the
parent), the end of file on a pipe whose other end is gone, `SIGPIPE`, an interrupt
from the terminal, and a `SIGKILL` to either process. A signal during `exit()` ends
the exit handler it interrupts. The constant `Faults` says which of them may happen.

### What the runs show

| run | checks | shows |
|---|---|---|
| `cdda_ring` | `BufferExclusive`, `SavedInOrder`, `OneByteEach`, `RingAssertions`, `LosesAtMostLast`, `RingInv` (with `TypeOK`), `SaveInv`, `EndsOrSleeps` | every fault at every point: the ring is shared without overlap as long as no wake-up was stale; at a real end of the recording at most the last segment is missed; each run ends or falls asleep |
| `cdda_wake` | `WakeMeansReady`, violated | a byte can answer a later wait than the one its buffer was counted for, and the child then saves a buffer nobody has defined |
| `cdda_asleep` | `ReadsAll`, violated | a release between the comparison and the raising of the flag is lost, and the two processes can sleep on each other |

These two disagreements are why several properties of `cdda_ring` carry `stale`, and
why liveness is `EndsOrSleeps`: what the code guarantees is the absence of every
other failure. `Idle` marks the two states without a step, the end of both
processes and the common sleep (`Asleep`); any other one TLC reports as a deadlock.

Bounds: two buffers are the fewest the jitter correction allows (`overlap > 0`) and
make full and empty meet often; five segments go round that ring twice and a half.
The length of the recording bounds the counters.

Fairness: weak fairness of each process. A read from the drive and a write to the
file return; no fault is forced to happen.

### What is proved

`CddaRingProofs` proves for every number of buffers, every length and every set of
faults that `RingInv` is an invariant (`RingInvariant`), and from it `TypeOK`
(`RingTypes`), `OneByteEach` (`BytesAnswerFlags`), `RingAssertions`
(`AssertionsHold`) and `BufferExclusive` (`BuffersExclusive`). The argument:

* `Counters` bounds `Defined` (the difference of the counters) by 0 and B. It needs
  nothing from the wake-ups, because `define_buffer` and `drop_buffer` assert their
  bounds: a process that was woken in error ends there.
* `Wanted` says that what is still wanted covers what is still to be read, so that
  `*nSamplesToDo -= global.iloop - ...` at a real end never wraps.
* `Bytes` says for each pipe where the two processes can be while the flag is raised,
  while it is being answered, and while the byte is on its way. It is what makes
  `OneByteEach` inductive.
* `Ring` ties the indices to the counters: unless a wake-up was stale, the parent's
  index is `Defined` buffers ahead of `last_buffer`. Since the indices move
  before their counters, `Behind` corrects for a child between the two. `Defined`
  strictly between 0 and B then separates the two buffers.

There is a lemma per part, with one step per action.

`SaveInv` (`SaveInvariant`) goes on from there to what is saved, and gives
`SavedInOrder` (`SavedAsRead`) and `LosesAtMostLast` (`LosesLittle`):

* `Buffered` says which segment each defined buffer holds, counted from `last_buffer`.
  `Ring` is what keeps a new segment from landing in a buffer that still counts.
* `Saving` ties `nSamplesDone` to the segments saved and to the counter of those taken
  out, as long as no real end of the recording has lowered `*nSamplesToDo` under the
  child.
* `Left` says what a child that has left its loop may have missed. The parent
  stores `*eorecording` before it counts the last segment; the child that sees it in
  between stops one short, never more.

TLC checks `RingInv` and `SaveInv` in the run `cdda_ring`. Model-checked only:
`EndsOrSleeps`, which is liveness.

### Not in the model of the ring

The samples in a buffer, the overlap comparison with the previous buffer, files and
track boundaries, and whom `getppid()` names after the parent has died. `iloop` starts as
`*nSamplesToDo`; the two samples that `cdda2wav.c` adds to an odd count when the
sampling rate is halved (2696) are below the segments that the model counts in.

## Writing tracks and reading them back

### What is modelled

`TrackWrite` models what reaches the medium: main's loop over the tracks, the loops of
`write_track_data` and `write_packet_data`, `pad_track`, and of the MMC and the TEAC
driver the parts that open, write and close a track. `Readcd` models `read_generic`
and `read_retry`. `WriteAndRead` composes them: the disc that a session reported as
good leaves behind is the medium `readcd` copies.

| model | code |
|---|---|
| `session`, `trk` | the track table after `gargs` and `set_trsizes`; main's `i` |
| `pc` | where main is: opening a track, in its pre-gap, in the loop (`read`, `address`, `write`), behind it, padding, closing, fixating |
| `bytes_read`, `bytes`, `bytespt`, `startsec`, `islast`, `retried` | locals of the two write functions |
| `padsecs`, `amt` | `trackp->padsecs`, the argument of `pad_track` |
| `last_done` | the variable of `drv_jvc.c` |
| `disc`, `stale` | the drive: what the sectors hold, and by how much it reports its next writable address too low |
| `linked`, `sealed`, `padlost` | history: a block announced another one; a flagged block was taken; a pad block was refused |
| `rpc`, `addr`, `cnt`, `end`, `try`, `errors`, `didintr` | locals of `read_generic` and `read_retry`, `rp->errors` |
| `hard`, `weak` | sectors of the medium that cannot be read, or sometimes can |

Sectors are tagged with the track and the unit of input they hold, so loss, order and
repetition can be told. The drive is strict: it takes a block only at its next writable
address. What a retry loop of `write_secs` does with a drive that is not ready is a
stutter. A write is refused, an address, an open, a close or the fixation fails when
`Faults` allows it; a variable packet may also be torn, and the drive may then go on
reporting the old address, which is what the comment in `wm_packet.c` tells of the
Ricoh drives.

Only data tracks with one sector size are in the model; `-shorttrack` only with SAO, as
`gargs` has it; the TEAC driver has neither SAO nor packets nor unknown sizes.

### What the run shows

| run | checks |
|---|---|
| `roundtrip` | `BothInv` (with the types), `MarksLast`, `FlagEnds`, `TrackClosed`, `DataOnDisc`, `LengthKept`, `ReadInPlace`, `DataSurvives`, `BothEnd` |

What a reader of the code should take from them, beyond their statements:

* The last-block flag is looked at by the TEAC driver only (`drv_simul.c` prints it).
  `MarksLast` says exactly when a track ends without it: an input that ends on a block
  boundary before its announced end, a track whose last sector is the 300th and
  partial (300 is compared with whole sectors, so 299 and a bit need no padding and
  get no flag), and an empty input. `TrackClosed` shows that the driver's dummy block
  makes up for it, unless a refused block was already counted in `last_done`, which
  is set before the write.
* `write_packet_data` flags by other conditions, and its padding may follow a flagged
  packet: `FlagEnds` excepts this case. The padding behind variable packets is sent
  to an address the drive does not accept, and is lost without an error.
* main and `write_track_data` drop the result of `pad_track`. `padlost` marks such a
  session: it is reported as good, its track is too short, and in SAO mode the
  following blocks are refused. `LengthKept` and `TrackClosed` except it.
* A packet sent again may be on the medium twice; `DataOnDisc` holds for the newest
  copies.
* `readcd` without `-noerror` drops the whole chunk in which a sector cannot be read.
  The run-out blocks behind a track written in TAO mode are such sectors, so the tail
  of the data comes back only if padding fills the chunk: the condition `PadFills`.
* With `retries=0` good sectors count as errors; errors do not change the exit
  code of `readcd`; an interrupt during the last chunk has no effect. `InPlace` says
  what is still true then.

Bounds: a sector is two units, so that partial sectors exist; the minimum length is four
sectors instead of 300, the pre-gap two instead of 150, a transfer two or three sectors.
Sizes lie below the minimum, half a sector below it, at it and above it; files are
shorter, as long or longer than announced; a second track follows in three kinds of
session. `readcd` reads chunks of two or three sectors with none or two retries, with
two worn sectors. The end of a disc without capacity is 4 instead of 10000000.

Fairness: weak fairness of each program's steps: reads of the input and commands to the
drive return. Nothing forces a fault or an interrupt.

### What is proved

For every set of sessions, options and worn sectors, every sector size, minimum
length and pre-gap, and every set of faults, from the assumptions of `TrackWrite` and
`WriteAndRead`:

| theorem | property |
|---|---|
| `BothInvProved` | `BothInv`, the inductive invariant of both programs |
| `BothTypesProved` | `BothTypeOK` |
| `FlagEndsProved` | `FlagEnds`, an action property |
| `MarksLastProved`, `TrackClosedProved` | `MarksLast`, `TrackClosed` |
| `DataOnDiscProved`, `LengthKeptProved` | `DataOnDisc`, `LengthKept` |
| `ReadInPlaceProved`, `DataSurvivesProved` | `ReadInPlace`, `DataSurvives` |

The invariant is in `TrackInv` for the writer and in `RoundTripInv` for both; the lemmas
are in `TrackWriteProofs` and `WriteAndReadProofs`. None of the properties is inductive:
each speaks of the end of a track or of a session, and what makes it true is how the
loop counts before. The parts, one lemma each with one step per action:

* `Numbers`: at each place of the loop, how `bytes_read`, `bytes` and the block at hand
  relate. As long as input goes on only whole transfers were sent (`Going`); a block
  that is shorter takes the last of the input (`Over`). From this follow when the flag
  is set, since it tests `bytes_read`, and when padding follows, since that tests
  `bytes`; `MarksLast` and `FlagEnds` compare the two. An announced size of 0 with a file
  behind it is the exception: an empty block, which is why one transfer is assumed to be
  shorter than a minimal track.
* `LinkInv`: of the TEAC driver, that `last_done` means a block that closed the link.
* `DataInv`: each sector of input on the medium is one that was counted as sent, and of each
  sector sent there is a copy behind every copy of the earlier ones. For a packet
  that is sent again this is all that holds; outside variable packets each sector is
  there once. A torn packet may have left sectors that are not counted (`Cut`).
* `LengthInv`: the sectors of a track number what `bytes` says, then with the padding the
  announced length.
* `TailInv`: between the data of a single track and its run-out blocks lies the padding.
* `ReadInv`: `readcd` is at the sector whose number is the length of its copy, what it has is
  the medium or zeros for a sector it could not read, and a read error ends it only at one.

`DataSurvives` needs the last two: a chunk that is dropped contains a sector that cannot
be read; on a fresh disc this is a run-out block, and the padding in front of it is at
least as long as the rest of a chunk, so no data goes with it. It is stated sector
by sector, which also says where each one is found.

`Start`, the sum of the announced lengths that the TEAC driver compares with, is a
recursive function; `StartIsSum` shows it is a number, by `SumDefined` of `NatSums`.
Contents and lengths of the medium are counted with the cardinality lemmas of the
library. The assumption `Options # {}` says that `readcd` can be started at all.

Model-checked only: `BothEnd`, which is liveness.

## How cdrecord ends

### What is modelled

`ExitHandlers` models cdrecord from the installation of its first exit handler: one
thread, whose stack of calls is the variable `stack`, and signals that push a handler on
it between any two steps.

| model | code |
|---|---|
| `stack`, `depth` | the calls in progress with the place each has reached; `comexit` never returns, so what lies below it is dropped, and `depth` counts the nested calls |
| `exfuncs`, `exflags`, `running`, `cb_fun`, `did_stat` | the list of `comerr.c`, `exargs.exflags`, `scgp->running`, `scgp->cb_fun`, `RF_DID_CDRSTAT` |
| `disp`, `masked`, `resets` | disposition of `SIGINT` and `SIGTERM`, blocked signals, and whether `signal()` is that of System V |
| `turns`, `didintr`, `left` | the loop of the grace time, its flag, write commands to go |
| `child`, `drive`, `bus` | the FIFO process; lock, cache and sector size of the drive; its transport |

`scg_cmd` is seven steps, `intfifo` four, so a signal meets every order of the stores
to `running` and `cb_fun`. `Faults` lets the drive answer a command with an error and
its transport go away for good. A command of `exscsi` that reaches the drive takes effect:
a drive that refuses the flush, the sector size or the unlocking is not modelled, as
`exscsi` looks at none of the three results.

### What the run shows

| run | checks |
|---|---|
| `interrupts` | `Inv`, `LeavesTidy`, `NoNewWrite`, `Ends` |

* `LeavesTidy`: re-entry of `exscsi` repeats commands but skips none. The exceptions are
  in the statement. After a second interrupt during a command `exscsi` returns at once
  because the command is running, so the drive stays locked; and `excdr` goes on to
  `cdr_stats`, which, with BURN-Free in use, issues a command although one is running:
  `scg_cmd` aborts the program before `kill_faio`. When the transport is gone, each
  command in `exscsi` fails with `comerr`, which enters `comexit` and `exscsi` anew
  until the stack is used up.
* `NoNewWrite` speaks of signals the program catches. An interrupt between the last test
  in the grace loop (line 932) and the `signal()` behind it (948) is caught and
  forgotten; the burn begins, unless it waits for a FIFO process that died of the same
  interrupt (`Hung` in `Faio`). One before the first `signal()` ends the program without
  any handler.
* With a `signal()` that resets the disposition, the second signal kills the program
  where it is; the run has both kinds.

Bounds: one turn of the grace loop, two writes, three signals (a third one finds the
second one's handler at work), five nested calls of `comexit`. Deadlock is checked; only
the end of the program has no other step (`Over`).

Fairness: weak fairness of the program's own steps; signals need not arrive.

### What is proved

`ExitProofs`, for every length of the grace time, every number of writes and signals and
every depth of the stack: `ExitInvariant`, `LeavesTidyProved` and `NoNewWriteProved`
state `Inv`, `LeavesTidy` and `NoNewWrite`. There are two assumptions about the
constants: all but the number of signals are positive, and `StackAssumption`: the
stack has room for one nested call of `comexit` more than signals arrive. Without it
signals alone could use up the stack, and the last conjunct of `LeavesTidy` would be
false; a nested call takes little of a stack of megabytes, and a user sends few signals.

`Inv` (module `ExitInv`) says of a stack of any height that its first `b` frames are calls,
each made by the one below it at one of the places in `CallSites`, and that all
frames above are handlers of signals (`Chain`). On this stack

* `Lock`: `running` is set exactly while the top call is a command between its two
  stores, unless a second interrupt has left it set for good; a handler that is past
  its first test has seen it set;
* `Progress`: by the place each handler of `comexit` has reached, whether the drive
  is restored and the FIFO process stopped, for a list of handlers that has not
  moved on as well as for one that has;
* `Drive`: which of the three commands of `exscsi` have had their effect. A nested
  call repeats commands, and none of these undoes what another one has done;
* `Paid`: `depth` plus the handlers on the stack plus the wish in `cb_fun` are at
  most the signals sent, and one more for main's own call. This is what bounds the
  recursion as long as the transport works;
* `Held`: after a caught signal main is not where it could start a write: it has given
  way to `comexit`, a handler stands above it, or the wish is in `cb_fun` and the
  command that runs will see it.

`StackSteps` states once what the model's calls and returns do to the frames;
`InvKept` has one step per action. TLC checks `Inv` in the run `interrupts`. `Ends` is
liveness and model-checked only.

## Remote SCSI

### What is modelled

`Rscsi` models `scsi-remote.c`, the client inside libscg, and `rscsi.c`, the server,
over one stream in each direction. A stream holds items: the letter of a request or of
a status, a line with a number or a text, a unit of data. Neither end marks where a
message ends; each works it out from the lines it has read (`Consumed`, `Needed`), and
that is what can go wrong.

| model | code |
|---|---|
| `call`, `result` | the function of `scsi-remote.c` in progress, what it returned |
| `phase`, `fd`, `buf` | `remfd` and `isopen`, `scgp->fd`, a buffer was got |
| `toServer`, `toClient`, `link` | the connection |
| `srv`, `dev`, `Sbufsize` | the server process, `scsi_ptr`, `Sbufsize` |
| `answer`, `lostsync` | history |

Every request of the protocol is there with its regular reply and its refusals; `Error`
is `rscsierror` with its extended text. The server may refuse the caller, fail to open
the drive, reject it, get no buffer, or lose the drive's transport, which ends it
inside `scg_cmd`. `Cut` breaks the connection and drops any tail of both streams.
Requests without an open device are answered by the server too; the client never sends
them. Commands are sent only with a buffer, as every program here gets one first
(`scgcheck` frees its buffer only to get another).

A request line is one item, whatever its length. In the code the line of `open` is
formatted into `CMD_SIZE` (80) bytes: a device name of 78 characters or more loses its
newline, and both ends then wait for the other. Such names are outside the model.

`RemoteCall` is the abstract specification: a call is carried out at most once, and
while the connection lasts it returns the answer to this call.

### What the run shows

| run | checks |
|---|---|
| `rscsi` | `RscsiTypeOK`, `InStep`, `ImplementsCall`, `CallsReturn` |

`InStep` says that the framing is right on every path, that of a command the server
drops because it does not fit included. `ImplementsCall` has its limit where the client
ignores the failure of `rscsigetline`: after a lost connection the status and the
numbers are whatever an earlier call left in the buffer, and may look like a success
(`ReturnStale`, `Guess`). A rejected device makes `openscsi` read through a NULL
pointer; the client sees a lost connection. A failed open leaves the connection open
until the program ends.

Bounds: data of no, one or three units around a buffer of at most two, so that commands
fit and do not; sense data of none or two; one open per program. Only one call is on
its way at a time, as the client is sequential.

Fairness: weak fairness of the client's return from a call and of the server.

### What is proved

`RscsiProofs`, for all sizes and all faults:

* `InStepProved`: `Spec => []InStep`. `StepInv` strengthens `InStep`: the stream to the
  client is a reply that the call in progress takes as a whole and reads without
  mistaking an item (`ReplyTo`); before the connection is made nothing is on its way; and
  a server that has ended while the connection lasts left at most a refusal that
  answers any call. `MessageShape` states once what a request looks like to the
  server's arithmetic, `ServerStep` covers every handler, and `InStepKept` the rest.
* `RscsiTypes`: `Spec => []RscsiTypeOK`. Types alone are not inductive: what a variable
  holds next comes from the wire, also from what is left there after the connection
  was lost. `TypeInv` adds that every number on the wire is one its reader can use.
  `RscsiInvariant` has both invariants together.
* `RscsiIsACall`: `Spec => ImplementsCall`, the refinement of `RemoteCall`. The server's
  handling of a request is the call being carried out, the client's return is the
  return; `StepInv` says that the reply it returns by tells the answer of this call.

`CallsReturn` is liveness and model-checked only.

## Plan

| order | modules | what | state |
|---|---|---|---|
| 1 | `Faio`, `FaioPipe`, `FaioRefinement`, `FaioInv`, `NatSums`, `FaioProofs`, `FaioDelivery`, `MCFaio` | FIFO and track loop | done |
| 2 | `CddaRing`, `CddaRingInv`, `CddaRingProofs`, `MCCddaRing` | ring and pipe semaphores of cdda2wav with the end of either process | done |
| 3 | `TrackWrite`, `TrackInv`, `TrackWriteProofs`, `Readcd`, `WriteAndRead`, `RoundTripInv`, `WriteAndReadProofs`, `MCRoundTrip` | tracks and packets on the medium, and their way back | done for data tracks |
| 4 | `ExitHandlers`, `ExitInv`, `ExitProofs`, `MCExitHandlers` | signals, exit handlers, `scg_cmd` | done |
| 5 | `RemoteCall`, `Rscsi`, `RscsiProofs`, `MCRscsi` | remote SCSI | done |

Every safety invariant, action property and refinement that a passing run checks is
also a theorem. What stays with TLC alone is liveness: `Burns` and `EndsOrHangs` of the
FIFO, `EndsOrSleeps` of the ring of cdda2wav, `BothEnd`, `Ends` of the exit handlers and
`CallsReturn`.

## Not modelled

Most of the source is not about steps. `mkisofs` and `libhfs_iso` lay out a file system
in one pass; `toc.c`, `cd_text.c`, `cd_extra.c`, `auinfo.c`, `subchan.c`, `sector.c`,
`libedc` and the sample formats convert data; the drive drivers are lists of SCSI
commands whose effect is in the firmware; the back ends of `libscg` (`scsi-*.c`) pass a
system call through, one file per operating system; `libschily` apart from `comexit` is
a portability layer; `scgcheck` is a test driver that asks a person. Several large
files (`scsi_cdr.c`, `cdrecord.h`, `defaults.c`) are in the tree once per program. In
none of these do two actors share state or does a failure leave something half
done that a later step relies on, and a model would be a second version of the
conversion. The modules here therefore stand for a small share of the tree's lines.

Of the modelled parts these are left out: audio, raw and CD-Text writing, burns with
`-dummy` and `-nofix`, `readcd`'s C2
scan and its write mode, sample conversion, jitter correction and track splitting in
`cdda2wav`, a kill of a single process by a third party (other than in the ring and of
the parent of the FIFO by an interrupt), and
memory models weaker than program order.
