-------------------------------- MODULE Faio --------------------------------
(***************************************************************************)
(* The input FIFO of cdrecord (cdrecord/fifo.c) and the loop that empties   *)
(* it (write_track_data in cdrecord/cdrecord.c).                            *)
(*                                                                         *)
(* init_faio() forks.  The CHILD (faio_reader) reads the track files and    *)
(* fills the slots of a ring in shared memory; the PARENT takes the slots   *)
(* in order and sends them to the drive.  There is no lock: a slot belongs  *)
(* to whoever its "owner" word names, and both sides poll that word.        *)
(*                                                                         *)
(* One action is one access to shared memory that the other process can     *)
(* observe, with the process-local work that follows it.  Memory is         *)
(* sequentially consistent.  A segment of data is the track, offset and     *)
(* length it was read from.                                                 *)
(***************************************************************************)
EXTENDS Integers, Sequences

CONSTANTS
    N,              \* faio_buffers, the number of slots
    TrackTables,    \* the track tables (trackp) a run may be started with
    Faults,         \* which of FaultKinds may happen
    LongPhases      \* phases of the parent that may outlast WRITER_MAXWAIT

FaultKinds == {"read", "drive", "interrupt", "stall"}

Phases == {"grace", "starts", "await", "session", "open", "get", "release", "wait",
           "check", "users", "decr", "faio", "use", "wrote", "close", "fix"}

\* Phases in which the parent may be in scg_cmd().
CommandPhases == {"session", "open", "use", "close", "fix"}

STDIN == 0
NoFd == -1

\* One row of the track table, with the length of the file behind it.
Track == [fd : Nat, secsize : Nat \ {0}, bytespt : Nat \ {0},
          tracksize : Nat \cup {-1}, filelen : Nat]

ASSUME NAssumption == N \in Nat /\ N >= 3          \* MIN_BUFFERS
ASSUME TablesAssumption ==
    \A tab \in TrackTables : tab \in Seq(Track) /\ tab # << >>
ASSUME FaultsAssumption == Faults \subseteq FaultKinds /\ LongPhases \subseteq Phases

VARIABLES
    tracks,                                  \* the table of this run
    owner, users, fd, len, bufp,             \* faio_t, per slot
    puts, gets, done,                        \* struct faio_stats
    cpc, child, buf_idx_reader, trackno, rbytes, rlen, closed,
    ppc, ending, outcome, buf_idx, cur, wbytes, wspt, wlen, pusers,
    written,                                 \* what the drive accepted
    restores                                 \* runs of exscsi() on the drive

segVars      == <<fd, len, bufp>>
slotVars     == <<owner, users, segVars>>
statVars     == <<puts, gets, done>>
memory       == <<slotVars, statVars>>
childLocals  == <<buf_idx_reader, trackno, rbytes, rlen, closed>>
childVars    == <<cpc, child, childLocals>>
parentCtl    == <<ppc, ending, outcome>>
parentLocals == <<buf_idx, cur, wbytes, wspt, wlen, pusers>>
parentVars   == <<parentCtl, parentLocals>>
driveVars    == <<written, restores>>
childSide    == <<tracks, childVars>>
parentSide   == <<tracks, parentVars, driveVars>>
vars         == <<memory, childVars, parentSide>>

Slots == 0 .. N - 1
Next1Late(i) == IF i + 1 > N THEN 0 ELSE i + 1
Next1(i) == IF i + 1 >= N THEN 0 ELSE i + 1
Lesser(a, b) == IF a > b THEN b ELSE a
Segment(t, off, l) == [trk |-> t, off |-> off, len |-> l]

Init ==
    /\ tracks \in TrackTables
    /\ owner = [i \in Slots |-> "writer"]
    /\ users = [i \in Slots |-> 0]
    /\ fd = [i \in Slots |-> NoFd]
    /\ len = [i \in Slots |-> 0]
    /\ bufp = [i \in Slots |-> Segment(0, 0, 0)]
    /\ puts = 0 /\ gets = 0 /\ done = 0
    /\ cpc = "wait" /\ child = "alive" /\ buf_idx_reader = 0
    /\ trackno = 1 /\ rbytes = 0 /\ rlen = 0 /\ closed = {}
    /\ ppc = "grace" /\ ending = "no" /\ outcome = "none" /\ buf_idx = 0
    /\ cur = 1 /\ wbytes = 0 /\ wspt = 0 /\ wlen = 0 /\ pusers = 0
    /\ written = << >> /\ restores = 0

-----------------------------------------------------------------------------
(* The child: faio_reader, faio_read_track, faio_read_segment.              *)

ChildAt(pc) == child = "alive" /\ cpc = pc

ReaderAsksWhole(t, n) == t.bytespt
ReaderAsks(t, n) ==
    IF t.tracksize > 0 THEN Lesser(t.bytespt, t.tracksize - n) ELSE t.bytespt
ReaderLoopsOnce(t, n) == t.tracksize < 0 \/ n <= t.tracksize
ReaderLoops(t, n) == t.tracksize < 0 \/ n < t.tracksize

\* What fill_buf() may return: end of file stays end of file.
ReadResults(t, n) ==
    IF t.fd \in closed THEN {-1}
    ELSE {Lesser(ReaderAsks(t, n), t.filelen - n)}
         \cup (IF "read" \in Faults THEN {-1} ELSE {})

\* faio_wait_on_buffer(f, owner_writer, ..) returns; f->fd = fd.
ChildAcquire ==
    /\ ChildAt("wait")
    /\ owner[buf_idx_reader] = "writer"
    /\ fd' = [fd EXCEPT ![buf_idx_reader] = tracks[trackno].fd]
    /\ cpc' = "fill"
    /\ UNCHANGED <<owner, users, len, bufp, statVars, parentSide, child,
                   childLocals>>

\* The wait gives up after WRITER_MAXWAIT, because the parent takes long or is
\* dead: comerrno() in the child, which inherited the exit handler exscsi().
ChildGiveUp ==
    /\ ChildAt("wait")
    /\ owner[buf_idx_reader] # "writer"
    /\ \/ ppc \in LongPhases /\ ending \in {"no", "noted"}
       \/ ending = "gone"
    /\ child' = "gaveup"
    /\ restores' = restores + 1
    /\ UNCHANGED <<memory, tracks, cpc, childLocals, parentVars, written>>

ChildFill ==
    /\ ChildAt("fill")
    /\ \E l \in ReadResults(tracks[trackno], rbytes) :
        /\ rlen' = l
        /\ bufp' = [bufp EXCEPT ![buf_idx_reader] = Segment(trackno, rbytes, l)]
    /\ cpc' = "len"
    /\ UNCHANGED <<owner, users, fd, len, statVars, parentSide, child,
                   buf_idx_reader, trackno, rbytes, closed>>

ChildStoreLen ==
    /\ ChildAt("len")
    /\ len' = [len EXCEPT ![buf_idx_reader] = rlen]
    /\ cpc' = "publish"
    /\ UNCHANGED <<owner, users, fd, bufp, statVars, parentSide, child,
                   childLocals>>

ChildPublish ==
    /\ ChildAt("publish")
    /\ owner' = [owner EXCEPT ![buf_idx_reader] = "reader"]
    /\ cpc' = "users"
    /\ UNCHANGED <<users, segVars, statVars, parentSide, child, childLocals>>

ChildStoreUsersTwo ==
    /\ ChildAt("users")
    /\ users' = [users EXCEPT ![buf_idx_reader] = 2]
    /\ cpc' = "puts"
    /\ UNCHANGED <<owner, segVars, statVars, parentSide, child, childLocals>>

\* f->users = sp->users, after the slot was handed over; sp->users is 1.
ChildStoreUsers ==
    /\ ChildAt("users")
    /\ users' = [users EXCEPT ![buf_idx_reader] = 1]
    /\ cpc' = "puts"
    /\ UNCHANGED <<owner, segVars, statVars, parentSide, child, childLocals>>

\* sp->puts++, then the tail of the loop of faio_read_track(), close(fd)
\* and the loop of faio_reader().
ChildCount ==
    /\ ChildAt("puts")
    /\ puts' = puts + 1
    /\ buf_idx_reader' = Next1(buf_idx_reader)
    /\ IF rlen > 0 /\ ReaderLoops(tracks[trackno], rbytes + rlen)
       THEN /\ rbytes' = rbytes + rlen
            /\ cpc' = "wait"
            /\ UNCHANGED <<trackno, closed>>
       ELSE /\ closed' = closed \cup {tracks[trackno].fd}
            /\ trackno' = trackno + 1
            /\ rbytes' = 0
            /\ cpc' = IF trackno = Len(tracks) THEN "done" ELSE "wait"
    /\ UNCHANGED <<slotVars, gets, done, parentSide, child, rlen>>

ChildDone ==
    /\ ChildAt("done")
    /\ done' = done + 1
    /\ cpc' = "gets"
    /\ UNCHANGED <<slotVars, puts, gets, parentSide, child, childLocals>>

ChildTestAndLeave ==
    /\ ChildAt("gets")
    /\ cpc' = "exited"
    /\ UNCHANGED <<memory, parentSide, child, childLocals>>

\* if (sp->gets == 0) ..., else _exit(0)
ChildTestGets ==
    /\ ChildAt("gets")
    /\ cpc' = IF gets = 0 THEN "force" ELSE "exited"
    /\ UNCHANGED <<memory, parentSide, child, childLocals>>

\* faio_ref(faio_buffers - 1)->owner = owner_reader; _exit(0)
ChildForceLast ==
    /\ ChildAt("force")
    /\ owner' = [owner EXCEPT ![N - 1] = "reader"]
    /\ cpc' = "exited"
    /\ UNCHANGED <<users, segVars, statVars, parentSide, child, childLocals>>

ChildStep == \/ ChildAcquire \/ ChildGiveUp \/ ChildFill \/ ChildStoreLen
             \/ ChildPublish \/ ChildStoreUsers \/ ChildCount \/ ChildDone
             \/ ChildTestGets \/ ChildForceLast

-----------------------------------------------------------------------------
(* The parent: await_faio, then for every track write_track_data calling    *)
(* faio_get_buf, then comexit.                                              *)

ParentAt(pc) == ending = "no" /\ ppc = pc

WriterAsks(t, n, bpt) ==
    IF t.tracksize > 0 THEN Lesser(bpt, t.tracksize - n) ELSE bpt
WriterLoopsShort(t, n) == t.tracksize < 0 \/ n < t.tracksize - 1
WriterLoops(t, n) == t.tracksize < 0 \/ n < t.tracksize

\* kill(faio_pid, SIGKILL): no effect on a child that has left by itself.
ChildLives == child = "alive" /\ cpc # "exited"
AfterKill == IF ChildLives THEN "killed" ELSE child

\* comerr(), comerrno(), comexit(): leave for the exit handlers.
Leave(why) == ending' = "handlers" /\ outcome' = why

\* The loop of the grace time ends behind its last test of didintr.
ParentLastTest ==
    /\ ParentAt("grace")
    /\ ppc' = "starts"
    /\ UNCHANGED <<memory, childSide, ending, outcome, parentLocals,
                   driveVars>>

\* "Operation starts.": the handler intr() makes room for intfifo().
ParentStart ==
    /\ ParentAt("starts")
    /\ ppc' = "await"
    /\ UNCHANGED <<memory, childSide, ending, outcome, parentLocals,
                   driveVars>>

PrematureEOFAnywhere == \E n \in Slots : fd[n] = STDIN /\ len[n] = 0

PrematureEOF ==
    \E n \in Slots :
        /\ fd[n] # (IF n = 0 THEN NoFd ELSE fd[n - 1])
        /\ fd[n] = STDIN
        /\ len[n] = 0

\* The last slot is ours: scan the slots for an stdin that delivered nothing.
\* No slot is owned by the child at this point, so the scan is one step.
ParentAwait ==
    /\ ParentAt("await")
    /\ owner[N - 1] = "reader"
    /\ IF PrematureEOF
       THEN /\ child' = AfterKill
            /\ Leave("input")
            /\ UNCHANGED ppc
       ELSE ppc' = "session" /\ UNCHANGED <<child, ending, outcome>>
    /\ UNCHANGED <<memory, tracks, cpc, childLocals, parentLocals, driveVars>>

\* Blanking, OPC, opening the session, lead-in.
ParentSession ==
    /\ ParentAt("session")
    /\ \/ ppc' = "open" /\ UNCHANGED <<ending, outcome>>
       \/ "drive" \in Faults /\ Leave("drive") /\ UNCHANGED ppc
    /\ UNCHANGED <<memory, childSide, parentLocals, driveVars>>

\* The head of the loop over the tracks, cdr_open_track and
\* cdr_next_wr_address; the prologue of write_track_data.
ParentOpenTrack ==
    /\ ParentAt("open")
    /\ cur <= Len(tracks)
    /\ \/ /\ ppc' = "get"
          /\ wbytes' = 0
          /\ wspt' = tracks[cur].bytespt
          /\ UNCHANGED outcome
       \/ /\ "drive" \in Faults
          /\ ppc' = "fix" /\ outcome' = "drive"
          /\ UNCHANGED <<wbytes, wspt>>
    /\ UNCHANGED <<memory, childSide, ending, buf_idx, cur, wlen, pusers,
                   driveVars>>

ParentLastTrack ==
    /\ ParentAt("open")
    /\ cur > Len(tracks)
    /\ ppc' = "fix" /\ outcome' = "burnt"
    /\ UNCHANGED <<memory, childSide, ending, parentLocals, driveVars>>

\* faio_get_buf(): is the current slot the one we still hold?
ParentGet ==
    /\ ParentAt("get")
    /\ ppc' = IF owner[buf_idx] = "faio" THEN "release" ELSE "wait"
    /\ UNCHANGED <<memory, childSide, ending, outcome, parentLocals,
                   driveVars>>

ParentReleaseStays ==
    /\ ParentAt("release")
    /\ owner' = [owner EXCEPT ![buf_idx] = "writer"]
    /\ ppc' = "wait"
    /\ UNCHANGED <<users, segVars, statVars, childSide, ending, outcome,
                   parentLocals, driveVars>>

ParentRelease ==
    /\ ParentAt("release")
    /\ owner' = [owner EXCEPT ![buf_idx] = "writer"]
    /\ buf_idx' = Next1(buf_idx)
    /\ ppc' = "wait"
    /\ UNCHANGED <<users, segVars, statVars, childSide, ending, outcome, cur,
                   wbytes, wspt, wlen, pusers, driveVars>>

\* faio_wait_on_buffer(f, owner_reader, ..) returns; len = f->len.
ParentAcquire ==
    /\ ParentAt("wait")
    /\ owner[buf_idx] = "reader"
    /\ wlen' = len[buf_idx]
    /\ ppc' = "check"
    /\ UNCHANGED <<memory, childSide, ending, outcome, buf_idx, cur, wbytes,
                   wspt, pusers, driveVars>>

\* READER_MAXWAIT passes: the child is gone, or the input stalls.
ParentGiveUp ==
    /\ ParentAt("wait")
    /\ owner[buf_idx] # "reader"
    /\ \/ child # "alive" \/ cpc = "exited"
       \/ cpc = "fill" /\ "stall" \in Faults
    /\ Leave("timeout")
    /\ UNCHANGED <<memory, childSide, ppc, parentLocals, driveVars>>

\* The tests of faio_get_buf() on the segment, then sp->gets++.
ParentCheck ==
    /\ ParentAt("check")
    /\ IF fd[buf_idx] # tracks[cur].fd
       THEN /\ IF wlen = 0 THEN ppc' = "get" /\ UNCHANGED <<ending, outcome>>
                           ELSE Leave("wrongfd") /\ UNCHANGED ppc
            /\ UNCHANGED gets
       ELSE IF WriterAsks(tracks[cur], wbytes, wspt) < wlen
       THEN Leave("short") /\ UNCHANGED <<ppc, gets>>
       ELSE ppc' = "users" /\ gets' = gets + 1 /\ UNCHANGED <<ending, outcome>>
    /\ UNCHANGED <<slotVars, puts, done, childSide, parentLocals, driveVars>>

\* if (--f->users <= 0) f->owner = owner_faio: a load, a store, a store.
ParentLoadUsers ==
    /\ ParentAt("users")
    /\ pusers' = users[buf_idx] - 1
    /\ ppc' = "decr"
    /\ UNCHANGED <<memory, childSide, ending, outcome, buf_idx, cur, wbytes,
                   wspt, wlen, driveVars>>

ParentStoreUsers ==
    /\ ParentAt("decr")
    /\ users' = [users EXCEPT ![buf_idx] = pusers]
    /\ ppc' = IF pusers <= 0 THEN "faio" ELSE "use"
    /\ UNCHANGED <<owner, segVars, statVars, childSide, ending, outcome,
                   parentLocals, driveVars>>

ParentHandBack ==
    /\ ParentAt("faio")
    /\ owner' = [owner EXCEPT ![buf_idx] = "writer"]
    /\ ppc' = "use"
    /\ UNCHANGED <<users, segVars, statVars, childSide, ending, outcome,
                   parentLocals, driveVars>>

ParentHold ==
    /\ ParentAt("faio")
    /\ owner' = [owner EXCEPT ![buf_idx] = "faio"]
    /\ ppc' = "use"
    /\ UNCHANGED <<users, segVars, statVars, childSide, ending, outcome,
                   parentLocals, driveVars>>

\* count < 0: comerr("read error on input file")
ParentReadError ==
    /\ ParentAt("use")
    /\ wlen < 0
    /\ Leave("unreadable")
    /\ UNCHANGED <<memory, childSide, ppc, parentLocals, driveVars>>

ParentEndOnError ==
    /\ ParentAt("use")
    /\ wlen <= 0
    /\ ppc' = "close"
    /\ UNCHANGED <<memory, childSide, ending, outcome, parentLocals,
                   driveVars>>

\* count == 0: end of the track's input
ParentEndOfInput ==
    /\ ParentAt("use")
    /\ wlen = 0
    /\ ppc' = "close"
    /\ UNCHANGED <<memory, childSide, ending, outcome, parentLocals,
                   driveVars>>

PadUp(n, secsize) ==
    IF n % secsize = 0 THEN n ELSE n + (secsize - (n % secsize))

\* write_secs(): the drive takes the block, or the burn fails.
WriteSecs(w) ==
    \/ written' = Append(written, w) /\ ppc' = "wrote" /\ UNCHANGED outcome
    \/ "drive" \in Faults /\ ppc' = "fix" /\ outcome' = "drive"
       /\ UNCHANGED written

\* Clip at the track size, pad to a sector, remember a reduced block size,
\* and write straight from the slot.
ParentWrite ==
    /\ ParentAt("use")
    /\ wlen > 0
    /\ LET t     == tracks[cur]
           n     == wbytes + wlen
           count == IF t.tracksize >= 0 /\ n >= t.tracksize
                    THEN wlen - (n - t.tracksize) ELSE wlen
           bpt   == IF count < wspt THEN PadUp(count, t.secsize) ELSE wspt
       IN /\ wbytes' = n
          /\ wspt' = bpt
          /\ WriteSecs([trk |-> bufp[buf_idx].trk, off |-> bufp[buf_idx].off,
                        len |-> count, size |-> bpt])
    /\ UNCHANGED <<memory, childSide, ending, buf_idx, cur, wlen, pusers,
                   restores>>

\* The progress line (fifo_percent), then the loop condition.
ParentLoop ==
    /\ ParentAt("wrote")
    /\ ppc' = IF WriterLoops(tracks[cur], wbytes) THEN "get" ELSE "close"
    /\ UNCHANGED <<memory, childSide, ending, outcome, parentLocals,
                   driveVars>>

ParentCloseTrack ==
    /\ ParentAt("close")
    /\ \/ ppc' = "open" /\ cur' = cur + 1 /\ UNCHANGED outcome
       \/ /\ "drive" \in Faults
          /\ ppc' = "fix" /\ outcome' = "drive" /\ UNCHANGED cur
    /\ UNCHANGED <<memory, childSide, ending, buf_idx, wbytes, wspt, wlen,
                   pusers, driveVars>>

ParentFix ==
    /\ ParentAt("fix")
    /\ Leave(outcome)
    /\ UNCHANGED <<memory, childSide, ppc, parentLocals, driveVars>>

\* Interrupts.  One from the terminal also reaches the child, which dies of it.

\* intr() notes it in didintr, for the next test in the grace time; intfifo()
\* notes it in cb_fun if a command runs, for the end of that command.  (A write
\* command that succeeds first is an interrupt at "wrote".)
InterruptNoted ==
    /\ ppc = "grace" \/ ppc \in CommandPhases
    /\ ppc = "use" => wlen > 0
    /\ ending' = "noted"
    /\ child' \in {child, AfterKill}
    /\ UNCHANGED outcome

\* Behind the last test intr() still catches it, and nobody asks any more.
InterruptLost ==
    /\ ppc = "starts"
    /\ ChildLives /\ child' = "forgotten"
    /\ UNCHANGED <<ending, outcome>>

\* Where no handler is installed, before the grace time and between two calls of
\* signal(), the parent dies and kills nobody.
InterruptKills ==
    /\ ppc \in {"grace", "starts"}
    /\ ending' = "gone" /\ outcome' = "interrupt"
    /\ child' \in {child, AfterKill}

\* intfifo() while no command runs: comexit().
InterruptLeaves ==
    /\ ppc \notin {"grace", "starts"}
    /\ Leave("interrupt")
    /\ child' \in {child, AfterKill}

ParentInterrupt ==
    /\ "interrupt" \in Faults
    /\ ending = "no"
    /\ InterruptNoted \/ InterruptLost \/ InterruptKills \/ InterruptLeaves
    /\ UNCHANGED <<memory, tracks, cpc, childLocals, ppc, parentLocals, driveVars>>

\* The test of didintr in the grace time, or scsi_cb() behind the command.
ParentNoted ==
    /\ ending = "noted"
    /\ Leave("interrupt")
    /\ UNCHANGED <<memory, childSide, ppc, parentLocals, driveVars>>

\* excdr(): exscsi() first, then kill_faio() and wait_faio().
ParentRestore ==
    /\ ending = "handlers"
    /\ ending' = "kill"
    /\ restores' = restores + 1
    /\ UNCHANGED <<memory, childSide, ppc, outcome, parentLocals, written>>

ParentKill ==
    /\ ending = "kill"
    /\ ending' = "gone"
    /\ child' = AfterKill
    /\ UNCHANGED <<memory, tracks, cpc, childLocals, ppc, outcome,
                   parentLocals, driveVars>>

ParentStep == \/ ParentLastTest \/ ParentStart \/ ParentAwait \/ ParentSession
              \/ ParentOpenTrack \/ ParentLastTrack \/ ParentGet
              \/ ParentRelease \/ ParentAcquire \/ ParentGiveUp
              \/ ParentCheck \/ ParentLoadUsers \/ ParentStoreUsers
              \/ ParentHold \/ ParentReadError \/ ParentEndOfInput
              \/ ParentWrite \/ ParentLoop \/ ParentCloseTrack
              \/ ParentFix \/ ParentNoted \/ ParentRestore \/ ParentKill

Finished == ending = "gone" /\ (child # "alive" \/ cpc = "exited")

\* Both processes are gone: the only way the system may stop.
Idle == Finished /\ UNCHANGED vars

Next == ChildStep \/ ParentStep \/ ParentInterrupt \/ Idle

Spec == Init /\ [][Next]_vars

\* Both processes are scheduled, and read() and the drive answer in time.
Fairness == WF_vars(ChildStep) /\ WF_vars(ParentStep)

FairSpec == Spec /\ Fairness

-----------------------------------------------------------------------------
\* The types of the shared memory, of the two processes and of the drive.
SharedTypes ==
    /\ tracks \in Seq(Track) /\ tracks # << >>
    /\ owner \in [Slots -> {"writer", "reader", "faio"}]
    /\ users \in [Slots -> Int]
    /\ fd \in [Slots -> Nat \cup {NoFd}]
    /\ len \in [Slots -> Nat \cup {-1}]
    /\ bufp \in [Slots -> [trk : Nat, off : Nat, len : Nat \cup {-1}]]
    /\ puts \in Nat /\ gets \in Nat /\ done \in {0, 1}

ChildTypes ==
    /\ cpc \in {"wait", "fill", "len", "publish", "users", "puts", "done",
                "gets", "force", "exited"}
    /\ child \in {"alive", "killed", "forgotten", "gaveup"}
    /\ buf_idx_reader \in Slots
    /\ trackno \in 1 .. Len(tracks) + 1
    /\ rbytes \in Nat /\ rlen \in Nat \cup {-1} /\ closed \subseteq Nat

ParentTypes ==
    /\ ppc \in Phases
    /\ ending \in {"no", "noted", "handlers", "kill", "gone"}
    /\ outcome \in {"none", "burnt", "drive", "input", "interrupt", "timeout",
                    "wrongfd", "short", "unreadable"}
    /\ buf_idx \in Slots
    /\ cur \in 1 .. Len(tracks) + 1
    /\ wbytes \in Nat /\ wspt \in Nat /\ wlen \in Nat \cup {-1}
    /\ pusers \in Int

DriveTypes ==
    /\ written \in Seq([trk : Nat, off : Nat, len : Nat, size : Nat])
    /\ restores \in Nat

TypeOK == SharedTypes /\ ChildTypes /\ ParentTypes /\ DriveTypes

-----------------------------------------------------------------------------
(* Where the two processes stand, in terms of the shared counters.          *)

\* The parent still owns the slot its last faio_get_buf() returned.
Holds == gets > 0 /\ ppc \notin {"wait", "check"}

Published == IF cpc \in {"users", "puts"} THEN puts + 1 ELSE puts
Released  == IF Holds THEN gets - 1 ELSE gets
InRing    == Published - Released

TrackBytes(t) ==
    IF t.tracksize < 0 THEN t.filelen ELSE Lesser(t.tracksize, t.filelen)

FifoPercentUnlagged ==
    IF done # 0 THEN 100 ELSE Lesser((100 * (puts - gets)) \div N, 100)

\* fifo_percent()
FifoPercent ==
    IF done # 0 THEN 100 ELSE Lesser((100 * (puts + 1 - gets)) \div N, 100)

\* While the parent looks at a slot or the drive reads from it, the child is
\* not filling that slot (the owner word is the only lock of fifo.c).
SlotExclusive ==
    /\ ChildAt("fill") \/ ChildAt("len") \/ ChildAt("publish")
    /\ Holds \/ ppc = "check"
    => buf_idx_reader # buf_idx

\* The loops of faio_read_track and write_track_data are two copies that must
\* cut the input alike: the slot the parent gets is the segment it is about to
\* ask for, untouched until it is written, so that the three fatal branches of
\* faio_get_buf (and its endless "goto again") are never taken.
SegmentAgreed ==
    /\ ppc \in {"check", "users", "decr", "faio", "use"} =>
        /\ bufp[buf_idx] = Segment(cur, wbytes, wlen)
        /\ fd[buf_idx] = tracks[cur].fd
        /\ len[buf_idx] = wlen
        /\ wlen <= WriterAsks(tracks[cur], wbytes, wspt)
    /\ outcome \notin {"wrongfd", "short"}

\* The two processes never poll for each other, and the parent never polls a word
\* that a child which has read everything left unset.  At the wait without a time
\* limit, in await_faio(), the child is alive, unless it died of an interrupt
\* that the parent caught and forgot.
ChildPolls == ChildAt("wait") /\ owner[buf_idx_reader] # "writer"
ParentPolls(pc, i) == ParentAt(pc) /\ owner[i] # "reader"
NobodyStuck ==
    /\ ParentPolls("wait", buf_idx) => ~ChildPolls /\ cpc # "exited"
    /\ ParentPolls("await", N - 1) =>
          ~ChildPolls /\ cpc # "exited" /\ child \in {"alive", "forgotten"}

\* f->users is stored by the child after the slot changed hands, and decremented
\* by the parent in two accesses: no interleaving leaves it positive, which
\* would keep the slot from ever going back to the child.
UsersDrain == ppc = "decr" => pusers <= 0

\* The drive gets the bytes of every track in order, from offset 0, without a
\* gap, a repetition or a byte of another track.
WrittenInOrder ==
    \A i \in 1 .. Len(written) :
        LET w == written[i]
            first == i = 1 \/ written[i - 1].trk # w.trk
        IN /\ w.off = IF first THEN 0 ELSE written[i - 1].off + written[i - 1].len
           /\ i > 1 => written[i - 1].trk <= w.trk
           /\ w.off + w.len <= TrackBytes(tracks[w.trk])
           /\ w.len <= w.size

\* A run that ends without an error has written every byte of every track.
BurntComplete ==
    outcome = "burnt" =>
        \A t \in 1 .. Len(tracks) :
            TrackBytes(tracks[t]) > 0 =>
                \E i \in 1 .. Len(written) :
                    /\ written[i].trk = t
                    /\ written[i].off + written[i].len = TrackBytes(tracks[t])

\* Slots a track takes when no read fails: its data, and an empty segment when
\* only the end of the file ends it.
SegmentsOf(t) ==
    IF t.tracksize = 0 \/ (t.tracksize > 0 /\ t.filelen >= t.tracksize)
    THEN IF t.tracksize = 0 THEN 1 ELSE (t.tracksize + t.bytespt - 1) \div t.bytespt
    ELSE (t.filelen + t.bytespt - 1) \div t.bytespt + 1

SegmentsBefore[t \in Nat] ==
    IF t <= 1 THEN 0 ELSE SegmentsBefore[t - 1] + SegmentsOf(tracks[t - 1])

DeadPipe(t) ==
    /\ tracks[t].fd = STDIN /\ tracks[t].filelen = 0
    /\ \A u \in 1 .. t - 1 : tracks[u].fd # STDIN

\* await_faio() aborts before anything is written when a pipe on stdin that
\* belongs to the first N segments delivers nothing, and it aborts for no
\* other reason.  (A read that fails is no end of the input; the scan does not
\* look for it.)
PrematureEOFAborts ==
    /\ "read" \notin Faults
       /\ (\E t \in 1 .. Len(tracks) : DeadPipe(t) /\ SegmentsBefore[t] < N)
          => written = << >>
    /\ outcome = "input" => \E t \in 1 .. Len(tracks) : DeadPipe(t)

\* The fill level printed while writing is a percentage, although puts lags
\* behind the slots that are already handed over.
PercentInRange == FifoPercent \in 0 .. 100

\* A slot goes writer -> reader -> faio -> writer, each time by the process
\* that owns it; the one exception is the last slot, forced to the reader when
\* everything has been read, and then nobody reads it.
OwnershipCycle ==
    [][\A i \in Slots : owner'[i] # owner[i] =>
        \/ owner[i] = "writer" /\ owner'[i] = "reader" /\ cpc = "publish"
        \/ owner[i] = "reader" /\ owner'[i] = "faio" /\ ppc = "faio"
        \/ owner[i] = "faio" /\ owner'[i] = "writer" /\ ppc = "release"
        \/ i = N - 1 /\ cpc = "force" /\ ppc \notin {"get", "release", "check"}
      ]_vars

\* The parent waits in await_faio(), without a time limit, for a child that died
\* of the interrupt which the parent forgot.
Hung == ParentPolls("await", N - 1) /\ child = "forgotten"

\* Both processes come to an end, whatever fails; the only other outcome is that
\* forgotten interrupt, if it comes before the ring is full.
EndsOrHangs == <>Finished \/ <>[]Hung

\* Every pipe delivers something and no two tracks come from the same pipe.
HealthyInput ==
    \A t \in 1 .. Len(tracks) :
        /\ tracks[t].fd = STDIN => tracks[t].filelen > 0
        /\ \A u \in 1 .. t - 1 : tracks[u].fd # tracks[t].fd

\* With healthy input the burn runs through: no interleaving of the polling
\* makes the two processes wait for each other, or the parent spin in the
\* "goto again" of faio_get_buf, even if everything fits into the FIFO.
Burns == HealthyInput => <>(outcome = "burnt")

\* The child never gives up on a full FIFO: fifo.c asks that WRITER_MAXWAIT
\* exceed every SCSI timeout of a command that writes to the media.
ChildStaysOn == child # "gaveup"

\* exscsi(), which flushes the cache, restores the sector size and unlocks the
\* medium, runs once.
RestoredOnce == restores <= 1

\* The percentage printed just after a block has been written never shows a
\* full FIFO while the input is still streaming.
NeverFullWhileStreaming == ppc = "wrote" /\ done = 0 => FifoPercent < 100

\* If the pipe on stdin delivers nothing, nothing is written.
DeadPipeWritesNothing ==
    (\E t \in 1 .. Len(tracks) : DeadPipe(t)) => written = << >>
=============================================================================
