------------------------------ MODULE CddaRing ------------------------------
(***************************************************************************)
(* The ring of buffers between the two processes of cdda2wav (ringbuff.c)   *)
(* and its semaphores made of two pipes (semshm.c), with the ways in which  *)
(* either process ends (cdda2wav.c).                                        *)
(*                                                                         *)
(* The PARENT reads audio sectors into the ring (forked_read), the CHILD    *)
(* saves them to files (forked_write).  A process that finds nothing to do  *)
(* raises a flag in shared memory and reads a byte from its pipe; the other *)
(* one, after it has counted a buffer, lowers a raised flag and sends the   *)
(* byte.  One action is one access to shared memory, a pipe or a signal,    *)
(* with the local work that follows.                                        *)
(*                                                                         *)
(* Data is counted in segments, the contents of one buffer.                 *)
(***************************************************************************)
EXTENDS Integers, Sequences

CONSTANTS
    B,          \* global.buffers
    Segments,   \* nSamplesToDo at the start
    Faults      \* which of FaultKinds may happen

FaultKinds == {"realend", "read", "write", "interrupt", "kill"}

ASSUME BAssumption == B \in Nat \ {0}
ASSUME SegmentsAssumption == Segments \in Nat
ASSUME FaultsAssumption == Faults \subseteq FaultKinds

NULL == -1

VARIABLES
    he_fill_buffer, last_buffer,                     \* indices in the ring
    total_segments_read, total_segments_written,
    child_waits, parent_waits,
    eorecording, nSamplesToDo,
    data,                                            \* the segment in a buffer
    p2c, c2p,                                        \* bytes in the two pipes
    rpc, iloop, rsig,                                \* the parent
    wpc, nSamplesDone, retval, wsig, left,           \* the child
    saved,                                           \* what the child has saved
    stale       \* history: a process was woken and had nothing to do

counts     == <<total_segments_read, total_segments_written>>
pointers   == <<he_fill_buffer, last_buffer>>
flags      == <<child_waits, parent_waits>>
ends       == <<eorecording, nSamplesToDo>>
pipes      == <<p2c, c2p>>
signals    == <<rsig, wsig>>
readerVars == <<rpc, iloop>>
writerVars == <<wpc, nSamplesDone, retval, left, saved>>
vars       == <<counts, pointers, flags, ends, data, pipes, signals,
                readerVars, writerVars, stale>>

Buffers == 0 .. B - 1
INC_NoWrap(i) == i + 1
INC(i) == IF i + 1 = B THEN 0 ELSE i + 1         \* modulo total_buffers
Defined == total_segments_read - total_segments_written

ReaderAt(pc) == rpc = pc /\ ~rsig
WriterAt(pc) == wpc = pc /\ ~wsig

Init ==
    /\ he_fill_buffer = NULL /\ last_buffer = NULL
    /\ total_segments_read = 0 /\ total_segments_written = 0
    /\ child_waits = 0 /\ parent_waits = 0
    /\ eorecording = 0 /\ nSamplesToDo = Segments
    /\ data = [i \in Buffers |-> 0]
    /\ p2c = 0 /\ c2p = 0
    /\ rpc = "request" /\ iloop = Segments /\ rsig = FALSE
    /\ wpc = "loop" /\ nSamplesDone = 0 /\ retval = NULL /\ wsig = FALSE
    /\ left = "no" /\ saved = << >> /\ stale = FALSE

-----------------------------------------------------------------------------
(* The parent: forked_read, get_next_buffer, do_read, define_buffer.        *)

ReaderRequestsTooMany ==
    /\ ReaderAt("request") /\ iloop > 0
    /\ rpc' = IF Defined > B THEN "flag" ELSE "occupy"
    /\ UNCHANGED <<stale, counts, pointers, flags, ends, data, pipes, signals, iloop,
                   writerVars>>

\* while (global.iloop): get_next_buffer() tests for a free buffer.
ReaderRequest ==
    /\ ReaderAt("request") /\ iloop > 0
    /\ rpc' = IF Defined >= B THEN "flag" ELSE "occupy"
    /\ UNCHANGED <<stale, counts, pointers, flags, ends, data, pipes, signals, iloop,
                   writerVars>>

ReaderFinish ==
    /\ ReaderAt("request") /\ iloop = 0
    /\ rpc' = "closing"
    /\ UNCHANGED <<stale, counts, pointers, flags, ends, data, pipes, signals, iloop,
                   writerVars>>

ReaderFlag ==
    /\ ReaderAt("flag")
    /\ parent_waits' = 1
    /\ rpc' = "blocked"
    /\ UNCHANGED <<stale, counts, pointers, child_waits, ends, data, pipes, signals,
                   iloop, writerVars>>

ReaderWoken ==
    /\ ReaderAt("blocked") /\ p2c > 0
    /\ p2c' = p2c - 1
    /\ stale' = IF Defined < B THEN stale ELSE TRUE
    /\ rpc' = "occupy"
    /\ UNCHANGED <<counts, pointers, flags, ends, data, c2p, signals, iloop,
                   writerVars>>

\* End of file on the pipe: exit(SEMAPHORE_ERROR).
ReaderHangup ==
    /\ ReaderAt("blocked") /\ p2c = 0 /\ wpc = "gone"
    /\ rpc' = "closing"
    /\ UNCHANGED <<stale, counts, pointers, flags, ends, data, pipes, signals, iloop,
                   writerVars>>

ReaderOccupy ==
    /\ ReaderAt("occupy")
    /\ he_fill_buffer' = INC(he_fill_buffer)
    /\ rpc' = "read"
    /\ UNCHANGED <<stale, counts, last_buffer, flags, ends, data, pipes, signals,
                   iloop, writerVars>>

FillBuffer == data' = [data EXCEPT ![he_fill_buffer] = total_segments_read + 1]

ReaderRead ==
    /\ ReaderAt("read")
    /\ FillBuffer
    /\ iloop' = iloop - 1
    /\ rpc' = "last"
    /\ UNCHANGED <<stale, counts, pointers, flags, ends, pipes, signals, writerVars>>

\* RealEnd(): the recording ends in this segment.
ReaderRealEnd ==
    /\ ReaderAt("read") /\ "realend" \in Faults
    /\ FillBuffer
    /\ eorecording' = 1
    /\ rpc' = "trim"
    /\ UNCHANGED <<stale, counts, pointers, flags, nSamplesToDo, pipes, signals,
                   iloop, writerVars>>

\* The segment counts if it holds at least one sector.
ReaderTrim ==
    /\ ReaderAt("trim")
    /\ \E got \in {0, 1} : nSamplesToDo' = nSamplesToDo - (iloop - got)
    /\ iloop' = 0
    /\ rpc' = "last"
    /\ UNCHANGED <<stale, counts, pointers, flags, eorecording, data, pipes, signals,
                   writerVars>>

\* exit(READ_ERROR)
ReaderFails ==
    /\ ReaderAt("read") /\ "read" \in Faults
    /\ rpc' = "closing"
    /\ UNCHANGED <<stale, counts, pointers, flags, ends, data, pipes, signals, iloop,
                   writerVars>>

ReaderSetLastAlways ==
    /\ ReaderAt("last")
    /\ IF Defined < B
       THEN last_buffer' = he_fill_buffer /\ rpc' = "count"
       ELSE rpc' = "gone" /\ UNCHANGED last_buffer
    /\ UNCHANGED <<stale, counts, he_fill_buffer, flags, ends, data, pipes, signals,
                   iloop, writerVars>>

\* define_buffer(): assert(defined_buffers() < total_buffers), and the first
\* buffer is also the oldest.
ReaderSetLast ==
    /\ ReaderAt("last")
    /\ IF Defined < B
       THEN /\ last_buffer' = IF last_buffer = NULL THEN he_fill_buffer
                                                    ELSE last_buffer
            /\ rpc' = "count"
       ELSE rpc' = "gone" /\ UNCHANGED last_buffer
    /\ UNCHANGED <<stale, counts, he_fill_buffer, flags, ends, data, pipes, signals,
                   iloop, writerVars>>

ReaderCount ==
    /\ ReaderAt("count")
    /\ total_segments_read' = total_segments_read + 1
    /\ rpc' = "test"
    /\ UNCHANGED <<stale, total_segments_written, pointers, flags, ends, data, pipes,
                   signals, iloop, writerVars>>

\* semrelease(DEF_SEM): does the child wait?
ReaderTest ==
    /\ ReaderAt("test")
    /\ rpc' = IF child_waits = 1 THEN "clear" ELSE "request"
    /\ UNCHANGED <<stale, counts, pointers, flags, ends, data, pipes, signals, iloop,
                   writerVars>>

ReaderClear ==
    /\ ReaderAt("clear")
    /\ child_waits' = 0
    /\ rpc' = "wake"
    /\ UNCHANGED <<stale, counts, pointers, parent_waits, ends, data, pipes, signals,
                   iloop, writerVars>>

\* The byte; without a child SIGPIPE, whose handler ends the process.
ReaderWake ==
    /\ ReaderAt("wake")
    /\ IF wpc = "gone" THEN rpc' = "closing" /\ UNCHANGED c2p
                       ELSE rpc' = "request" /\ c2p' = c2p + 1
    /\ UNCHANGED <<stale, counts, pointers, flags, ends, data, p2c, signals, iloop,
                   writerVars>>

\* exit() runs CloseAll(): stop the child if there was more to read ...
ReaderClose ==
    /\ ReaderAt("closing")
    /\ wsig' = (wsig \/ (iloop > 0 /\ wpc # "gone"))
    /\ iloop' = 0
    /\ rpc' = "wait"
    /\ UNCHANGED <<stale, counts, pointers, flags, ends, data, pipes, rsig, writerVars>>

\* ... and wait for its end.
ReaderReap ==
    /\ ReaderAt("wait") /\ wpc = "gone"
    /\ rpc' = "gone"
    /\ UNCHANGED <<stale, counts, pointers, flags, ends, data, pipes, signals, iloop,
                   writerVars>>

\* SIGINT: exit_wrapper() calls exit(), which within exit() goes on behind
\* the handler that was interrupted.
ReaderSignalled ==
    /\ rsig /\ rpc # "gone"
    /\ rsig' = FALSE
    /\ rpc' = IF rpc \in {"closing", "wait"} THEN "gone" ELSE "closing"
    /\ UNCHANGED <<stale, counts, pointers, flags, ends, data, pipes, wsig, iloop,
                   writerVars>>

ReaderStep == \/ ReaderRequest \/ ReaderFinish \/ ReaderFlag \/ ReaderWoken
              \/ ReaderHangup \/ ReaderOccupy \/ ReaderRead \/ ReaderRealEnd
              \/ ReaderTrim \/ ReaderFails \/ ReaderSetLast \/ ReaderCount
              \/ ReaderTest \/ ReaderClear \/ ReaderWake \/ ReaderClose
              \/ ReaderReap \/ ReaderSignalled

-----------------------------------------------------------------------------
(* The child: forked_write, get_oldest_buffer, do_write, drop_buffer.       *)

\* for (; nSamplesDone < *nSamplesToDo; )
WriterLoop ==
    /\ WriterAt("loop")
    /\ IF nSamplesDone < nSamplesToDo
       THEN wpc' = "end" /\ UNCHANGED left
       ELSE wpc' = "closing" /\ left' = "loop"
    /\ UNCHANGED <<stale, counts, pointers, flags, ends, data, pipes, signals,
                   readerVars, nSamplesDone, retval, saved>>

WriterEndsAtOnce ==
    /\ WriterAt("end")
    /\ IF eorecording = 1 THEN wpc' = "closing" /\ left' = "loop"
                          ELSE wpc' = "request" /\ UNCHANGED left
    /\ UNCHANGED <<stale, counts, pointers, flags, ends, data, pipes, signals,
                   readerVars, nSamplesDone, retval, saved>>

WriterEnd ==
    /\ WriterAt("end")
    /\ wpc' = IF eorecording = 1 THEN "drained" ELSE "request"
    /\ UNCHANGED <<stale, counts, pointers, flags, ends, data, pipes, signals,
                   readerVars, nSamplesDone, retval, left, saved>>

\* The recording has ended and nothing is defined: break
WriterDrained ==
    /\ WriterAt("drained")
    /\ IF Defined = 0 THEN wpc' = "closing" /\ left' = "loop"
                      ELSE wpc' = "request" /\ UNCHANGED left
    /\ UNCHANGED <<stale, counts, pointers, flags, ends, data, pipes, signals,
                   readerVars, nSamplesDone, retval, saved>>

WriterRequest ==
    /\ WriterAt("request")
    /\ wpc' = IF Defined = 0 THEN "flag" ELSE "get"
    /\ UNCHANGED <<stale, counts, pointers, flags, ends, data, pipes, signals,
                   readerVars, nSamplesDone, retval, left, saved>>

WriterFlag ==
    /\ WriterAt("flag")
    /\ child_waits' = 1
    /\ wpc' = "blocked"
    /\ UNCHANGED <<stale, counts, pointers, parent_waits, ends, data, pipes, signals,
                   readerVars, nSamplesDone, retval, left, saved>>

WriterWoken ==
    /\ WriterAt("blocked") /\ c2p > 0
    /\ c2p' = c2p - 1
    /\ stale' = IF Defined > 0 THEN stale ELSE TRUE
    /\ wpc' = "get"
    /\ UNCHANGED <<counts, pointers, flags, ends, data, p2c, signals,
                   readerVars, nSamplesDone, retval, left, saved>>

WriterHangupAgain ==
    /\ WriterAt("blocked") /\ c2p = 0 /\ rpc = "gone"
    /\ wpc' = "request"
    /\ UNCHANGED <<stale, counts, pointers, flags, ends, data, pipes, signals,
                   readerVars, nSamplesDone, retval, left, saved>>

\* End of file on the pipe: a message, and on with the buffer that is next.
WriterHangup ==
    /\ WriterAt("blocked") /\ c2p = 0 /\ rpc = "gone"
    /\ wpc' = "get"
    /\ UNCHANGED <<stale, counts, pointers, flags, ends, data, pipes, signals,
                   readerVars, nSamplesDone, retval, left, saved>>

\* retval = *last_buffer; without any buffer do_write() dies of the pointer.
WriterGet ==
    /\ WriterAt("get")
    /\ retval' = last_buffer
    /\ IF last_buffer = NULL THEN wpc' = "gone" /\ left' = "crash"
                             ELSE wpc' = "write" /\ UNCHANGED left
    /\ UNCHANGED <<stale, counts, pointers, flags, ends, data, pipes, signals,
                   readerVars, nSamplesDone, saved>>

\* do_write() saves what is still wanted of the buffer.
WriterWrite ==
    /\ WriterAt("write")
    /\ IF nSamplesDone < nSamplesToDo
       THEN /\ saved' = Append(saved, data[retval])
            /\ nSamplesDone' = nSamplesDone + 1
       ELSE UNCHANGED <<saved, nSamplesDone>>
    /\ wpc' = "drop"
    /\ UNCHANGED <<stale, counts, pointers, flags, ends, data, pipes, signals,
                   readerVars, retval, left>>

\* SaveBuffer() fails: kill(getppid(), SIGINT); exit(WRITE_ERROR)
WriterFails ==
    /\ WriterAt("write") /\ "write" \in Faults
    /\ nSamplesDone < nSamplesToDo
    /\ rsig' = (rsig \/ rpc # "gone")
    /\ wpc' = "closing" /\ left' = "error"
    /\ UNCHANGED <<stale, counts, pointers, flags, ends, data, pipes, wsig,
                   readerVars, nSamplesDone, retval, saved>>

\* drop_buffer(): assert(occupied_buffers() > 0), then the next buffer.
WriterDrop ==
    /\ WriterAt("drop")
    /\ IF Defined > 0
       THEN last_buffer' = INC(last_buffer) /\ wpc' = "count" /\ UNCHANGED left
       ELSE wpc' = "gone" /\ left' = "assert" /\ UNCHANGED last_buffer
    /\ UNCHANGED <<stale, counts, he_fill_buffer, flags, ends, data, pipes, signals,
                   readerVars, nSamplesDone, retval, saved>>

WriterCount ==
    /\ WriterAt("count")
    /\ total_segments_written' = total_segments_written + 1
    /\ wpc' = "test"
    /\ UNCHANGED <<stale, total_segments_read, pointers, flags, ends, data, pipes,
                   signals, readerVars, nSamplesDone, retval, left, saved>>

\* semrelease(FREE_SEM): does the parent wait?
WriterTest ==
    /\ WriterAt("test")
    /\ wpc' = IF parent_waits = 1 THEN "clear" ELSE "loop"
    /\ UNCHANGED <<stale, counts, pointers, flags, ends, data, pipes, signals,
                   readerVars, nSamplesDone, retval, left, saved>>

WriterClearNothing ==
    /\ WriterAt("clear")
    /\ wpc' = "wake"
    /\ UNCHANGED <<stale, counts, pointers, flags, ends, data, pipes, signals,
                   readerVars, nSamplesDone, retval, left, saved>>

WriterClear ==
    /\ WriterAt("clear")
    /\ parent_waits' = 0
    /\ wpc' = "wake"
    /\ UNCHANGED <<stale, counts, pointers, child_waits, ends, data, pipes, signals,
                   readerVars, nSamplesDone, retval, left, saved>>

\* The byte; without a parent SIGPIPE, whose handler ends the process.
WriterWake ==
    /\ WriterAt("wake")
    /\ IF rpc = "gone"
       THEN wpc' = "closing" /\ left' = "error" /\ UNCHANGED p2c
       ELSE wpc' = "loop" /\ p2c' = p2c + 1 /\ UNCHANGED left
    /\ UNCHANGED <<stale, counts, pointers, flags, ends, data, c2p, signals,
                   readerVars, nSamplesDone, retval, saved>>

\* exit() runs CloseAll(): complete the file.
WriterClose ==
    /\ WriterAt("closing")
    /\ wpc' = "gone"
    /\ UNCHANGED <<stale, counts, pointers, flags, ends, data, pipes, signals,
                   readerVars, nSamplesDone, retval, left, saved>>

WriterSignalled ==
    /\ wsig /\ wpc # "gone"
    /\ wsig' = FALSE
    /\ wpc' = IF wpc = "closing" THEN "gone" ELSE "closing"
    /\ left' = "signal"
    /\ UNCHANGED <<stale, counts, pointers, flags, ends, data, pipes, rsig,
                   readerVars, nSamplesDone, retval, saved>>

WriterStep == \/ WriterLoop \/ WriterEnd \/ WriterDrained \/ WriterRequest
              \/ WriterFlag \/ WriterWoken \/ WriterHangup \/ WriterGet
              \/ WriterWrite \/ WriterFails \/ WriterDrop \/ WriterCount
              \/ WriterTest \/ WriterClear \/ WriterWake \/ WriterClose
              \/ WriterSignalled

-----------------------------------------------------------------------------
\* An interrupt from the terminal reaches both processes.
Interrupt ==
    /\ "interrupt" \in Faults
    /\ rpc # "gone" /\ wpc # "gone"
    /\ rsig' = TRUE /\ wsig' = TRUE
    /\ UNCHANGED <<stale, counts, pointers, flags, ends, data, pipes, readerVars,
                   writerVars>>

\* SIGKILL to one of them.
Kill ==
    /\ "kill" \in Faults
    /\ \/ rpc # "gone" /\ rpc' = "gone" /\ UNCHANGED <<wpc, left>>
       \/ wpc # "gone" /\ wpc' = "gone" /\ left' = "killed" /\ UNCHANGED rpc
    /\ UNCHANGED <<stale, counts, pointers, flags, ends, data, pipes, signals, iloop,
                   nSamplesDone, retval, saved>>

Finished == rpc = "gone" /\ wpc = "gone"

\* Both sleep, or the parent waits for the end of a child that sleeps.
Asleep ==
    /\ wpc = "blocked" /\ c2p = 0 /\ ~wsig
    /\ ~rsig /\ ((rpc = "blocked" /\ p2c = 0) \/ rpc = "wait")

Idle == (Finished \/ Asleep) /\ UNCHANGED vars

Next == ReaderStep \/ WriterStep \/ Interrupt \/ Kill \/ Idle

Spec == Init /\ [][Next]_vars

\* Both processes are scheduled; the drive and the files answer.
FairSpec == Spec /\ WF_vars(ReaderStep) /\ WF_vars(WriterStep)

-----------------------------------------------------------------------------
TypeOK ==
    /\ he_fill_buffer \in Buffers \cup {NULL}
    /\ last_buffer \in Buffers \cup {NULL} /\ retval \in Buffers \cup {NULL}
    /\ total_segments_read \in Nat /\ total_segments_written \in Nat
    /\ child_waits \in {0, 1} /\ parent_waits \in {0, 1}
    /\ eorecording \in {0, 1} /\ nSamplesToDo \in Nat
    /\ data \in [Buffers -> Nat]
    /\ p2c \in {0, 1} /\ c2p \in {0, 1}
    /\ rsig \in BOOLEAN /\ wsig \in BOOLEAN
    /\ rpc \in {"request", "flag", "blocked", "occupy", "read", "trim", "last",
                "count", "test", "clear", "wake", "closing", "wait", "gone"}
    /\ wpc \in {"loop", "end", "drained", "request", "flag", "blocked", "get",
                "write", "drop", "count", "test", "clear", "wake", "closing",
                "gone"}
    /\ iloop \in Nat /\ nSamplesDone \in Nat
    /\ left \in {"no", "loop", "error", "signal", "killed", "assert", "crash"}
    /\ saved \in Seq(Nat) /\ stale \in BOOLEAN

\* While the parent fills a buffer the child does not save from it: the two
\* counters are the only lock, and they are enough as long as every wake-up is
\* in time.
BufferExclusive ==
    /\ rpc \in {"read", "trim", "last", "count"}
    /\ wpc \in {"write", "drop"}
    => stale \/ he_fill_buffer # retval

\* What is saved is what was read, in order; only a child whose parent is gone
\* saves, at its end, a buffer nobody has defined.
SavedInOrder ==
    \A i \in 1 .. Len(saved) :
        \/ saved[i] = i
        \/ stale
        \/ i = Len(saved) /\ rpc = "gone" /\ i > total_segments_read

\* A byte answers a raised flag: it lowers the flag first, is never followed by
\* a second one, and finds its receiver asleep or on the way out.
OneByteEach ==
    /\ p2c = 1 => parent_waits = 0 /\ rpc \in {"blocked", "closing", "wait", "gone"}
    /\ c2p = 1 => child_waits = 0 /\ wpc \in {"blocked", "closing", "gone"}

\* The assertions of ringbuff.c fail in the child only when its parent is gone,
\* and never in the parent, as long as every wake-up is in time.
RingAssertions ==
    stale \/
    /\ rpc = "last" => Defined < B
    /\ wpc = "drop" => Defined > 0 \/ rpc = "gone"
    /\ left \in {"assert", "crash"} => rpc = "gone"

\* A child that leaves its loop has saved everything; at a real end of the
\* recording it may have missed the segment the end was found in.
LosesAtMostLast ==
    left = "loop" =>
        IF eorecording = 1 THEN stale \/ Len(saved) >= total_segments_read - 1
                           ELSE Len(saved) = nSamplesToDo

\* Whatever fails, both processes end, except that they may go to sleep for
\* ever on wake-ups that were lost.
EndsOrSleeps == <>(Finished \/ Asleep)

\* A buffer is taken only when it is there: the waits of get_next_buffer() and
\* get_oldest_buffer() end with a free and with a defined buffer.
WakeMeansReady ==
    /\ rpc = "occupy" => Defined < B
    /\ wpc = "get" => Defined > 0 \/ rpc = "gone"

\* The parent reads until there is nothing more to do.
ReadsAll == <>(stale \/ total_segments_read = nSamplesToDo)
=============================================================================
