---------------------------- MODULE CddaRingInv -----------------------------
(***************************************************************************)
(* The inductive invariant of CddaRing.  The counters bound the distance of *)
(* the two ends of the ring, the indices agree with the counters, and the   *)
(* flags and bytes agree with where the two processes stand.                *)
(***************************************************************************)
EXTENDS CddaRing

ReaderOut == {"closing", "wait", "gone"}
WriterOut == {"closing", "gone"}
Occupied == rpc \in {"read", "trim", "last", "count"}

\* The index k buffers after index i.
Ahead(i, k) == IF i + k >= B THEN (i + k) - B ELSE i + k

\* Defined buffers from last_buffer on.
Behind == IF wpc = "count" THEN Defined - 1 ELSE Defined

Counters ==
    /\ Defined \in 0 .. B
    /\ rpc = "count" => Defined < B
    /\ wpc = "count" => Defined > 0
    /\ total_segments_read > 0 => last_buffer # NULL
    /\ rpc = "count" => last_buffer # NULL
    /\ wpc \in {"write", "drop", "count"} => last_buffer # NULL
    /\ wpc = "write" => retval # NULL

\* What is still to be read, and what has been.
Wanted ==
    /\ rpc \notin ReaderOut =>
        nSamplesToDo + (IF eorecording = 1 /\ rpc # "trim" THEN 1 ELSE 0)
            >= total_segments_read + iloop
               + (IF rpc \in {"last", "count"} THEN 1 ELSE 0)
    /\ rpc \in {"read", "trim"} => iloop > 0
    /\ rpc = "trim" => eorecording = 1
    /\ rpc \in {"flag", "blocked", "occupy"} => iloop > 0
    /\ eorecording = 1 /\ rpc # "trim" => rpc \in ReaderOut \/ iloop = 0

Bytes ==
    /\ child_waits = 1 =>
        c2p = 0 /\ (wpc \in {"blocked", "closing", "gone"} \/ rpc = "gone")
    /\ rpc = "clear" => child_waits = 1
    /\ rpc = "wake" =>
        child_waits = 0 /\ c2p = 0 /\ wpc \in {"blocked", "closing", "gone"}
    /\ parent_waits = 1 => p2c = 0 /\ rpc \in {"blocked", "closing", "wait", "gone"}
    /\ wpc = "clear" => parent_waits = 1
    /\ wpc = "wake" =>
        parent_waits = 0 /\ p2c = 0 /\ rpc \in {"blocked", "closing", "wait", "gone"}
    /\ OneByteEach

\* As long as every wake-up was in time.
Ring ==
    stale \/
    /\ rpc = "occupy" \/ Occupied => Defined < B
    /\ wpc \in {"get", "write", "drop"} => Defined > 0 \/ rpc = "gone"
    /\ wpc \in {"write", "drop"} => retval = last_buffer
    /\ rpc \notin ReaderOut /\ wpc \notin WriterOut /\ last_buffer # NULL =>
        IF Occupied THEN he_fill_buffer = Ahead(last_buffer, Behind)
                    ELSE INC(he_fill_buffer) = Ahead(last_buffer, Behind)
    /\ Occupied => he_fill_buffer # NULL
    /\ left \in {"assert", "crash"} => rpc = "gone"

\* Counters, indices, flags and bytes agree with each other and with where the
\* two processes of cdda2wav stand, whatever the order of their steps.
RingInv == TypeOK /\ Counters /\ Wanted /\ Bytes /\ Ring

\* The child has saved a buffer and not counted it yet.
AfterSave == wpc \in {"drop", "count"}

\* As long as every wake-up was in time and the child lives: the defined buffers
\* hold the segments the child has not taken yet, in order.
Buffered ==
    stale \/ wpc \in WriterOut \/
    /\ rpc \in {"trim", "last", "count"} =>
        data[he_fill_buffer] = total_segments_read + 1
    /\ \A k \in 0 .. Behind - 1 :
        data[Ahead(last_buffer, k)] =
            total_segments_written + k + 1 + (IF wpc = "count" THEN 1 ELSE 0)

\* What the child has saved agrees with what it has taken out of the ring, until
\* a real end of the recording shortens what it has to save.
Saving ==
    /\ nSamplesDone = Len(saved)
    /\ wpc \notin WriterOut =>
        \/ nSamplesDone >= nSamplesToDo
        \/ nSamplesDone = total_segments_written + (IF AfterSave THEN 1 ELSE 0)
    /\ eorecording = 0 =>
        /\ nSamplesDone <= nSamplesToDo
        /\ wpc \notin WriterOut =>
            nSamplesDone = total_segments_written + (IF AfterSave THEN 1 ELSE 0)
        /\ wpc \in {"end", "drained", "request", "flag", "blocked", "get", "write"} =>
            nSamplesDone < nSamplesToDo
    /\ SavedInOrder

\* A child that has left its loop is at most the last segment behind.
Left ==
    /\ total_segments_read + (IF rpc \in {"last", "count"} THEN 1 ELSE 0)
        <= nSamplesToDo + eorecording
    /\ wpc = "drained" => eorecording = 1
    /\ left = "loop" =>
        /\ wpc \in WriterOut
        /\ IF eorecording = 1
            THEN Len(saved) + 1 >= total_segments_read
                     + (IF rpc \in {"trim", "last", "count"} THEN 1 ELSE 0)
            ELSE /\ Len(saved) = nSamplesToDo
                 /\ rpc \in ReaderOut \/ iloop = 0

\* What is saved is what was read, and no more than the last segment is missing.
SaveInv == RingInv /\ Buffered /\ Saving /\ Left
=============================================================================
