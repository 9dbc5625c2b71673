------------------------------- MODULE FaioInv ------------------------------
(***************************************************************************)
(* The inductive invariant of Faio.  The occupied slots are the InRing      *)
(* slots from buf_idx on; the counters puts and gets, corrected by where    *)
(* the two processes stand, say how many these are.  Their segments form a  *)
(* chain from the place the parent expects next to the place the child      *)
(* reads next.                                                              *)
(***************************************************************************)
EXTENDS FaioRefinement

ReaderLive == {"wait", "fill", "len", "publish", "users", "puts"}
InTrack == {"get", "release", "wait", "check", "users", "decr", "faio", "use",
            "wrote", "close"}

\* Distance of slot i from buf_idx, and whether slot i holds a segment.
Off(i) == IF i >= buf_idx THEN i - buf_idx ELSE (i - buf_idx) + N
InUse(i) == Off(i) < InRing

\* The last slot may have been forced, by a child that read at most N segments.
Forced(i) == i = N - 1 /\ cpc = "exited" /\ puts <= N

\* A segment faio_read_track() can have cut.
GoodSegment(s) ==
    /\ s.trk \in 1 .. Len(tracks)
    /\ LET t == tracks[s.trk]
       IN /\ s.off <= t.filelen
          /\ s.off > 0 => ReaderLoops(t, s.off)
          /\ s.len = -1 \/ s.len = Lesser(ReaderAsks(t, s.off), t.filelen - s.off)

SlotPlace(i) == Place(bufp[i].trk, bufp[i].off)

Counters ==
    /\ InRing \in 0 .. N
    /\ Released < N => buf_idx = Released
    /\ Released = N => buf_idx = 0
    /\ cpc = "force" => puts <= N

Cursor ==
    IF cpc \in {"users", "puts"}
    THEN \/ InRing > 0 /\ Off(buf_idx_reader) = InRing - 1
         \/ InRing = 0 /\ Off(buf_idx_reader) = N - 1
    ELSE \/ InRing < N /\ Off(buf_idx_reader) = InRing
         \/ InRing = N /\ Off(buf_idx_reader) = 0

ChildPlace ==
    /\ cpc \in ReaderLive =>
        /\ trackno <= Len(tracks)
        /\ rbytes <= tracks[trackno].filelen
        /\ rbytes > 0 => ReaderLoops(tracks[trackno], rbytes)
    /\ cpc \notin ReaderLive => trackno = Len(tracks) + 1 /\ rbytes = 0
    /\ cpc \notin {"gets", "force", "exited"} => done = 0
    /\ cpc \in {"fill", "len", "publish"} =>
        owner[buf_idx_reader] = "writer" /\ InRing < N
    /\ cpc \in {"fill", "len", "publish", "users", "puts"} =>
        fd[buf_idx_reader] = tracks[trackno].fd
    /\ cpc \in {"len", "publish", "users", "puts"} =>
        /\ bufp[buf_idx_reader] = Segment(trackno, rbytes, rlen)
        /\ GoodSegment(bufp[buf_idx_reader])
    /\ cpc \in {"publish", "users", "puts"} => len[buf_idx_reader] = rlen

Owners ==
    \A i \in Slots :
        IF InUse(i)
        THEN IF i = buf_idx /\ Holds /\ ppc \notin {"users", "decr", "faio"}
             THEN owner[i] = "faio" \/ (Forced(i) /\ owner[i] = "reader")
             ELSE owner[i] = "reader"
        ELSE owner[i] = "writer" \/ (Forced(i) /\ owner[i] = "reader")

Contents ==
    \A i \in Slots : InUse(i) =>
        /\ GoodSegment(bufp[i])
        /\ fd[i] = tracks[bufp[i].trk].fd
        /\ len[i] = bufp[i].len

Chain ==
    \A i \in Slots : InUse(i) =>
        IF Off(i) + 1 < InRing THEN SlotPlace(Next1(i)) = Behind(i)
        ELSE Behind(i) = ReaderPlace

\* The place the parent expects next is where the chain begins.
ParentPlace ==
    /\ ~Holds => IF InRing > 0 THEN SlotPlace(buf_idx) = Place(cur, wbytes)
                               ELSE ReaderPlace = Place(cur, wbytes)
    /\ Holds => InRing > 0
    /\ ppc \in {"grace", "starts", "await", "session"} => gets = 0
    /\ gets = 0 => cur = 1 /\ wbytes = 0
    /\ ppc \in {"release", "users", "decr", "faio", "use", "wrote", "close"} => gets > 0
    /\ ppc \in InTrack => cur <= Len(tracks)
    /\ ppc = "check" => InRing > 0 /\ bufp[buf_idx] = Segment(cur, wbytes, wlen)
    /\ ppc \in {"users", "decr", "faio", "use"} =>
        bufp[buf_idx] = Segment(cur, wbytes, wlen)
    /\ ppc = "wrote" =>
        wlen > 0 /\ wlen <= wbytes /\ bufp[buf_idx] = Segment(cur, wbytes - wlen, wlen)
    /\ ppc \in {"get", "release"} /\ gets > 0 => Behind(buf_idx) = Place(cur, wbytes)
    /\ ppc = "release" => owner[buf_idx] = "faio"
    /\ ppc = "close" => Behind(buf_idx) = Place(cur + 1, 0)
    /\ ppc = "open" /\ gets > 0 => Behind(buf_idx) = Place(cur, 0)

BlockSize ==
    /\ ppc \in InTrack \ {"wrote", "close"}
       \/ (ppc = "wrote" /\ WriterLoops(tracks[cur], wbytes)) =>
        wspt = tracks[cur].bytespt \/ wbytes = tracks[cur].filelen
    /\ ppc \in {"users", "decr", "faio", "use"} =>
        wlen <= WriterAsks(tracks[cur], wbytes, wspt)
    /\ outcome \notin {"wrongfd", "short"}

Users == (\A i \in Slots : users[i] <= 1) /\ UsersDrain

Inv == /\ TypeOK /\ Counters /\ Cursor /\ ChildPlace /\ Owners /\ Contents
       /\ Chain /\ ParentPlace /\ BlockSize /\ Users

-----------------------------------------------------------------------------
(* The inductive invariant behind what reaches the drive.                   *)

\* Where the data of the current track ends on the drive.
CurEnd ==
    IF written = << >> \/ written[Len(written)].trk # cur THEN 0
    ELSE written[Len(written)].off + written[Len(written)].len

\* The drive holds the last byte of track t, if it has one.
Complete(t) ==
    TrackBytes(tracks[t]) > 0 =>
        \E i \in 1 .. Len(written) :
            /\ written[i].trk = t
            /\ written[i].off + written[i].len = TrackBytes(tracks[t])

\* What the parent has counted of the current track is what the drive took.
Counted ==
    /\ \A i \in 1 .. Len(written) : written[i].trk \in 1 .. Len(tracks)
    /\ written # << >> => written[Len(written)].trk <= cur
    /\ ppc \in {"grace", "starts", "await", "session"} => written = << >>
    /\ ppc = "open" /\ written # << >> => written[Len(written)].trk < cur
    /\ ppc \in InTrack \ {"wrote", "close"} => wbytes = CurEnd
    /\ ppc = "wrote" => wbytes = CurEnd \/ tracks[cur].tracksize = 0

\* The tracks behind the parent are complete.
TracksComplete ==
    /\ \A t \in 1 .. Len(tracks) :
          t < cur \/ (t = cur /\ ppc = "close") => Complete(t)
    /\ outcome = "burnt" => cur = Len(tracks) + 1

\* Beyond await_faio() the last slot has been filled or forced.
Awaited == ppc \notin {"grace", "starts", "await"} => Published >= N \/ cpc = "exited"

Delivered == WrittenInOrder /\ Counted /\ TracksComplete /\ Awaited

-----------------------------------------------------------------------------
(* The inductive invariant behind NobodyStuck: how the child can be gone    *)
(* while the parent waits in await_faio().                                  *)
Gone ==
    /\ child = "killed" => ending # "no"
    /\ ppc \in {"grace", "starts", "await"} =>
          /\ child = "gaveup" => Published = N
          /\ cpc = "exited" => owner[N - 1] = "reader"
-----------------------------------------------------------------------------
(* The inductive invariant behind the scan of await_faio(): while the parent *)
(* has not passed it, slot i holds the segment that was read as the i-th.   *)

Before == ppc \in {"grace", "starts", "await"}
Filling == cpc \in {"fill", "len", "publish"}

\* Segments that the first n bytes of a track make.
Cuts(t, n) == (n + t.bytespt - 1) \div t.bytespt

\* No earlier track was read from the same file.
FirstOf(t) == \A u \in 1 .. t - 1 : tracks[u].fd # tracks[t].fd

\* Up to here the child has put no more segments than the track table says, and
\* what it has at hand tells an empty pipe from one that was closed before.
ReadSoFar ==
    /\ cpc \in ReaderLive =>
          LET t == tracks[trackno]
          IN /\ rbytes % t.bytespt = 0 \/ rbytes = t.filelen
             /\ puts <= SegmentsBefore[trackno] + Cuts(t, rbytes)
    /\ closed = {tracks[u].fd : u \in 1 .. trackno - 1}
    /\ cpc \in {"len", "publish", "users", "puts"} =>
          /\ rlen = -1 \/ FirstOf(trackno)
          /\ "read" \notin Faults /\ DeadPipe(trackno) => rlen = 0

\* Track t has been read and handed over.
Passed(t) == t < trackno \/ (t = trackno /\ cpc \in {"users", "puts"})

FirstRound ==
    Before =>
       /\ \A i \in Slots : i < Published => bufp[i].len = -1 \/ FirstOf(bufp[i].trk)
       /\ \A i \in Slots : i >= Published /\ ~(Filling /\ i = buf_idx_reader) => fd[i] = NoFd
       /\ "read" \notin Faults =>
             \A t \in 1 .. Len(tracks) : DeadPipe(t) /\ Passed(t) =>
                \E n \in Slots : /\ n < Published /\ n <= SegmentsBefore[t]
                                 /\ bufp[n] = Segment(t, 0, 0)

\* The scan stops the burn exactly for a pipe that delivers nothing.
Stopped ==
    /\ outcome = "input" => \E t \in 1 .. Len(tracks) : DeadPipe(t)
    /\ "read" \notin Faults
       /\ (\E t \in 1 .. Len(tracks) : DeadPipe(t) /\ SegmentsBefore[t] < N) => Before

EofInv == TypeOK /\ ReadSoFar /\ FirstRound /\ Stopped
=============================================================================
