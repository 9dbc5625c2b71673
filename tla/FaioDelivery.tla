---------------------------- MODULE FaioDelivery ----------------------------
(***************************************************************************)
(* What the FIFO delivers, for every ring, every table of tracks and every  *)
(* combination of faults: the order and the completeness of what the drive  *)
(* gets, the percentage that is shown, the cycle of the owner words, the    *)
(* scan for a pipe that delivers nothing, and that no process polls in vain.*)
(***************************************************************************)
EXTENDS FaioProofs, NatSums

USE DEF memory, slotVars, segVars, statVars, childSide, parentSide, childVars,
        childLocals, parentVars, parentCtl, parentLocals, driveVars,
        InterruptNoted, InterruptLost, InterruptKills, InterruptLeaves

\* The segment the parent is about to write, in numbers: it starts where the
\* parent has counted to, and ends inside the file and the announced size.
LEMMA SegmentAtUse ==
  ASSUME Inv, ppc = "use"
  PROVE  /\ cur \in 1 .. Len(tracks) /\ wbytes \in Nat /\ wlen \in Nat \cup {-1}
         /\ wspt \in Nat /\ bufp[buf_idx] = Segment(cur, wbytes, wlen)
         /\ tracks[cur].tracksize \in Nat \cup {-1} /\ tracks[cur].filelen \in Nat
         /\ tracks[cur].secsize \in Nat \ {0}
         /\ wbytes <= tracks[cur].filelen
         /\ wbytes > 0 /\ tracks[cur].tracksize >= 0 => wbytes < tracks[cur].tracksize
         /\ wlen >= 0 =>
              /\ wbytes + wlen <= tracks[cur].filelen
              /\ tracks[cur].tracksize > 0 => wbytes + wlen <= tracks[cur].tracksize
              /\ wlen <= wspt
              /\ wlen = 0 => wbytes = tracks[cur].filelen
  <1>1. /\ bufp[buf_idx] = Segment(cur, wbytes, wlen) /\ InRing > 0
        /\ buf_idx \in Slots /\ InRing \in Int
    BY SMT DEF Inv, ParentPlace, Holds, TypeOK, ParentTypes, Counters
  <1>2. InUse(buf_idx)
    BY <1>1, SMT DEF InUse, Off, Slots
  <1>3. GoodSegment(Segment(cur, wbytes, wlen))
    BY <1>1, <1>2 DEF Inv, Contents
  <1>4. /\ cur \in 1 .. Len(tracks) /\ wbytes \in Nat /\ wspt \in Nat
        /\ wlen \in Nat \cup {-1}
    BY <1>3, SMT DEF GoodSegment, Segment, Inv, TypeOK, ParentTypes
  <1>5. /\ tracks[cur].bytespt \in Nat \ {0} /\ tracks[cur].tracksize \in Nat \cup {-1}
        /\ tracks[cur].filelen \in Nat /\ tracks[cur].secsize \in Nat \ {0}
    BY <1>4, RowType DEF Inv
  <1>6. wlen <= WriterAsks(tracks[cur], wbytes, wspt)
    BY DEF Inv, BlockSize
  <1>7. wlen <= wspt
    BY <1>4, <1>5, <1>6, SMT DEF WriterAsks, Lesser
  <1>8. /\ wbytes <= tracks[cur].filelen
        /\ wbytes > 0 => ReaderLoops(tracks[cur], wbytes)
        /\ wlen = -1 \/ wlen = Lesser(ReaderAsks(tracks[cur], wbytes),
                                      tracks[cur].filelen - wbytes)
    BY <1>3, SMT DEF GoodSegment, Segment
  <1> QED
    BY <1>1, <1>4, <1>5, <1>7, <1>8, SMT DEF ReaderLoops, ReaderAsks, Lesser

\* ParentWrite in numbers: what is sent is what was got, but nothing of a track
\* of size 0, and it fits into the block.
LEMMA WriteInNumbers ==
  ASSUME Inv, ParentWrite
  PROVE  \E count \in Nat, bpt \in Nat :
            /\ count <= bpt /\ wbytes + count <= TrackBytes(tracks[cur])
            /\ wbytes' = wbytes + count \/ tracks[cur].tracksize = 0
            /\ WriteSecs([trk |-> cur, off |-> wbytes, len |-> count, size |-> bpt])
  <1> DEFINE t     == tracks[cur]
             n     == wbytes + wlen
             count == IF t.tracksize >= 0 /\ n >= t.tracksize
                      THEN wlen - (n - t.tracksize) ELSE wlen
             bpt   == IF count < wspt THEN PadUp(count, t.secsize) ELSE wspt
  <1>1. ppc = "use" /\ wlen > 0 /\ wbytes' = n
        /\ WriteSecs([trk |-> bufp[buf_idx].trk, off |-> bufp[buf_idx].off,
                      len |-> count, size |-> bpt])
    BY DEF ParentWrite, ParentAt
  <1>2. /\ wbytes \in Nat /\ wlen \in Nat /\ wspt \in Nat
        /\ t.tracksize \in Nat \cup {-1} /\ t.filelen \in Nat /\ t.secsize \in Nat \ {0}
        /\ wbytes > 0 /\ t.tracksize >= 0 => wbytes < t.tracksize
        /\ n <= t.filelen /\ (t.tracksize > 0 => n <= t.tracksize) /\ wlen <= wspt
        /\ bufp[buf_idx].trk = cur /\ bufp[buf_idx].off = wbytes
    BY <1>1, SegmentAtUse, SMT DEF Segment
  <1>3. /\ count \in Nat /\ count <= wspt
        /\ wbytes + count <= TrackBytes(t)
        /\ n = wbytes + count \/ t.tracksize = 0
    <2> DEFINE s == t.tracksize
               f == t.filelen
    <2>1. TrackBytes(t) = IF s < 0 THEN f ELSE IF s > f THEN f ELSE s
      BY DEF TrackBytes, Lesser
    <2> HIDE DEF s, f
    <2>2. CASE s = -1
      BY <1>1, <1>2, <2>1, <2>2, SMT DEF s, f
    <2>3. CASE s = 0
      BY <1>1, <1>2, <2>1, <2>3, SMT DEF s, f
    <2>4. CASE s > 0
      BY <1>1, <1>2, <2>1, <2>4, SMT DEF s, f
    <2> QED
      BY <1>2, <2>2, <2>3, <2>4, SMT DEF s
  <1>4. bpt \in Nat /\ count <= bpt
    <2> HIDE DEF count
    <2>1. count % t.secsize \in 0 .. t.secsize - 1
      BY <1>2, <1>3, SMT
    <2>2. PadUp(count, t.secsize) \in Nat /\ count <= PadUp(count, t.secsize)
      BY <1>2, <1>3, <2>1, SMT DEF PadUp
    <2> QED
      BY <1>2, <1>3, <2>2
  <1> QED
    <2> HIDE DEF count, bpt
    <2>1. WriteSecs([trk |-> cur, off |-> wbytes, len |-> count, size |-> bpt])
      BY <1>1, <1>2
    <2> QED
      BY <1>1, <1>3, <1>4, <2>1

\* One more block: a block appended to what is on the drive keeps the order if
\* it starts where the drive stands.
LEMMA AppendInOrder ==
  ASSUME Inv, Delivered, cur \in 1 .. Len(tracks), wbytes = CurEnd,
         NEW count \in Nat, NEW bpt \in Nat,
         count <= bpt, wbytes + count <= TrackBytes(tracks[cur]),
         UNCHANGED <<tracks, cur>>,
         written' = Append(written, [trk |-> cur, off |-> wbytes, len |-> count,
                                     size |-> bpt])
  PROVE  /\ WrittenInOrder'
         /\ \A i \in 1 .. Len(written') : written'[i].trk \in 1 .. Len(tracks)
         /\ written' # << >> /\ written'[Len(written')].trk = cur
         /\ CurEnd' = wbytes + count
         /\ \A t \in 1 .. Len(tracks) : Complete(t) => Complete(t)'
  <1> DEFINE w == [trk |-> cur, off |-> wbytes, len |-> count, size |-> bpt]
             R == [trk : Nat, off : Nat, len : Nat, size : Nat]
             L == Len(written)
  <1>1. cur \in Nat /\ wbytes \in Nat /\ written \in Seq(R)
    BY SMT DEF Inv, TypeOK, SharedTypes, ParentTypes, DriveTypes
  <1>2. w \in R
    BY <1>1
  <1>3. w.trk = cur /\ w.off = wbytes /\ w.len = count /\ w.size = bpt
    OBVIOUS
  <1> HIDE DEF w, R
  <1>8. /\ L \in Nat /\ Len(written') = L + 1 /\ written' \in Seq(R)
        /\ written'[L + 1] = w
        /\ \A i \in 1 .. L : written'[i] = written[i] /\ written[i] \in R
        /\ written = << >> <=> L = 0
    BY <1>1, <1>2, SMT DEF w
  <1> HIDE DEF L
  <1>4. CurEnd' = wbytes + count
    BY <1>1, <1>2, <1>8, <1>3, SMT DEF CurEnd
  <1>5. \A i \in 1 .. Len(written') : written'[i].trk \in 1 .. Len(tracks)
    BY <1>1, <1>2, <1>8, <1>3, SMT DEF Delivered, Counted, L
  <1>6. WrittenInOrder'
    <2> SUFFICES ASSUME NEW i \in 1 .. L + 1
                 PROVE  LET x == written'[i]
                            first == i = 1 \/ written'[i - 1].trk # x.trk
                        IN /\ x.off = IF first THEN 0
                                      ELSE written'[i - 1].off + written'[i - 1].len
                           /\ i > 1 => written'[i - 1].trk <= x.trk
                           /\ x.off + x.len <= TrackBytes(tracks[x.trk])
                           /\ x.len <= x.size
      BY <1>2, <1>8 DEF WrittenInOrder
    <2>1. CASE i \in 1 .. L
      <3>1. written'[i] = written[i] /\ (i > 1 => written'[i - 1] = written[i - 1])
        BY <1>2, <1>8, <2>1, SMT
      <3> QED
        BY <2>1, <3>1, SMT DEF Delivered, WrittenInOrder, L
    <2>2. CASE i = L + 1
      <3>1. written'[i] = w /\ (i > 1 => written'[i - 1] = written[L])
        BY <1>2, <1>8, <2>2, SMT
      <3>2. i > 1 => L \in 1 .. L /\ written # << >> /\ written[L].trk <= cur
        BY <1>2, <1>8, <2>2, SMT DEF Delivered, Counted, L
      <3>3. wbytes = IF i = 1 \/ written[L].trk # cur THEN 0
                     ELSE written[L].off + written[L].len
        BY <1>2, <1>8, <2>2, SMT DEF CurEnd, L
      <3>4. CASE i = 1
        BY <1>3, <3>1, <3>3, <3>4, SMT
      <3>5. CASE i # 1
        <4> DEFINE x == written'[i]
                   y == written'[i - 1]
        <4>1. /\ x = w /\ y = written[L] /\ i > 1 /\ y.trk <= cur
              /\ wbytes = IF y.trk # cur THEN 0 ELSE y.off + y.len
          BY <1>8, <3>1, <3>2, <3>3, <3>5, SMT
        <4> HIDE DEF x, y
        <4>2. /\ x.off = IF i = 1 \/ y.trk # x.trk THEN 0 ELSE y.off + y.len
              /\ i > 1 => y.trk <= x.trk
              /\ x.off + x.len <= TrackBytes(tracks[x.trk])
              /\ x.len <= x.size
          BY <1>3, <3>5, <4>1
        <4> QED
          BY <4>2 DEF x, y
      <3> QED
        BY <3>4, <3>5
    <2> QED
      BY <1>2, <1>8, <2>1, <2>2, SMT
  <1>7. \A t \in 1 .. Len(tracks) : Complete(t) => Complete(t)'
    BY <1>2, <1>8, SMT DEF Complete, L
  <1> QED
    BY <1>2, <1>8, <1>3, <1>4, <1>5, <1>6, <1>7

\* Beyond await_faio() the ring has been full once, or everything has been read.
LEMMA AwaitedKept ==
  ASSUME Inv, Awaited, [Next]_vars
  PROVE  Awaited'
  <1>1. puts \in Nat /\ gets \in Nat /\ cpc \in {"wait", "fill", "len", "publish", "users",
                           "puts", "done", "gets", "force", "exited"}
    BY SMT DEF Inv, TypeOK, SharedTypes, ChildTypes
  <1>2. ASSUME ChildStep
        PROVE  /\ Published' >= Published /\ ppc' = ppc
               /\ cpc = "exited" => cpc' = "exited"
    BY <1>1, <1>2, SMT DEF ChildStep, ChildAcquire, ChildGiveUp, ChildFill, ChildStoreLen,
       ChildPublish, ChildStoreUsers, ChildCount, ChildDone, ChildTestGets, ChildForceLast,
       ChildAt, Published
  <1>3. ASSUME ParentStep \/ ParentInterrupt
        PROVE  puts' = puts /\ cpc' = cpc
    BY <1>3, SMT DEF ParentStep, ParentInterrupt, ParentLastTest, ParentStart,
       ParentAwait, ParentSession,
       ParentOpenTrack, ParentLastTrack, ParentGet, ParentRelease, ParentAcquire,
       ParentGiveUp, ParentCheck, ParentLoadUsers, ParentStoreUsers, ParentHold,
       ParentReadError, ParentEndOfInput, ParentWrite, ParentLoop, ParentCloseTrack,
       ParentFix, ParentNoted, ParentRestore, ParentKill
  <1>4. ASSUME ParentStep \/ ParentInterrupt, Before
        PROVE  Before' \/ ParentAwait
    BY <1>4, SMT DEF ParentStep, ParentInterrupt, ParentLastTest, ParentStart,
       ParentAwait, ParentSession,
       ParentOpenTrack, ParentLastTrack, ParentGet, ParentRelease, ParentAcquire,
       ParentGiveUp, ParentCheck, ParentLoadUsers, ParentStoreUsers, ParentHold,
       ParentReadError, ParentEndOfInput, ParentWrite, ParentLoop, ParentCloseTrack,
       ParentFix, ParentNoted, ParentRestore, ParentKill, ParentAt, Before
  <1>5. ASSUME ParentAwait
        PROVE  Published >= N \/ cpc = "exited"
    <2>1. owner[N - 1] = "reader" /\ gets = 0 /\ ~Holds
      BY <1>5, SMT DEF ParentAwait, ParentAt, Inv, ParentPlace, Holds
    <2>2. InRing = Published /\ buf_idx = 0 /\ N - 1 \in Slots /\ InRing \in Nat
      BY <1>1, <2>1, NAssumption, SMT DEF InRing, Released, Published, Inv, Counters, Slots
    <2>3. InUse(N - 1) \/ Forced(N - 1)
      BY <2>1, <2>2 DEF Inv, Owners
    <2> QED
      BY <2>2, <2>3, NAssumption, SMT DEF InUse, Off, Forced
  <1>6. ASSUME UNCHANGED vars
        PROVE  puts' = puts /\ cpc' = cpc /\ ppc' = ppc
    BY <1>6 DEF vars
  <1>7. puts' = puts /\ cpc' = cpc => Published' = Published
    BY DEF Published
  <1> QED
    <2>1. CASE ChildStep
      <3>1. Published \in Int /\ Published' \in Int /\ N \in Int
        BY <1>1, <1>2, <2>1, NextInv, NAssumption, SMT DEF Published, Inv, TypeOK,
           SharedTypes
      <3> QED
        BY <1>2, <2>1, <3>1, SMT DEF Awaited
    <2>2. CASE ParentStep \/ ParentInterrupt
      BY <1>3, <1>4, <1>5, <1>7, <2>2 DEF Awaited, Before
    <2>3. CASE UNCHANGED vars
      BY <1>6, <1>7, <2>3 DEF Awaited
    <2> QED
      BY <2>1, <2>2, <2>3 DEF Next, Idle

\* Every step keeps Delivered.
LEMMA DeliveredKept ==
  ASSUME Inv, Delivered, [Next]_vars
  PROVE  Delivered'
  <1> DEFINE NotBurnt == outcome' = "burnt" => outcome = "burnt" \/ cur' = Len(tracks) + 1
  <1>1. /\ cur \in 1 .. Len(tracks) + 1 /\ Len(tracks) \in Nat /\ wbytes \in Nat
        /\ Len(written) \in Nat /\ cur \in Nat
        /\ \A i \in 1 .. Len(written) :
              written[i].trk \in Nat /\ written[i].off + written[i].len \in Nat
        /\ written # << >> => Len(written) \in 1 .. Len(written)
    <2> DEFINE R == [trk : Nat, off : Nat, len : Nat, size : Nat]
    <2>1. /\ cur \in 1 .. Len(tracks) + 1 /\ Len(tracks) \in Nat /\ wbytes \in Nat
          /\ written \in Seq(R) /\ Len(written) \in Nat
      BY SMT DEF Inv, TypeOK, SharedTypes, ParentTypes, DriveTypes
    <2>2. \A r \in R : r.trk \in Nat /\ r.off + r.len \in Nat
      BY SMT
    <2> HIDE DEF R
    <2>3. /\ \A i \in 1 .. Len(written) : written[i] \in R
          /\ written # << >> => Len(written) \in 1 .. Len(written)
      BY <2>1, SMT
    <2> QED
      BY <2>1, <2>2, <2>3, SMT
  \* Nothing is written: the drive's side of the invariant stays.
  <1>2. ASSUME UNCHANGED <<tracks, written, cur>>
        PROVE  /\ WrittenInOrder' /\ CurEnd' = CurEnd
               /\ \A t \in 1 .. Len(tracks) : Complete(t)' <=> Complete(t)
    BY <1>2 DEF Delivered, WrittenInOrder, CurEnd, Complete
  \* Neither is the parent at another place that the invariant speaks of.
  <1>3. ASSUME UNCHANGED <<tracks, written, cur, wbytes>>, NotBurnt,
               \/ ppc' = ppc
               \/ ppc' = "fix"
               \/ Before /\ ppc' \in {"starts", "await", "session"}
               \/ ppc = "session" /\ ppc' = "open"
               \/ /\ ppc \in InTrack \ {"wrote", "close"}
                  /\ ppc' \in InTrack \ {"wrote", "close"}
        PROVE  Counted' /\ TracksComplete'
    <2>1. Counted'
      BY <1>1, <1>2, <1>3 DEF Delivered, Counted, InTrack, Before
    <2>2. TracksComplete'
      BY <1>1, <1>2, <1>3 DEF Delivered, TracksComplete, InTrack, Before
    <2> QED
      BY <2>1, <2>2
  <1>4. CASE ChildStep \/ UNCHANGED vars
    <2>1. UNCHANGED <<tracks, written, cur, wbytes, ppc, outcome>>
      BY <1>4, SMT DEF ChildStep, ChildAcquire, ChildGiveUp, ChildFill, ChildStoreLen,
         ChildPublish, ChildStoreUsers, ChildCount, ChildDone, ChildTestGets,
         ChildForceLast, vars
    <2> QED
      BY <1>2, <1>3, <2>1, AwaitedKept DEF Delivered
  <1>5. CASE \/ ParentLastTest \/ ParentStart \/ ParentAwait \/ ParentSession
             \/ ParentLastTrack \/ ParentGet
             \/ ParentRelease \/ ParentAcquire \/ ParentGiveUp \/ ParentCheck
             \/ ParentLoadUsers \/ ParentStoreUsers \/ ParentHold \/ ParentReadError
             \/ ParentFix \/ ParentNoted \/ ParentRestore \/ ParentKill \/ ParentInterrupt
    <2>1. UNCHANGED <<tracks, written, cur, wbytes>>
      BY <1>5, SMT DEF ParentLastTest, ParentStart, ParentAwait, ParentSession,
         ParentLastTrack, ParentGet,
         ParentRelease, ParentAcquire, ParentGiveUp, ParentCheck, ParentLoadUsers,
         ParentStoreUsers, ParentHold, ParentReadError, ParentFix, ParentNoted,
         ParentRestore,
         ParentKill, ParentInterrupt
    <2>2. NotBurnt
      BY <1>1, <1>5, <2>1, SMT DEF ParentLastTest, ParentStart, ParentAwait,
         ParentSession, ParentLastTrack,
         ParentGet, ParentRelease, ParentAcquire, ParentGiveUp, ParentCheck,
         ParentLoadUsers, ParentStoreUsers, ParentHold, ParentReadError, ParentFix,
         ParentNoted, ParentRestore, ParentKill, ParentInterrupt, Leave
    <2>3. \/ ppc' = ppc \/ ppc' = "fix"
          \/ Before /\ ppc' \in {"starts", "await", "session"}
          \/ ppc = "session" /\ ppc' = "open"
          \/ /\ ppc \in InTrack \ {"wrote", "close"}
             /\ ppc' \in InTrack \ {"wrote", "close"}
      BY <1>5, SMT DEF ParentLastTest, ParentStart, ParentAwait, ParentSession,
         ParentLastTrack,
         ParentGet, ParentRelease, ParentAcquire, ParentGiveUp, ParentCheck,
         ParentLoadUsers, ParentStoreUsers, ParentHold, ParentReadError, ParentFix,
         ParentNoted, ParentRestore, ParentKill, ParentInterrupt, Leave, ParentAt,
         InTrack, Before
    <2> QED
      BY <1>2, <1>3, <2>1, <2>2, <2>3, AwaitedKept DEF Delivered
  \* The track is complete when the drive stands at its end.
  <1>6. ASSUME cur \in 1 .. Len(tracks), CurEnd = TrackBytes(tracks[cur])
        PROVE  Complete(cur)
    <2>1. SUFFICES ASSUME CurEnd > 0
                   PROVE  \E i \in 1 .. Len(written) :
                             /\ written[i].trk = cur
                             /\ written[i].off + written[i].len = CurEnd
      BY <1>6 DEF Complete
    <2>2. written # << >> /\ written[Len(written)].trk = cur
      BY <2>1, SMT DEF CurEnd
    <2> QED
      BY <1>1, <2>2 DEF CurEnd
  <1>7. CASE ParentOpenTrack
    <2>1. /\ ppc = "open" /\ UNCHANGED <<tracks, written, cur>>
          /\ outcome' = "burnt" => outcome = "burnt"
          /\ \/ ppc' = "get" /\ wbytes' = 0
             \/ ppc' = "fix" /\ wbytes' = wbytes
      BY <1>7, SMT DEF ParentOpenTrack, ParentAt
    <2>2. CurEnd = 0
      BY <1>1, <2>1, SMT DEF Delivered, Counted, CurEnd
    <2>3. Counted'
      BY <1>1, <1>2, <2>1, <2>2 DEF Delivered, Counted, InTrack
    <2>4. TracksComplete'
      BY <1>1, <1>2, <2>1 DEF Delivered, TracksComplete
    <2> QED
      BY <1>2, <2>1, <2>3, <2>4, AwaitedKept DEF Delivered
  <1>8. CASE ParentEndOfInput
    <2>1. /\ ppc = "use" /\ ppc' = "close" /\ wlen = 0 /\ UNCHANGED <<tracks, written, cur>>
          /\ UNCHANGED <<wbytes, outcome>>
      BY <1>8, SMT DEF ParentEndOfInput, ParentAt
    <2>2. /\ cur \in 1 .. Len(tracks) /\ wbytes = tracks[cur].filelen
          /\ tracks[cur].tracksize \in Nat \cup {-1} /\ tracks[cur].filelen \in Nat
          /\ wbytes > 0 /\ tracks[cur].tracksize >= 0 => wbytes < tracks[cur].tracksize
      BY <2>1, SegmentAtUse, SMT
    <2>3. wbytes = CurEnd
      BY <2>1 DEF Delivered, Counted, InTrack
    <2>4. CurEnd = TrackBytes(tracks[cur])
      BY <2>2, <2>3, SMT DEF TrackBytes, Lesser
    <2>5. Complete(cur)
      BY <1>6, <2>2, <2>4
    <2>6. Counted'
      BY <1>1, <1>2, <2>1 DEF Delivered, Counted, InTrack
    <2>7. TracksComplete'
      BY <1>1, <1>2, <2>1, <2>5 DEF Delivered, TracksComplete
    <2> QED
      BY <1>2, <2>1, <2>6, <2>7, AwaitedKept DEF Delivered
  <1>9. CASE ParentLoop
    <2>1. /\ ppc = "wrote" /\ UNCHANGED <<tracks, written, cur>> /\ UNCHANGED <<wbytes, outcome>>
          /\ ppc' = IF WriterLoops(tracks[cur], wbytes) THEN "get" ELSE "close"
      BY <1>9, SMT DEF ParentLoop, ParentAt
    <2>2. /\ cur \in 1 .. Len(tracks) /\ wlen > 0 /\ wlen <= wbytes
          /\ bufp[buf_idx] = Segment(cur, wbytes - wlen, wlen)
          /\ InRing > 0 /\ buf_idx \in Slots /\ InRing \in Int /\ wlen \in Nat
      BY <1>1, <2>1, SMT DEF Inv, ParentPlace, Holds, InTrack, TypeOK, ParentTypes,
         Counters
    <2>3. InUse(buf_idx)
      BY <2>2, SMT DEF InUse, Off, Slots
    <2>4. GoodSegment(Segment(cur, wbytes - wlen, wlen))
      BY <2>2, <2>3 DEF Inv, Contents
    <2>5. /\ tracks[cur].tracksize \in Nat \cup {-1} /\ tracks[cur].filelen \in Nat
          /\ tracks[cur].bytespt \in Nat
      BY <2>2, RowType DEF Inv
    <2>6. /\ wbytes <= tracks[cur].filelen
          /\ tracks[cur].tracksize > 0 => wbytes <= tracks[cur].tracksize
      BY <1>1, <2>2, <2>4, <2>5, SMT DEF GoodSegment, Segment, ReaderAsks, Lesser
    <2>7. wbytes = CurEnd \/ tracks[cur].tracksize = 0
      BY <2>1 DEF Delivered, Counted
    <2>8. CASE WriterLoops(tracks[cur], wbytes)
      <3>1. wbytes = CurEnd
        BY <1>1, <2>5, <2>7, <2>8, SMT DEF WriterLoops
      <3>2. Counted'
        BY <1>1, <1>2, <2>1, <2>8, <3>1 DEF Delivered, Counted, InTrack
      <3>3. TracksComplete'
        BY <1>1, <1>2, <2>1, <2>8 DEF Delivered, TracksComplete
      <3> QED
        BY <1>2, <2>1, <3>2, <3>3, AwaitedKept DEF Delivered
    <2>9. CASE ~WriterLoops(tracks[cur], wbytes)
      <3>1. \/ TrackBytes(tracks[cur]) = 0
            \/ CurEnd = TrackBytes(tracks[cur])
        BY <1>1, <2>5, <2>6, <2>7, <2>9, SMT DEF WriterLoops, TrackBytes, Lesser
      <3>2. Complete(cur)
        <4>1. ~(0 > 0)
          BY SMT
        <4> QED
          BY <1>6, <2>2, <3>1, <4>1 DEF Complete
      <3>3. Counted'
        BY <1>1, <1>2, <2>1, <2>9 DEF Delivered, Counted, InTrack
      <3>4. TracksComplete'
        BY <1>1, <1>2, <2>1, <2>9, <3>2 DEF Delivered, TracksComplete
      <3> QED
        BY <1>2, <2>1, <3>3, <3>4, AwaitedKept DEF Delivered
    <2> QED
      BY <2>8, <2>9
  <1>10. CASE ParentCloseTrack
    <2>1. /\ ppc = "close" /\ UNCHANGED <<tracks, written>>
          /\ \/ ppc' = "open" /\ cur' = cur + 1 /\ outcome' = outcome
             \/ ppc' = "fix" /\ cur' = cur /\ outcome' = "drive"
      BY <1>10, SMT DEF ParentCloseTrack, ParentAt
    <2>2. cur <= Len(tracks)
      BY <2>1 DEF Inv, ParentPlace, InTrack
    <2>3. WrittenInOrder' /\ \A t \in 1 .. Len(tracks) : Complete(t)' <=> Complete(t)
      BY <2>1 DEF Delivered, WrittenInOrder, Complete
    <2>4. Counted'
      BY <1>1, <2>1, SMT DEF Delivered, Counted, InTrack
    <2>5. \A t \in 1 .. Len(tracks) : t < cur + 1 => Complete(t)
      BY <1>1, <2>1, SMT DEF Delivered, TracksComplete
    <2>6. outcome # "burnt"
      BY <1>1, <2>2, SMT DEF Delivered, TracksComplete
    <2>7. TracksComplete'
      <3>1. \A t \in 1 .. Len(tracks) : t < cur => Complete(t)
        BY DEF Delivered, TracksComplete
      <3> QED
        BY <1>1, <2>1, <2>3, <2>5, <2>6, <3>1 DEF TracksComplete
    <2> QED
      BY <2>3, <2>4, <2>7, AwaitedKept DEF Delivered
  <1>11. CASE ParentWrite
    <2>1. /\ ppc = "use" /\ UNCHANGED <<tracks, cur>>
      BY <1>11, SMT DEF ParentWrite, ParentAt
    <2>2. cur \in 1 .. Len(tracks) /\ wbytes = CurEnd
      BY <2>1, SegmentAtUse DEF Delivered, Counted, InTrack
    <2>3. PICK count \in Nat, bpt \in Nat :
            /\ count <= bpt /\ wbytes + count <= TrackBytes(tracks[cur])
            /\ wbytes' = wbytes + count \/ tracks[cur].tracksize = 0
            /\ WriteSecs([trk |-> cur, off |-> wbytes, len |-> count, size |-> bpt])
      BY <1>11, WriteInNumbers
    <2>4. CASE /\ written' = Append(written, [trk |-> cur, off |-> wbytes, len |-> count,
                                              size |-> bpt])
               /\ ppc' = "wrote" /\ UNCHANGED outcome
      <3>1. /\ WrittenInOrder'
            /\ \A i \in 1 .. Len(written') : written'[i].trk \in 1 .. Len(tracks)
            /\ written' # << >> /\ written'[Len(written')].trk = cur
            /\ CurEnd' = wbytes + count
            /\ \A t \in 1 .. Len(tracks) : Complete(t) => Complete(t)'
        BY <2>1, <2>2, <2>3, <2>4, AppendInOrder
      <3>2. Counted'
        BY <1>1, <2>1, <2>3, <2>4, <3>1, SMT DEF Counted, InTrack
      <3>3. TracksComplete'
        BY <1>1, <2>1, <2>4, <3>1 DEF Delivered, TracksComplete
      <3> QED
        BY <3>1, <3>2, <3>3, AwaitedKept DEF Delivered
    <2>5. CASE ppc' = "fix" /\ outcome' = "drive" /\ UNCHANGED written
      <3>1. Counted'
        BY <1>1, <1>2, <2>1, <2>5 DEF Delivered, Counted, InTrack
      <3>2. TracksComplete'
        BY <1>1, <1>2, <2>1, <2>5 DEF Delivered, TracksComplete
      <3> QED
        BY <1>2, <2>1, <2>5, <3>1, <3>2, AwaitedKept DEF Delivered
    <2> QED
      BY <2>3, <2>4, <2>5 DEF WriteSecs
  <1> QED
    BY <1>4, <1>5, <1>7, <1>8, <1>9, <1>10, <1>11 DEF Next, ParentStep, Idle

\* What the drive has got follows from what the parent has counted, in every
\* reachable state.
THEOREM DeliveredAlways == Spec => []Delivered
  <1>1. ASSUME Init
        PROVE  Delivered
    <2>1. WrittenInOrder
      BY <1>1, SMT DEF Init, WrittenInOrder
    <2>2. Counted
      BY <1>1, SMT DEF Init, Counted, InTrack
    <2>3. TracksComplete /\ Awaited
      BY <1>1, TablesAssumption, SMT DEF Init, TracksComplete, Awaited
    <2> QED
      BY <2>1, <2>2, <2>3 DEF Delivered
  <1>2. Inv /\ Delivered /\ [Next]_vars => Delivered'
    BY DeliveredKept
  <1> QED
    BY <1>1, <1>2, Invariant, PTL DEF Spec

\* The drive gets the bytes of every track in order and without a gap.
THEOREM InOrder == Spec => []WrittenInOrder
  <1>1. Delivered => WrittenInOrder
    BY DEF Delivered
  <1> QED
    BY <1>1, DeliveredAlways, PTL

\* A burn that ends without an error has written every byte.
THEOREM AllBurnt == Spec => []BurntComplete
  <1>1. Inv /\ Delivered => BurntComplete
    <2>1. SUFFICES ASSUME Inv, Delivered, outcome = "burnt", NEW t \in 1 .. Len(tracks)
                   PROVE  Complete(t)
      BY DEF BurntComplete, Complete
    <2>2. cur = Len(tracks) + 1 /\ Len(tracks) \in Nat
      BY <2>1, SMT DEF Delivered, TracksComplete, Inv, TypeOK, SharedTypes
    <2>3. t < cur
      BY <2>2, SMT
    <2> QED
      BY <2>1, <2>3 DEF Delivered, TracksComplete
  <1> QED
    BY <1>1, Invariant, DeliveredAlways, PTL

\* The percentage of fifo_percent() is one, whatever the lag of the counters.
THEOREM PercentAlwaysInRange == Spec => []PercentInRange
  <1>1. Inv => PercentInRange
    <2>1. SUFFICES ASSUME Inv PROVE PercentInRange
      OBVIOUS
    <2> DEFINE x == puts + 1 - gets
               q == (100 * x) \div N
    <2>2. puts \in Nat /\ gets \in Nat /\ InRing \in 0 .. N /\ (Holds => InRing > 0)
      BY <2>1, SMT DEF Inv, TypeOK, SharedTypes, Counters, ParentPlace
    <2>3. x \in Nat
      BY <2>2, SMT DEF InRing, Published, Released
    <2> HIDE DEF x
    <2>4. q \in Nat
      BY <2>3, NAssumption, SMT
    <2> HIDE DEF q
    <2>5. Lesser(q, 100) \in 0 .. 100
      BY <2>4, SMT DEF Lesser
    <2> QED
      BY <2>5, SMT DEF PercentInRange, FifoPercent, q, x
  <1> QED
    BY <1>1, Invariant, PTL

\* A slot goes writer -> reader -> faio -> writer; only the forced last slot
\* leaves the cycle, and then the parent is not looking at it.
THEOREM OwnersCycle == Spec => OwnershipCycle
  <1> DEFINE Cycle(i) ==
               \/ owner[i] = "writer" /\ owner'[i] = "reader" /\ cpc = "publish"
               \/ owner[i] = "reader" /\ owner'[i] = "faio" /\ ppc = "faio"
               \/ owner[i] = "faio" /\ owner'[i] = "writer" /\ ppc = "release"
               \/ i = N - 1 /\ cpc = "force" /\ ppc \notin {"get", "release", "check"}
             A == \A i \in Slots : owner'[i] # owner[i] => Cycle(i)
  <1>1. ASSUME Inv, Delivered, [Next]_vars
        PROVE  A
    <2>1. /\ owner \in [Slots -> {"writer", "reader", "faio"}] /\ buf_idx \in Slots
          /\ buf_idx_reader \in Slots /\ N - 1 \in Slots /\ InRing \in Int
      BY <1>1, NAssumption, SMT DEF Inv, TypeOK, SharedTypes, ParentTypes, ChildTypes,
         Counters, Slots
    <2>2. CASE ChildPublish
      <3>1. /\ cpc = "publish" /\ owner' = [owner EXCEPT ![buf_idx_reader] = "reader"]
            /\ owner[buf_idx_reader] = "writer"
        BY <1>1, <2>2 DEF ChildPublish, ChildAt, Inv, ChildPlace
      <3> QED
        BY <2>1, <3>1
    <2>3. CASE ParentHold
      <3>1. /\ ppc = "faio" /\ owner' = [owner EXCEPT ![buf_idx] = "faio"]
            /\ Holds /\ InRing > 0
        BY <1>1, <2>3 DEF ParentHold, ParentAt, Inv, ParentPlace, Holds
      <3>2. InUse(buf_idx)
        BY <2>1, <3>1, SMT DEF InUse, Off, Slots
      <3>3. owner[buf_idx] = "reader"
        BY <1>1, <2>1, <3>1, <3>2 DEF Inv, Owners
      <3> QED
        BY <2>1, <3>1, <3>3
    <2>4. CASE ParentRelease
      <3>1. /\ ppc = "release" /\ owner' = [owner EXCEPT ![buf_idx] = "writer"]
            /\ owner[buf_idx] = "faio"
        BY <1>1, <2>4 DEF ParentRelease, ParentAt, Inv, ParentPlace
      <3> QED
        BY <2>1, <3>1
    <2>5. CASE ChildForceLast
      <3>1. /\ cpc = "force" /\ owner' = [owner EXCEPT ![N - 1] = "reader"]
        BY <2>5 DEF ChildForceLast, ChildAt
      <3>2. ASSUME ppc \in {"get", "release", "check"}, owner[N - 1] # "reader"
            PROVE  FALSE
        <4>1. Published = N /\ puts = N /\ gets \in Nat /\ puts \in Nat
          BY <1>1, <3>1, <3>2, NAssumption, SMT DEF Inv, Counters, Delivered, Awaited,
             Published, TypeOK, SharedTypes
        <4>2. /\ Released \in 0 .. N /\ InRing = N - Released
              /\ ppc = "check" => InRing > 0 /\ ~Holds
              /\ ppc # "check" /\ gets = 0 => ~Holds
              /\ ppc # "check" /\ gets > 0 => Holds /\ InRing > 0
              /\ ~Holds => Released = gets
          BY <1>1, <3>2, <4>1, NAssumption, SMT DEF Inv, ParentPlace, Holds, InRing,
             Released,
             Counters
        <4>3. Released < N /\ buf_idx = Released /\ InUse(N - 1)
          BY <1>1, <4>1, <4>2, <3>2, NAssumption, SMT DEF Inv, Counters, InUse, Off
        <4>4. N - 1 = buf_idx /\ Holds
          BY <1>1, <2>1, <3>1, <3>2, <4>3, SMT DEF Inv, Owners, Forced
        <4>5. /\ Behind(buf_idx) = Place(cur, wbytes) /\ cur <= Len(tracks)
              /\ cur \in Nat /\ Len(tracks) \in Nat
          BY <1>1, <3>2, <4>2, <4>4, SMT DEF Inv, ParentPlace, InTrack, TypeOK,
             SharedTypes,
             ParentTypes
        <4>6. Behind(buf_idx) = ReaderPlace
          BY <1>1, <2>1, <4>2, <4>3, <4>4, NAssumption, SMT DEF Inv, Chain, InUse, Off
        <4>7. ReaderPlace = Place(Len(tracks) + 1, 0)
          BY <1>1, <3>1, SMT DEF Inv, ChildPlace, ReaderLive, ReaderPlace
        <4> QED
          BY <4>5, <4>6, <4>7, SMT DEF Place
      <3> QED
        BY <2>1, <3>1, <3>2
    <2>6. CASE UNCHANGED owner
      BY <2>6
    <2> QED
      <3>1. UNCHANGED owner \/ ChildPublish \/ ParentHold \/ ParentRelease \/ ChildForceLast
        BY <1>1, SMT DEF Next, Idle, vars, ChildStep, ChildAcquire, ChildGiveUp, ChildFill,
           ChildStoreLen, ChildStoreUsers, ChildCount, ChildDone, ChildTestGets,
           ParentStep, ParentInterrupt, ParentLastTest, ParentStart, ParentAwait,
           ParentSession,
           ParentOpenTrack, ParentLastTrack, ParentGet, ParentAcquire, ParentGiveUp,
           ParentCheck, ParentLoadUsers, ParentStoreUsers, ParentReadError,
           ParentEndOfInput, ParentWrite, ParentLoop, ParentCloseTrack, ParentFix,
           ParentNoted, ParentRestore, ParentKill
      <3> QED
        BY <2>2, <2>3, <2>4, <2>5, <2>6, <3>1
  <1>2. OwnershipCycle <=> [][A]_vars
    BY PTL DEF OwnershipCycle
  <1> QED
    BY <1>1, <1>2, Invariant, DeliveredAlways, PTL DEF Spec

-----------------------------------------------------------------------------
(* The scan of await_faio().                                                *)

\* Division rounds down, and one divisor more is one more.
LEMMA Quotients ==
  ASSUME NEW b \in Nat \ {0}, NEW x \in Int, NEW y \in Int
  PROVE  /\ x \div b \in Int
         /\ x <= y => x \div b <= y \div b
         /\ (x + b) \div b = x \div b + 1
         /\ x >= 0 => x \div b >= 0
         /\ 0 <= x /\ x < b => x \div b = 0
         /\ x % b = 0 => (x + b) % b = 0 /\ (x + b - 1) \div b = x \div b
  <1>1. x \div b \in Int /\ y \div b \in Int
    BY SMT
  <1>2. x <= y => x \div b <= y \div b
    BY SMT
  <1>3. (x + b) \div b = x \div b + 1
    BY SMT
  <1>4. x >= 0 => x \div b >= 0
    BY SMT
  <1>5. 0 <= x /\ x < b => x \div b = 0
    BY SMT
  <1>6. x % b = 0 => (x + b) % b = 0
    <2>1. ASSUME NEW a \in Int, NEW q \in Int, a = b * q
          PROVE  a % b = 0
      BY <2>1, SMT
    <2>2. x % b = 0 => x = b * (x \div b)
      BY SMT
    <2>3. x = b * (x \div b) => x + b = b * (x \div b + 1)
      BY <1>1, SMT
    <2>4. x + b \in Int /\ x \div b + 1 \in Int
      BY <1>1
    <2> QED
      BY <2>1, <2>2, <2>3, <2>4
  <1>7. x % b = 0 => (x + b - 1) \div b = x \div b
    BY SMT
  <1> QED
    BY <1>1, <1>2, <1>3, <1>4, <1>5, <1>6, <1>7

\* faio_read_track() cuts whole segments up to the end of the file, and never
\* more of them than SegmentsOf says.
LEMMA CutsBound ==
  ASSUME NEW t \in Track, NEW n \in Nat, NEW l \in Nat \cup {-1},
         n <= t.filelen, n > 0 => ReaderLoops(t, n),
         n % t.bytespt = 0 \/ n = t.filelen,
         l = -1 \/ l = Lesser(ReaderAsks(t, n), t.filelen - n)
  PROVE  /\ SegmentsOf(t) \in Nat /\ Cuts(t, n) \in Nat /\ Cuts(t, 0) = 0
         /\ Cuts(t, n) + 1 <= SegmentsOf(t)
         /\ l > 0 /\ ReaderLoops(t, n + l) =>
               /\ (n + l) % t.bytespt = 0 \/ n + l = t.filelen
               /\ Cuts(t, n) + 1 <= Cuts(t, n + l)
  <1> DEFINE b == t.bytespt
             z == t.tracksize
             f == t.filelen
  <1>1. b \in Nat \ {0} /\ z \in Nat \cup {-1} /\ f \in Nat
    BY DEF Track
  <1> HIDE DEF b, z, f
  <1>2. /\ (n + b - 1) \div b \in Int /\ (n + b - 1) \div b >= 0 /\ (0 + b - 1) \div b = 0
        /\ (f + b - 1) \div b \in Int /\ (f + b - 1) \div b >= 0
        /\ (z + b - 1) \div b \in Int /\ (z >= 0 => (z + b - 1) \div b >= 0)
    <2>1. /\ n + b - 1 \in Int /\ n + b - 1 >= 0 /\ f + b - 1 \in Int /\ f + b - 1 >= 0
          /\ z + b - 1 \in Int /\ (z >= 0 => z + b - 1 >= 0)
          /\ 0 + b - 1 \in Int /\ 0 <= 0 + b - 1 /\ 0 + b - 1 < b
      BY <1>1, SMT
    <2> QED
      BY <1>1, <2>1, Quotients
  <1>3. SegmentsOf(t) \in Nat /\ Cuts(t, n) \in Nat /\ Cuts(t, 0) = 0
    BY <1>1, <1>2, SMT DEF SegmentsOf, Cuts, b, z, f
  \* The segment at hand is one that SegmentsOf counts.
  <1>4. Cuts(t, n) + 1 <= SegmentsOf(t)
    <2>1. CASE z = 0
      <3>1. n = 0
        BY <1>1, <2>1, SMT DEF ReaderLoops, z
      <3> QED
        BY <1>3, <2>1, <3>1, SMT DEF SegmentsOf, z
    <2>2. CASE z > 0 /\ f >= z
      <3>1. n % b = 0 /\ n < z
        <4>1. n < z
          BY <1>1, <2>2, SMT DEF ReaderLoops, z
        <4> QED
          BY <1>1, <2>2, <4>1, SMT DEF b, f
      <3>2. (n + b - 1) \div b = n \div b
        BY <1>1, <3>1, Quotients
      <3>3. (n + b) \div b = n \div b + 1
        BY <1>1, Quotients
      <3>4. n + b \in Int /\ z + b - 1 \in Int /\ n + b <= z + b - 1
        BY <1>1, <3>1, SMT
      <3>5. (n + b) \div b <= (z + b - 1) \div b
        BY <1>1, <3>4, Quotients
      <3> QED
        BY <2>2, <3>2, <3>3, <3>5 DEF SegmentsOf, Cuts, b, z, f
    <2>3. CASE z # 0 /\ ~(z > 0 /\ f >= z)
      <3>1. n + b - 1 \in Int /\ f + b - 1 \in Int /\ n + b - 1 <= f + b - 1
        BY <1>1, SMT DEF f
      <3>2. (n + b - 1) \div b <= (f + b - 1) \div b
        BY <1>1, <3>1, Quotients
      <3> QED
        BY <1>2, <2>3, <3>2, SMT DEF SegmentsOf, Cuts, b, z, f
    <2> QED
      BY <2>1, <2>2, <2>3
  \* What goes on behind it begins at the next boundary, or at the end of the file.
  <1>5. ASSUME l > 0, ReaderLoops(t, n + l)
        PROVE  /\ (n + l) % b = 0 \/ n + l = f
               /\ (n + b - 1) \div b + 1 <= (n + l + b - 1) \div b
    <2>1. n % b = 0
      BY <1>1, <1>5, SMT DEF Lesser, b, f
    <2>2. l = b \/ n + l = f
      BY <1>1, <1>5, SMT DEF Lesser, ReaderAsks, ReaderLoops, b, z, f
    <2>3. (n + b) % b = 0 /\ (n + b - 1) \div b = n \div b /\ (n + b) \div b = n \div b + 1
      <3>1. n \in Int
        OBVIOUS
      <3> QED
        BY <1>1, <2>1, <3>1, Quotients, Zenon
    <2>4. n + b \in Int /\ n + l + b - 1 \in Int /\ n + b <= n + l + b - 1
      BY <1>1, <1>5, SMT
    <2>5. (n + b) \div b <= (n + l + b - 1) \div b
      BY <1>1, <2>4, Quotients
    <2> QED
      BY <2>2, <2>3, <2>5
  <1> QED
    BY <1>3, <1>4, <1>5 DEF Cuts, b, f

\* SegmentsBefore is what its definition says: a sum that grows from track to track.
LEMMA SegmentsAdd ==
  ASSUME TypeOK
  PROVE  /\ \A t \in 1 .. Len(tracks) + 1 : SegmentsBefore[t] \in Nat
         /\ SegmentsBefore[1] = 0
         /\ \A t \in 1 .. Len(tracks) :
               SegmentsBefore[t + 1] = SegmentsBefore[t] + SegmentsOf(tracks[t])
         /\ \A t, u \in 1 .. Len(tracks) + 1 :
               t <= u => SegmentsBefore[t] <= SegmentsBefore[u]
  <1> DEFINE a == [t \in Nat |-> SegmentsOf(tracks[t])]
             Sum(f) == f = [t \in Nat |-> IF t <= 1 THEN 0
                                          ELSE f[t - 1] + SegmentsOf(tracks[t - 1])]
             S == SegmentsBefore
             L == Len(tracks)
  <1>1. PICK f : Sum(f)
    <2>1. \E f : f = [t \in Nat |-> IF t <= 1 THEN 0 ELSE f[t - 1] + a[t - 1]]
      BY SumDefined
    <2>2. \A t \in Nat : t > 1 => a[t - 1] = SegmentsOf(tracks[t - 1])
      OBVIOUS
    <2> HIDE DEF a
    <2> QED
      BY <2>1, <2>2
  <1>2. Sum(S)
    <2>1. S = CHOOSE f_1 : Sum(f_1)
      BY DEF SegmentsBefore
    <2> HIDE DEF Sum, S
    <2> QED
      BY <1>1, <2>1
  <1>3. \A t \in Nat : S[t] = IF t <= 1 THEN 0 ELSE S[t - 1] + SegmentsOf(tracks[t - 1])
    BY <1>2
  <1> HIDE DEF S, Sum
  <1>4. L \in Nat
    BY DEF TypeOK, SharedTypes
  <1>5. \A t \in 1 .. L : SegmentsOf(tracks[t]) \in Nat
    <2> SUFFICES ASSUME NEW t \in 1 .. L
                 PROVE  SegmentsOf(tracks[t]) \in Nat
      OBVIOUS
    <2>1. tracks[t] \in Track
      BY RowType
    <2>2. tracks[t].filelen \in Nat /\ tracks[t].bytespt \in Nat \ {0}
      BY RowType
    <2>3. 0 % tracks[t].bytespt = 0
      BY <2>2, SMT
    <2>4. 0 \in Nat /\ -1 \in Nat \cup {-1} /\ 0 <= tracks[t].filelen /\ ~(0 > 0)
      BY <2>2
    <2> QED
      BY <2>1, <2>3, <2>4, CutsBound
  <1> HIDE DEF L
  <1>6. \A t \in 1 .. L : S[t + 1] = S[t] + SegmentsOf(tracks[t])
    <2> SUFFICES ASSUME NEW t \in 1 .. L
                 PROVE  S[t + 1] = S[t] + SegmentsOf(tracks[t])
      OBVIOUS
    <2>1. t + 1 \in Nat /\ ~(t + 1 <= 1) /\ (t + 1) - 1 = t
      BY <1>4
    <2>2. S[t + 1] = S[(t + 1) - 1] + SegmentsOf(tracks[(t + 1) - 1])
      BY <1>3, <2>1
    <2> QED
      BY <2>1, <2>2
  <1>7. S[1] = 0
    BY <1>3
  <1>8. \A t \in 1 .. L + 1 : S[t] \in Nat
    <2> DEFINE Wrong == {t \in Nat : t \in 1 .. L + 1 /\ S[t] \notin Nat}
    <2> SUFFICES ASSUME Wrong # {}
                 PROVE  FALSE
      BY <1>4
    <2>1. PICK m \in Wrong : \A k \in Wrong : m <= k
      BY LeastInNat
    <2>2. m # 1
      BY <1>7, <2>1
    <2>3. m - 1 \in Nat /\ m - 1 \in 1 .. L /\ m - 1 \notin Wrong /\ (m - 1) + 1 = m
      BY <1>4, <2>1, <2>2
    <2>4. S[m - 1] \in Nat /\ S[m] = S[m - 1] + SegmentsOf(tracks[m - 1])
      <3>1. S[m - 1] \in Nat
        BY <1>4, <2>3
      <3>2. S[(m - 1) + 1] = S[m - 1] + SegmentsOf(tracks[m - 1])
        BY <1>6, <2>3
      <3> QED
        BY <2>3, <3>1, <3>2
    <2>5. S[m] \in Nat
      BY <1>5, <2>3, <2>4
    <2> QED
      BY <2>1, <2>5
  <1>9. ASSUME NEW t \in 1 .. L + 1, NEW u \in 1 .. L + 1, t <= u
        PROVE  S[t] <= S[u]
    <2> DEFINE Wrong == {v \in Nat : v \in 1 .. L + 1 /\ t <= v /\ ~(S[t] <= S[v])}
    <2> SUFFICES ASSUME Wrong # {}
                 PROVE  FALSE
      BY <1>4, <1>9
    <2>1. PICK m \in Wrong : \A k \in Wrong : m <= k
      BY LeastInNat
    <2>2. S[t] \in Nat /\ S[m] \in Nat
      BY <1>8, <2>1
    <2>3. m # t
      BY <2>1, <2>2
    <2>4. /\ m - 1 \in Nat /\ m - 1 \in 1 .. L /\ t <= m - 1 /\ m - 1 \in 1 .. L + 1
          /\ (m - 1) + 1 = m /\ ~(m <= m - 1)
      BY <1>4, <2>1, <2>3
    <2>5. m - 1 \notin Wrong
      BY <2>1, <2>4
    <2>6. S[t] <= S[m - 1]
      BY <2>4, <2>5
    <2>7. S[m] = S[m - 1] + SegmentsOf(tracks[m - 1])
      <3>1. S[(m - 1) + 1] = S[m - 1] + SegmentsOf(tracks[m - 1])
        BY <1>6, <2>4
      <3> QED
        BY <2>4, <3>1
    <2>8. S[m - 1] \in Nat /\ SegmentsOf(tracks[m - 1]) \in Nat
      BY <1>5, <1>8, <2>4
    <2>9. S[t] <= S[m]
      BY <2>2, <2>6, <2>7, <2>8
    <2> QED
      BY <2>1, <2>9
  <1> QED
    BY <1>6, <1>7, <1>8, <1>9 DEF S, L

\* No step changes the table, hence not the sums over it.
LEMMA SegmentsKept ==
  ASSUME tracks' = tracks
  PROVE  /\ SegmentsBefore' = SegmentsBefore
         /\ \A t : FirstOf(t)' = FirstOf(t) /\ DeadPipe(t)' = DeadPipe(t)
  <1>1. SegmentsBefore' = SegmentsBefore
    BY DEF SegmentsBefore
  <1> QED
    BY <1>1 DEF FirstOf, DeadPipe

\* Until the scan the ring is filled for the first time, from slot 0 on.
LEMMA FirstFilling ==
  ASSUME Inv, Before
  PROVE  /\ gets = 0 /\ buf_idx = 0 /\ InRing = Published /\ Published \in 0 .. N
         /\ \A i \in Slots : Off(i) = i /\ (InUse(i) <=> i < Published)
         /\ \A i \in Slots : i < Published =>
               /\ bufp[i].trk \in 1 .. Len(tracks) /\ bufp[i].off \in Nat
               /\ bufp[i].len \in Nat \cup {-1} /\ tracks[bufp[i].trk] \in Track
               /\ GoodSegment(bufp[i])
               /\ fd[i] = tracks[bufp[i].trk].fd /\ len[i] = bufp[i].len
               /\ i = 0 => bufp[i].trk = 1 /\ bufp[i].off = 0
               /\ i > 0 => /\ i - 1 \in Slots
                           /\ IF bufp[i].off > 0 THEN bufp[i - 1].trk = bufp[i].trk
                              ELSE bufp[i - 1].trk = bufp[i].trk - 1
  <1>1. /\ gets = 0 /\ puts \in Nat /\ N \in Nat /\ N >= 3 /\ InRing \in 0 .. N
    BY NAssumption, SMT DEF Inv, TypeOK, SharedTypes, Before, ParentPlace, Counters
  <1>2. ~Holds /\ Released = 0 /\ Published \in Nat
    BY <1>1, SMT DEF Holds, Released, Published
  <1>3. buf_idx = 0 /\ InRing = Published
    <2>1. Released < N => buf_idx = Released
      BY DEF Inv, Counters
    <2> QED
      BY <1>1, <1>2, <2>1, SMT DEF InRing
  <1>4. \A i \in Slots : Off(i) = i
    BY <1>3, SMT DEF Off, Slots
  <1>5. \A i \in Slots : InUse(i) <=> i < Published
    BY <1>3, <1>4 DEF InUse
  <1>6. ASSUME NEW i \in Slots, i < Published
        PROVE  /\ bufp[i].trk \in 1 .. Len(tracks) /\ bufp[i].off \in Nat
               /\ bufp[i].len \in Nat \cup {-1} /\ tracks[bufp[i].trk] \in Track
               /\ GoodSegment(bufp[i])
               /\ fd[i] = tracks[bufp[i].trk].fd /\ len[i] = bufp[i].len
    <2>1. bufp[i] \in [trk : Nat, off : Nat, len : Nat \cup {-1}]
      BY DEF Inv, TypeOK, SharedTypes
    <2>2. GoodSegment(bufp[i]) /\ fd[i] = tracks[bufp[i].trk].fd /\ len[i] = bufp[i].len
      BY <1>5, <1>6 DEF Inv, Contents
    <2>3. bufp[i].trk \in 1 .. Len(tracks)
      BY <2>2 DEF GoodSegment
    <2>4. tracks[bufp[i].trk] \in Track
      BY <2>3, RowType DEF Inv
    <2> QED
      BY <2>1, <2>2, <2>3, <2>4
  <1>7. ASSUME 0 < Published
        PROVE  bufp[0].trk = 1 /\ bufp[0].off = 0
    <2>1. SlotPlace(0) = Place(1, 0)
      BY <1>1, <1>2, <1>3, <1>7 DEF Inv, ParentPlace
    <2> QED
      BY <2>1, SMT DEF SlotPlace, Place
  <1>8. ASSUME NEW i \in Slots, i < Published, i > 0
        PROVE  /\ i - 1 \in Slots
               /\ IF bufp[i].off > 0 THEN bufp[i - 1].trk = bufp[i].trk
                  ELSE bufp[i - 1].trk = bufp[i].trk - 1
    <2>1. i - 1 \in Slots /\ i - 1 < Published /\ (i - 1) + 1 < Published /\ Next1(i - 1) = i
      BY <1>1, <1>2, <1>8, SMT DEF Slots, Next1
    <2>2. Off(i - 1) + 1 < InRing /\ InUse(i - 1)
      BY <1>3, <1>4, <1>5, <2>1
    <2>3. SlotPlace(i) = Behind(i - 1)
      BY <2>1, <2>2 DEF Inv, Chain
    <2>4. /\ bufp[i - 1].trk \in Nat /\ bufp[i - 1].off \in Nat
          /\ bufp[i - 1].len \in Nat \cup {-1} /\ bufp[i].trk \in Nat /\ bufp[i].off \in Nat
      BY <1>6, <1>8, <2>1, SMT
    <2> QED
      BY <2>1, <2>3, <2>4, SMT DEF SlotPlace, Behind, Place
  <1> QED
    BY <1>1, <1>2, <1>3, <1>4, <1>5, <1>6, <1>7, <1>8, SMT

\* When the scan begins, all slots are filled or everything has been read.
LEMMA ScanBegins ==
  ASSUME Inv, ParentAwait
  PROVE  Before /\ (Published = N \/ (cpc = "exited" /\ trackno = Len(tracks) + 1))
  <1>1. Before /\ owner[N - 1] = "reader" /\ N - 1 \in Slots /\ ppc = "await"
    BY NAssumption, SMT DEF ParentAwait, ParentAt, Before, Slots
  <1>2. gets = 0 /\ Published \in 0 .. N /\ (InUse(N - 1) <=> N - 1 < Published)
    BY <1>1, FirstFilling
  <1>3. InUse(N - 1) \/ Forced(N - 1)
    BY <1>1, <1>2 DEF Inv, Owners, Holds
  <1>4. cpc = "exited" => trackno = Len(tracks) + 1
    BY DEF Inv, ChildPlace, ReaderLive
  <1> QED
    BY <1>1, <1>2, <1>3, <1>4, NAssumption, SMT DEF Forced

\* The scan finds nothing but pipes that deliver nothing: a slot of length 0 that
\* does not continue the file of the slot before it holds the beginning of a track.
LEMMA ScanSound ==
  ASSUME Inv, EofInv, ParentAwait, PrematureEOF
  PROVE  \E t \in 1 .. Len(tracks) : DeadPipe(t)
  <1>1. Before /\ (Published = N \/ cpc = "exited") /\ Published \in 0 .. N
    BY ScanBegins, FirstFilling
  <1>2. PICK n \in Slots : /\ fd[n] # (IF n = 0 THEN NoFd ELSE fd[n - 1])
                           /\ fd[n] = STDIN /\ len[n] = 0
    BY DEF PrematureEOF
  \* Slots that were not filled yet have no descriptor.
  <1>3. n < Published
    <2>1. n \in Int /\ n < N
      BY NAssumption, SMT DEF Slots
    <2>2. CASE ~(n < Published)
      <3>1. cpc = "exited" /\ n >= Published
        BY <1>1, <2>1, <2>2, NAssumption, SMT
      <3>2. fd[n] = NoFd
        BY <1>1, <3>1 DEF EofInv, FirstRound, Filling
      <3> QED
        BY <1>2, <3>2, SMT DEF NoFd, STDIN
    <2> QED
      BY <2>2
  <1> DEFINE t == bufp[n].trk
             off == bufp[n].off
             r == tracks[t]
  <1>4. /\ t \in 1 .. Len(tracks) /\ off \in Nat /\ r \in Track /\ GoodSegment(bufp[n])
        /\ fd[n] = r.fd /\ bufp[n].len = 0
        /\ n > 0 => /\ n - 1 \in Slots
                    /\ IF off > 0 THEN bufp[n - 1].trk = t ELSE bufp[n - 1].trk = t - 1
        /\ n = 0 => off = 0
    BY <1>1, <1>2, <1>3, FirstFilling
  <1>5. off = 0
    <2> SUFFICES ASSUME n > 0, off > 0
                 PROVE  FALSE
      BY <1>4 DEF Slots
    <2>1. n - 1 \in Slots /\ bufp[n - 1].trk = t
      BY <1>4
    <2>2. n - 1 < Published
      BY <1>1, <1>3, NAssumption, SMT DEF Slots
    <2>3. fd[n - 1] = tracks[bufp[n - 1].trk].fd
      BY <1>1, <2>1, <2>2, FirstFilling
    <2> QED
      BY <1>2, <1>4, <2>1, <2>3, NAssumption, SMT DEF Slots
  <1>6. r.filelen = 0
    <2>1. 0 = Lesser(ReaderAsks(r, 0), r.filelen - 0)
      BY <1>4, <1>5, SMT DEF GoodSegment
    <2>2. r.bytespt \in Nat \ {0} /\ r.tracksize \in Nat \cup {-1} /\ r.filelen \in Nat
      BY <1>4 DEF Track
    <2> QED
      BY <2>1, <2>2, SMT DEF Lesser, ReaderAsks
  <1>7. FirstOf(t)
    <2>1. bufp[n].len = -1 \/ FirstOf(t)
      BY <1>1, <1>3 DEF EofInv, FirstRound
    <2> QED
      BY <1>4, <2>1, SMT
  <1>8. DeadPipe(t)
    BY <1>2, <1>4, <1>6, <1>7 DEF DeadPipe, FirstOf
  <1> QED
    BY <1>4, <1>8

\* The scan misses none among the first N segments: its empty segment lies in slot
\* SegmentsBefore or before it, behind a slot of another file.
LEMMA ScanComplete ==
  ASSUME Inv, EofInv, ParentAwait, "read" \notin Faults,
         NEW t \in 1 .. Len(tracks), DeadPipe(t), SegmentsBefore[t] < N
  PROVE  PrematureEOF
  <1> DEFINE L == Len(tracks)
             S == SegmentsBefore
  <1>1. Before /\ (Published = N \/ (cpc = "exited" /\ trackno = L + 1))
    BY ScanBegins
  <1>2. TypeOK /\ L \in Nat /\ puts \in Nat /\ rbytes \in Nat /\ N \in Nat
    BY NAssumption, SMT DEF Inv, TypeOK, SharedTypes, ChildTypes
  \* The child has handed over a segment of t.
  <1>3. Passed(t)
    <2> SUFFICES ASSUME ~Passed(t)
                 PROVE  FALSE
      OBVIOUS
    <2>1. /\ trackno \in 1 .. L + 1 /\ trackno <= t
          /\ trackno = t => cpc \notin {"users", "puts"}
      BY <1>2, SMT DEF Passed, TypeOK, ChildTypes
    <2>2. trackno <= L /\ Published = N /\ trackno \in 1 .. L
      BY <1>1, <1>2, <2>1, SMT
    <2>3. cpc \in ReaderLive
      BY <1>2, <2>2, SMT DEF Inv, ChildPlace
    <2> DEFINE r == tracks[trackno]
    <2>4. /\ r \in Track /\ r.filelen \in Nat /\ rbytes <= r.filelen
          /\ rbytes > 0 => ReaderLoops(r, rbytes)
      BY <1>2, <2>2, <2>3, RowType DEF Inv, ChildPlace
    <2>5. rbytes % r.bytespt = 0 \/ rbytes = r.filelen
      BY <2>3 DEF EofInv, ReadSoFar
    <2>6. puts <= S[trackno] + Cuts(r, rbytes)
      BY <2>3 DEF EofInv, ReadSoFar
    <2>7. /\ SegmentsOf(r) \in Nat /\ Cuts(r, rbytes) \in Nat /\ Cuts(r, 0) = 0
          /\ Cuts(r, rbytes) + 1 <= SegmentsOf(r)
      <3>1. -1 \in Nat \cup {-1} /\ (-1 = -1 \/ -1 = Lesser(ReaderAsks(r, rbytes), r.filelen - rbytes))
        OBVIOUS
      <3> QED
        BY <1>2, <2>4, <2>5, <3>1, CutsBound
    <2>8. S[t] \in Nat /\ S[trackno] \in Nat /\ t \in 1 .. L + 1
      BY <1>2, <2>1, SegmentsAdd, SMT
    <2>9. CASE trackno = t
      <3>1. rbytes = 0
        BY <1>2, <2>4, <2>9 DEF DeadPipe
      <3>2. Published = puts
        BY <2>1, <2>9 DEF Published
      <3> QED
        BY <1>2, <2>2, <2>6, <2>7, <2>8, <2>9, <3>1, <3>2
    <2>10. CASE trackno # t
      <3>1. trackno + 1 \in 1 .. L + 1 /\ trackno + 1 <= t
        BY <1>2, <2>1, <2>2, <2>10, SMT
      <3>2. S[trackno + 1] = S[trackno] + SegmentsOf(r) /\ S[trackno + 1] <= S[t]
        BY <1>2, <2>2, <2>8, <3>1, SegmentsAdd
      <3>3. Published <= puts + 1
        BY <1>2, SMT DEF Published
      <3> QED
        BY <1>2, <2>2, <2>6, <2>7, <2>8, <3>2, <3>3
    <2> QED
      BY <2>9, <2>10
  <1>4. PICK n \in Slots : n < Published /\ bufp[n] = Segment(t, 0, 0)
    BY <1>1, <1>3 DEF EofInv, FirstRound
  <1>5. bufp[n].trk = t /\ bufp[n].off = 0 /\ bufp[n].len = 0
    BY <1>4 DEF Segment
  <1>6. /\ fd[n] = tracks[t].fd /\ len[n] = 0
        /\ n > 0 => n - 1 \in Slots /\ bufp[n - 1].trk = t - 1
    BY <1>1, <1>4, <1>5, FirstFilling, SMT
  <1>7. fd[n] = STDIN
    BY <1>6 DEF DeadPipe
  <1>8. ASSUME n # 0
        PROVE  fd[n - 1] # STDIN
    <2>1. n > 0 /\ n - 1 < Published /\ n - 1 \in Slots
      BY <1>1, <1>4, <1>6, <1>8, FirstFilling, NAssumption, SMT DEF Slots
    <2>2. fd[n - 1] = tracks[t - 1].fd /\ t - 1 \in 1 .. L
      BY <1>1, <1>6, <2>1, FirstFilling
    <2>3. t - 1 \in 1 .. t - 1
      BY <1>2, <2>2, SMT
    <2> QED
      BY <2>2, <2>3 DEF DeadPipe
  <1>9. STDIN # NoFd
    BY SMT DEF STDIN, NoFd
  <1> QED
    BY <1>6, <1>7, <1>8, <1>9 DEF PrematureEOF

\* What the child has read stays within the table: one case for each step that
\* reads, counts or goes on to the next track.
LEMMA ReadSoFarKept ==
  ASSUME Inv, EofInv, ChildStep
  PROVE  ReadSoFar'
  <1> DEFINE r == tracks[trackno]
             S == SegmentsBefore
             Live == /\ rbytes % r.bytespt = 0 \/ rbytes = r.filelen
                     /\ puts <= S[trackno] + Cuts(r, rbytes)
             AtHand == /\ rlen = -1 \/ FirstOf(trackno)
                       /\ "read" \notin Faults /\ DeadPipe(trackno) => rlen = 0
  <1>1. tracks' = tracks
    BY SMT DEF ChildStep, ChildAcquire, ChildGiveUp, ChildFill, ChildStoreLen,
       ChildPublish, ChildStoreUsers, ChildCount, ChildDone, ChildTestGets, ChildForceLast
  <1>2. S' = S /\ \A t : FirstOf(t)' = FirstOf(t) /\ DeadPipe(t)' = DeadPipe(t)
    BY <1>1, SegmentsKept
  <1>3. /\ TypeOK /\ Len(tracks) \in Nat /\ puts \in Nat /\ rbytes \in Nat
        /\ rlen \in Nat \cup {-1} /\ trackno \in 1 .. Len(tracks) + 1
    BY SMT DEF Inv, TypeOK, SharedTypes, ChildTypes
  <1>4. cpc \in ReaderLive =>
           /\ trackno \in 1 .. Len(tracks) /\ r \in Track /\ r.filelen \in Nat
           /\ rbytes <= r.filelen /\ (rbytes > 0 => ReaderLoops(r, rbytes))
           /\ S[trackno] \in Nat /\ trackno + 1 \in 1 .. Len(tracks) + 1
    <2> SUFFICES ASSUME cpc \in ReaderLive
                 PROVE  /\ trackno \in 1 .. Len(tracks) /\ r \in Track /\ r.filelen \in Nat
                        /\ rbytes <= r.filelen /\ (rbytes > 0 => ReaderLoops(r, rbytes))
                        /\ S[trackno] \in Nat /\ trackno + 1 \in 1 .. Len(tracks) + 1
      OBVIOUS
    <2>1. trackno <= Len(tracks) /\ rbytes <= r.filelen /\ (rbytes > 0 => ReaderLoops(r, rbytes))
      BY DEF Inv, ChildPlace
    <2>2. trackno \in 1 .. Len(tracks) /\ trackno + 1 \in 1 .. Len(tracks) + 1
      BY <1>3, <2>1, SMT
    <2> QED
      BY <1>3, <2>1, <2>2, RowType, SegmentsAdd
  <1>5. (cpc \in ReaderLive => Live) /\ closed = {tracks[u].fd : u \in 1 .. trackno - 1}
    BY DEF EofInv, ReadSoFar
  <1>6. cpc \in {"len", "publish", "users", "puts"} => AtHand
    BY DEF EofInv, ReadSoFar
  <1>7. /\ "fill" \in ReaderLive /\ "puts" \in ReaderLive
        /\ \A x \in ReaderLive : x \in {"wait", "fill", "len", "publish", "users", "puts"}
    BY DEF ReaderLive
  \* The steps that neither read nor go on
  <1>8. ASSUME UNCHANGED <<trackno, rbytes, rlen, closed, puts>>,
               cpc' \in ReaderLive => cpc \in ReaderLive,
               cpc' \in {"len", "publish", "users", "puts"}
                  => cpc \in {"len", "publish", "users", "puts"}
        PROVE  ReadSoFar'
    <2>1. /\ trackno' = trackno /\ rbytes' = rbytes /\ rlen' = rlen /\ closed' = closed
          /\ puts' = puts
      BY <1>8
    <2>2. cpc' \in ReaderLive => Live
      BY <1>5, <1>8
    <2>3. cpc' \in {"len", "publish", "users", "puts"} => AtHand
      BY <1>6, <1>8
    <2>4. closed = {tracks[u].fd : u \in 1 .. trackno - 1}
      BY <1>5
    <2> QED
      BY <1>1, <1>2, <2>1, <2>2, <2>3, <2>4 DEF ReadSoFar, Cuts
  <1>9. ASSUME ChildAcquire \/ ChildGiveUp \/ ChildStoreLen \/ ChildPublish
               \/ ChildStoreUsers
               \/ ChildDone \/ ChildTestGets \/ ChildForceLast
        PROVE  ReadSoFar'
    <2>1. UNCHANGED <<trackno, rbytes, rlen, closed, puts>>
      BY <1>9, SMT DEF ChildAcquire, ChildGiveUp, ChildStoreLen, ChildPublish,
         ChildStoreUsers, ChildDone, ChildTestGets, ChildForceLast
    <2>2. cpc' \in ReaderLive => cpc \in ReaderLive
      BY <1>9, SMT DEF ChildAcquire, ChildGiveUp, ChildStoreLen, ChildPublish,
         ChildStoreUsers, ChildDone, ChildTestGets, ChildForceLast, ChildAt, ReaderLive
    <2>3. cpc' \in {"len", "publish", "users", "puts"}
             => cpc \in {"len", "publish", "users", "puts"}
      BY <1>9, SMT DEF ChildAcquire, ChildGiveUp, ChildStoreLen, ChildPublish,
         ChildStoreUsers, ChildDone, ChildTestGets, ChildForceLast, ChildAt
    <2> QED
      BY <1>8, <2>1, <2>2, <2>3
  \* fill_buf() answers -1 for a file that was closed, and 0 for an empty pipe.
  <1>10. ASSUME ChildFill
         PROVE  ReadSoFar'
    <2>1. /\ cpc = "fill" /\ cpc' = "len" /\ trackno' = trackno /\ rbytes' = rbytes
          /\ closed' = closed /\ puts' = puts /\ rlen' \in ReadResults(r, rbytes)
      BY <1>10, SMT DEF ChildFill, ChildAt
    <2>2. cpc \in ReaderLive
      BY <1>7, <2>1
    <2>3. r.bytespt \in Nat \ {0} /\ r.tracksize \in Nat \cup {-1}
      BY <1>4, <2>2 DEF Track
    <2>4. rlen' = -1 \/ FirstOf(trackno)
      <3>1. CASE r.fd \in closed
        BY <2>1, <3>1 DEF ReadResults
      <3>2. CASE r.fd \notin closed
        BY <1>5, <3>2 DEF FirstOf
      <3> QED
        BY <3>1, <3>2
    <2>5. ASSUME "read" \notin Faults, DeadPipe(trackno)
          PROVE  rlen' = 0
      <3>1. r.fd \notin closed
        BY <1>5, <2>5 DEF DeadPipe
      <3>2. rlen' = Lesser(ReaderAsks(r, rbytes), r.filelen - rbytes)
        BY <2>1, <2>5, <3>1 DEF ReadResults
      <3>3. r.filelen = 0 /\ rbytes = 0
        BY <1>3, <1>4, <2>2, <2>5, SMT DEF DeadPipe
      <3> QED
        BY <2>3, <3>2, <3>3, SMT DEF Lesser, ReaderAsks
    <2>6. Live /\ closed = {tracks[u].fd : u \in 1 .. trackno - 1}
      BY <1>5, <2>2
    <2> QED
      BY <1>1, <1>2, <2>1, <2>4, <2>5, <2>6 DEF ReadSoFar, Cuts
  \* sp->puts++ counts the segment at hand.
  <1>11. ASSUME ChildCount
         PROVE  ReadSoFar'
    <2>1. cpc = "puts" /\ puts' = puts + 1 /\ cpc' \in {"wait", "done"}
      BY <1>11, SMT DEF ChildCount, ChildAt
    <2>2. cpc \in ReaderLive
      BY <1>7, <2>1
    <2>3. rlen = -1 \/ rlen = Lesser(ReaderAsks(r, rbytes), r.filelen - rbytes)
      <3>1. /\ bufp[buf_idx_reader] = Segment(trackno, rbytes, rlen)
            /\ GoodSegment(bufp[buf_idx_reader])
        BY <2>1 DEF Inv, ChildPlace
      <3> QED
        BY <3>1, SMT DEF GoodSegment, Segment
    <2>4. /\ SegmentsOf(r) \in Nat /\ Cuts(r, rbytes) \in Nat /\ Cuts(r, 0) = 0
          /\ Cuts(r, rbytes) + 1 <= SegmentsOf(r)
          /\ rlen > 0 /\ ReaderLoops(r, rbytes + rlen) =>
                /\ (rbytes + rlen) % r.bytespt = 0 \/ rbytes + rlen = r.filelen
                /\ Cuts(r, rbytes) + 1 <= Cuts(r, rbytes + rlen)
      <3>1. rbytes % r.bytespt = 0 \/ rbytes = r.filelen
        BY <1>5, <2>2
      <3>2. r \in Track /\ rbytes <= r.filelen /\ (rbytes > 0 => ReaderLoops(r, rbytes))
        BY <1>4, <2>2
      <3> QED
        BY <1>3, <2>3, <3>1, <3>2, CutsBound
    <2>5. puts <= S[trackno] + Cuts(r, rbytes) /\ S[trackno] \in Nat
      BY <1>4, <1>5, <2>2
    <2>6. CASE rlen > 0 /\ ReaderLoops(r, rbytes + rlen)
      <3>1. rbytes' = rbytes + rlen /\ trackno' = trackno /\ closed' = closed
        BY <1>11, <2>6, Zenon DEF ChildCount
      <3>2. Cuts(r, rbytes + rlen) \in Int
        <4>1. r.bytespt \in Nat \ {0} /\ rbytes + rlen + r.bytespt - 1 \in Int
          BY <1>3, <1>4, <2>2, SMT DEF Track
        <4> QED
          BY <4>1, SMT DEF Cuts
      <3>3. puts + 1 <= S[trackno] + Cuts(r, rbytes + rlen)
        BY <1>3, <2>4, <2>5, <2>6, <3>2
      <3>4. (rbytes + rlen) % r.bytespt = 0 \/ rbytes + rlen = r.filelen
        BY <2>4, <2>6
      <3>5. closed = {tracks[u].fd : u \in 1 .. trackno - 1}
        BY <1>5
      <3> QED
        BY <1>1, <1>2, <2>1, <3>1, <3>3, <3>4, <3>5 DEF ReadSoFar, Cuts
    <2>7. CASE ~(rlen > 0 /\ ReaderLoops(r, rbytes + rlen))
      <3>1. /\ closed' = closed \cup {r.fd} /\ trackno' = trackno + 1 /\ rbytes' = 0
            /\ cpc' = IF trackno = Len(tracks) THEN "done" ELSE "wait"
        BY <1>11, <2>7, Zenon DEF ChildCount
      <3>2. closed \cup {r.fd} = {tracks[u].fd : u \in 1 .. (trackno + 1) - 1}
        <4>1. \A u : u \in 1 .. (trackno + 1) - 1 <=> u \in 1 .. trackno - 1 \/ u = trackno
          BY <1>3, SMT
        <4>2. closed = {tracks[u].fd : u \in 1 .. trackno - 1}
          BY <1>5
        <4> QED
          BY <4>1, <4>2, Zenon
      <3>3. ASSUME cpc' \in ReaderLive
            PROVE  /\ 0 % tracks[trackno + 1].bytespt = 0
                   /\ puts + 1 <= S[trackno + 1] + Cuts(tracks[trackno + 1], 0)
        <4>1. trackno # Len(tracks)
          BY <3>1, <3>3 DEF ReaderLive
        <4>2. trackno \in 1 .. Len(tracks) /\ trackno + 1 \in 1 .. Len(tracks)
          BY <1>3, <1>4, <2>2, <4>1, SMT
        <4>3. tracks[trackno + 1].bytespt \in Nat \ {0}
          BY <1>3, <4>2, RowType
        <4> DEFINE b == tracks[trackno + 1].bytespt
        <4> HIDE DEF b
        <4>4. b \in Nat \ {0}
          BY <4>3 DEF b
        <4>5. 0 % b = 0
          BY <4>4, SMT
        <4>6. (0 + b - 1) \div b = 0
          <5>1. 0 + b - 1 \in Int /\ 0 <= 0 + b - 1 /\ 0 + b - 1 < b
            BY <4>4, SMT
          <5> QED
            BY <4>4, <5>1, Quotients
        <4>7. Cuts(tracks[trackno + 1], 0) = 0
          BY <4>6 DEF Cuts, b
        <4>8. S[trackno + 1] = S[trackno] + SegmentsOf(r)
          BY <1>3, <4>2, SegmentsAdd
        <4> QED
          BY <1>3, <2>4, <2>5, <4>5, <4>7, <4>8 DEF b
      <3>4. cpc' \notin {"len", "publish", "users", "puts"}
        BY <2>1
      <3> QED
        BY <1>1, <1>2, <2>1, <3>1, <3>2, <3>3, <3>4 DEF ReadSoFar, Cuts
    <2> QED
      BY <2>6, <2>7
  <1> QED
    BY <1>9, <1>10, <1>11 DEF ChildStep

\* The child's steps fill the ring for the first time: only a hand-over adds a slot.
LEMMA FirstRoundKept ==
  ASSUME Inv, EofInv, ChildStep
  PROVE  FirstRound'
  <1> DEFINE S == SegmentsBefore
             Old(i) == bufp[i].len = -1 \/ FirstOf(bufp[i].trk)
             New(i) == fd[i] = NoFd
             Seen(t, n) == n < Published /\ n <= S[t] /\ bufp[n] = Segment(t, 0, 0)
  <1>1. tracks' = tracks /\ ppc' = ppc
    BY SMT DEF ChildStep, ChildAcquire, ChildGiveUp, ChildFill, ChildStoreLen,
       ChildPublish, ChildStoreUsers, ChildCount, ChildDone, ChildTestGets, ChildForceLast
  <1> SUFFICES ASSUME Before
               PROVE  FirstRound'
    BY <1>1 DEF FirstRound, Before
  <1>2. S' = S /\ \A t : FirstOf(t)' = FirstOf(t) /\ DeadPipe(t)' = DeadPipe(t)
    BY <1>1, SegmentsKept
  <1>3. /\ TypeOK /\ puts \in Nat /\ N \in Nat /\ Published \in 0 .. N
        /\ buf_idx_reader \in Slots /\ InRing = Published
        /\ trackno \in 1 .. Len(tracks) + 1 /\ Len(tracks) \in Nat
    BY FirstFilling, NAssumption, SMT DEF Inv, TypeOK, SharedTypes, ChildTypes
  <1>4. \A i \in Slots : i < Published => Old(i)
    BY DEF EofInv, FirstRound
  <1>5. \A i \in Slots : i >= Published /\ ~(Filling /\ i = buf_idx_reader) => New(i)
    BY DEF EofInv, FirstRound
  <1>6. "read" \notin Faults =>
           \A t \in 1 .. Len(tracks) : DeadPipe(t) /\ Passed(t) => \E n \in Slots : Seen(t, n)
    BY DEF EofInv, FirstRound
  <1>7. ASSUME NEW i \in Slots, bufp'[i] = bufp[i], Old(i)
         PROVE  Old(i)'
    BY <1>1, <1>7 DEF FirstOf
  \* The slot that is being filled is the next one.
  <1>8. Filling => buf_idx_reader = Published
    <2> SUFFICES ASSUME Filling
                 PROVE  buf_idx_reader = Published
      OBVIOUS
    <2>1. owner[buf_idx_reader] = "writer" /\ cpc \notin {"users", "puts"}
      BY SMT DEF Filling, Inv, ChildPlace
    <2>2. Off(buf_idx_reader) = InRing
      BY <2>1, CursorFree
    <2> QED
      BY <1>3, <2>2, FirstFilling
  \* The steps that leave the slots and the place alone
  <1>9. ASSUME Published' = Published, trackno' = trackno,
               Filling' => Filling, Filling => Filling', buf_idx_reader' = buf_idx_reader,
               \A t : Passed(t)' => Passed(t),
               fd' = fd, \A i \in Slots : i < Published => bufp'[i] = bufp[i]
        PROVE  FirstRound'
    <2>1. ASSUME NEW i \in Slots, i < Published'
          PROVE  Old(i)'
      <3>1. bufp'[i] = bufp[i] /\ Old(i)
        BY <1>4, <1>9, <2>1
      <3> QED
        BY <1>7, <3>1
    <2>2. ASSUME NEW i \in Slots, i >= Published', ~(Filling' /\ i = buf_idx_reader')
          PROVE  fd'[i] = NoFd
      BY <1>5, <1>9, <2>2
    <2>3. ASSUME "read" \notin Faults, NEW t \in 1 .. Len(tracks), DeadPipe(t), Passed(t)'
          PROVE  \E n \in Slots : n < Published' /\ n <= S[t] /\ bufp'[n] = Segment(t, 0, 0)
      BY <1>6, <1>9, <2>3
    <2> QED
      BY <1>1, <1>2, <2>1, <2>2, <2>3 DEF FirstRound
  <1>10. ASSUME ChildGiveUp \/ ChildStoreLen \/ ChildStoreUsers \/ ChildDone
                \/ ChildTestGets
               \/ ChildForceLast \/ ChildFill
        PROVE  FirstRound'
    <2>1. puts' = puts /\ trackno' = trackno /\ buf_idx_reader' = buf_idx_reader /\ fd' = fd
      BY <1>10, SMT DEF ChildGiveUp, ChildStoreLen, ChildStoreUsers, ChildDone,
         ChildTestGets, ChildForceLast, ChildFill
    <2>2. /\ cpc' \in {"users", "puts"} <=> cpc \in {"users", "puts"}
          /\ cpc' \in {"fill", "len", "publish"} <=> cpc \in {"fill", "len", "publish"}
      BY <1>10, SMT DEF ChildGiveUp, ChildStoreLen, ChildStoreUsers, ChildDone,
         ChildTestGets, ChildForceLast, ChildFill, ChildAt
    <2>3. ASSUME NEW i \in Slots, i < Published
          PROVE  bufp'[i] = bufp[i]
      <3>1. CASE ChildFill
        <4>1. Filling
          BY <3>1 DEF ChildFill, ChildAt, Filling
        <4>2. i # buf_idx_reader
          BY <1>3, <1>8, <2>3, <4>1
        <4>3. \E x : bufp' = [bufp EXCEPT ![buf_idx_reader] = x]
          BY <3>1 DEF ChildFill
        <4>4. bufp \in [Slots -> [trk : Nat, off : Nat, len : Nat \cup {-1}]]
          BY <1>3 DEF TypeOK, SharedTypes
        <4> QED
          BY <4>2, <4>3, <4>4
      <3>2. CASE ~ChildFill
        BY <1>10, <3>2, SMT DEF ChildGiveUp, ChildStoreLen, ChildStoreUsers, ChildDone,
           ChildTestGets, ChildForceLast
      <3> QED
        BY <3>1, <3>2
    <2>4. Published' = Published /\ (Filling' <=> Filling)
      BY <2>1, <2>2 DEF Published, Filling
    <2>5. \A t : Passed(t)' => Passed(t)
      BY <2>1, <2>2 DEF Passed
    <2> QED
      BY <1>9, <2>1, <2>3, <2>4, <2>5
  \* f->fd = fd: the slot that is taken is not one that was handed over.
  <1>11. ASSUME ChildAcquire
         PROVE  FirstRound'
    <2>1. /\ cpc = "wait" /\ cpc' = "fill" /\ puts' = puts /\ trackno' = trackno
          /\ buf_idx_reader' = buf_idx_reader /\ bufp' = bufp
          /\ fd' = [fd EXCEPT ![buf_idx_reader] = tracks[trackno].fd]
      BY <1>11, SMT DEF ChildAcquire, ChildAt
    <2>2. Published' = Published /\ ~Filling /\ Filling'
      BY <2>1 DEF Published, Filling
    <2>3. \A t : Passed(t)' => Passed(t)
      BY <2>1 DEF Passed
    <2>4. ASSUME NEW i \in Slots, i >= Published, i # buf_idx_reader
          PROVE  fd'[i] = NoFd
      <3>1. New(i) /\ fd \in [Slots -> Nat \cup {NoFd}]
        BY <1>3, <1>5, <2>2, <2>4 DEF TypeOK, SharedTypes
      <3> QED
        BY <2>1, <2>4, <3>1
    <2>5. ASSUME NEW i \in Slots, i < Published
          PROVE  Old(i)'
      BY <1>4, <1>7, <2>1, <2>5
    <2>6. ASSUME "read" \notin Faults, NEW t \in 1 .. Len(tracks), DeadPipe(t), Passed(t)'
          PROVE  \E n \in Slots : Seen(t, n)
      BY <1>6, <2>3, <2>6
    <2> QED
      BY <1>1, <1>2, <2>1, <2>2, <2>4, <2>5, <2>6 DEF FirstRound
  \* f->owner = owner_reader: the slot joins those that were handed over.
  <1>12. ASSUME ChildPublish
         PROVE  FirstRound'
    <2>1. /\ cpc = "publish" /\ cpc' = "users" /\ puts' = puts /\ trackno' = trackno
          /\ buf_idx_reader' = buf_idx_reader /\ bufp' = bufp /\ fd' = fd
      BY <1>12, SMT DEF ChildPublish, ChildAt
    <2>2. Published = puts /\ Published' = puts + 1 /\ Filling /\ ~Filling'
      BY <2>1 DEF Published, Filling
    <2>3. buf_idx_reader = puts
      BY <1>8, <2>2
    <2>4. bufp[buf_idx_reader] = Segment(trackno, rbytes, rlen) /\ cpc \in ReaderLive
      BY <2>1 DEF Inv, ChildPlace, ReaderLive
    <2>5. (rlen = -1 \/ FirstOf(trackno)) /\ ("read" \notin Faults /\ DeadPipe(trackno) => rlen = 0)
      BY <2>1 DEF EofInv, ReadSoFar
    <2>6. ASSUME NEW i \in Slots, i < puts + 1
          PROVE  Old(i)
      <3>1. CASE i = buf_idx_reader
        BY <2>4, <2>5, <3>1 DEF Segment
      <3>2. CASE i # buf_idx_reader
        <4>1. i < Published
          BY <1>3, <2>2, <2>3, <2>6, <3>2, SMT DEF Slots
        <4> QED
          BY <1>4, <4>1
      <3> QED
        BY <3>1, <3>2
    <2>7. ASSUME NEW i \in Slots, i >= puts + 1
          PROVE  New(i)
      <3>1. i >= Published /\ i # buf_idx_reader
        BY <1>3, <2>2, <2>3, <2>7, SMT DEF Slots
      <3> QED
        BY <1>5, <3>1
    <2>8. ASSUME "read" \notin Faults, NEW t \in 1 .. Len(tracks), DeadPipe(t), Passed(t)'
          PROVE  \E n \in Slots : n < puts + 1 /\ n <= S[t] /\ bufp[n] = Segment(t, 0, 0)
      <3>1. CASE t < trackno
        <4>1. PICK n \in Slots : Seen(t, n)
          BY <1>6, <2>8, <3>1 DEF Passed
        <4>2. n < puts + 1
          BY <1>3, <2>2, <4>1, SMT DEF Slots
        <4> QED
          BY <4>1, <4>2
      <3>2. CASE t = trackno
        <4>1. rlen = 0 /\ tracks[trackno].filelen = 0
          BY <2>5, <2>8, <3>2 DEF DeadPipe
        <4>2. rbytes <= tracks[trackno].filelen /\ rbytes \in Nat
          BY <1>3, <2>4 DEF Inv, ChildPlace, TypeOK, ChildTypes
        <4>3. rbytes = 0
          BY <4>1, <4>2
        <4>4. bufp[buf_idx_reader] = Segment(t, 0, 0)
          BY <2>4, <3>2, <4>1, <4>3
        <4>5. puts <= S[trackno] + Cuts(tracks[trackno], 0)
          BY <2>4, <4>3 DEF EofInv, ReadSoFar
        <4>6. Cuts(tracks[trackno], 0) = 0
          <5>1. tracks[trackno].bytespt \in Nat \ {0}
            BY <1>3, <3>2, RowType
          <5> DEFINE b == tracks[trackno].bytespt
          <5> HIDE DEF b
          <5>2. b \in Nat \ {0} /\ 0 + b - 1 \in Int /\ 0 <= 0 + b - 1 /\ 0 + b - 1 < b
            BY <5>1 DEF b
          <5>3. (0 + b - 1) \div b = 0
            BY <5>2, Quotients
          <5> QED
            BY <5>3 DEF Cuts, b
        <4>7. S[t] \in Nat
          <5>1. t \in 1 .. Len(tracks) + 1
            BY <1>3
          <5> QED
            BY <1>3, <5>1, SegmentsAdd
        <4>8. puts <= S[t] /\ puts < puts + 1
          BY <1>3, <3>2, <4>5, <4>6, <4>7
        <4> QED
          BY <1>3, <2>3, <4>4, <4>8
      <3> QED
        BY <1>3, <2>1, <2>8, <3>1, <3>2 DEF Passed
    <2>9. \A i \in Slots : i < puts + 1 => Old(i)'
      BY <1>7, <2>1, <2>6
    <2> QED
      BY <1>1, <1>2, <2>1, <2>2, <2>7, <2>8, <2>9 DEF FirstRound
  \* sp->puts++: it was counted as published before.
  <1>13. ASSUME ChildCount
         PROVE  FirstRound'
    <2>1. /\ cpc = "puts" /\ cpc' \in {"wait", "done"} /\ puts' = puts + 1
          /\ trackno' \in {trackno, trackno + 1} /\ bufp' = bufp /\ fd' = fd
      BY <1>13, SMT DEF ChildCount, ChildAt
    <2>2. Published' = Published /\ ~Filling /\ ~Filling'
      BY <2>1 DEF Published, Filling
    <2>3. ASSUME NEW t \in 1 .. Len(tracks), Passed(t)'
          PROVE  Passed(t)
      BY <1>3, <2>1, <2>3, SMT DEF Passed
    <2>4. ASSUME "read" \notin Faults, NEW t \in 1 .. Len(tracks), DeadPipe(t), Passed(t)'
          PROVE  \E n \in Slots : Seen(t, n)
      BY <1>6, <2>3, <2>4
    <2>5. \A i \in Slots : i < Published => Old(i)'
      BY <1>4, <1>7, <2>1
    <2> QED
      BY <1>1, <1>2, <1>5, <2>1, <2>2, <2>4, <2>5 DEF FirstRound
  <1> QED
    BY <1>10, <1>11, <1>12, <1>13 DEF ChildStep

\* The parent takes no part in it but for the scan itself.
LEMMA EofInvKept ==
  ASSUME Inv, EofInv, [Next]_vars
  PROVE  EofInv'
  <1> DEFINE Scanned == \E t \in 1 .. Len(tracks) : DeadPipe(t) /\ SegmentsBefore[t] < N
             Dead == \E t \in 1 .. Len(tracks) : DeadPipe(t)
  <1>1. TypeOK'
    BY NextInv DEF Inv
  <1>2. ASSUME ChildStep
        PROVE  tracks' = tracks /\ ppc' = ppc /\ outcome' = outcome
    BY <1>2, SMT DEF ChildStep, ChildAcquire, ChildGiveUp, ChildFill, ChildStoreLen,
       ChildPublish, ChildStoreUsers, ChildCount, ChildDone, ChildTestGets, ChildForceLast
  <1>3. ASSUME ParentStep \/ ParentInterrupt \/ UNCHANGED vars
        PROVE  /\ tracks' = tracks /\ puts' = puts /\ cpc' = cpc /\ trackno' = trackno
               /\ rbytes' = rbytes /\ rlen' = rlen /\ closed' = closed /\ fd' = fd
               /\ bufp' = bufp /\ buf_idx_reader' = buf_idx_reader
    BY <1>3, SMT DEF ParentStep, ParentInterrupt, ParentLastTest, ParentStart,
       ParentAwait, ParentSession,
       ParentOpenTrack, ParentLastTrack, ParentGet, ParentRelease, ParentAcquire,
       ParentGiveUp, ParentCheck, ParentLoadUsers, ParentStoreUsers, ParentHold,
       ParentReadError, ParentEndOfInput, ParentWrite, ParentLoop, ParentCloseTrack,
       ParentFix, ParentNoted, ParentRestore, ParentKill, vars
  \* Only the scan leads behind await_faio(), and only it reports the input.
  <1>4. ASSUME ParentStep \/ ParentInterrupt \/ UNCHANGED vars
        PROVE  /\ Before' => Before
               /\ Before => Before' \/ (ParentAwait /\ ~PrematureEOF)
               /\ outcome' = "input" => outcome = "input" \/ (ParentAwait /\ PrematureEOF)
    BY <1>4, SMT DEF ParentStep, ParentInterrupt, ParentLastTest, ParentStart,
       ParentAwait, ParentSession,
       ParentOpenTrack, ParentLastTrack, ParentGet, ParentRelease, ParentAcquire,
       ParentGiveUp, ParentCheck, ParentLoadUsers, ParentStoreUsers, ParentHold,
       ParentReadError, ParentEndOfInput, ParentWrite, WriteSecs, ParentLoop,
       ParentCloseTrack, ParentFix, ParentNoted, ParentRestore, ParentKill, ParentAt,
       Leave, vars, Before
  <1>5. tracks' = tracks => (Scanned' <=> Scanned) /\ (Dead' <=> Dead)
    <2> SUFFICES ASSUME tracks' = tracks
                 PROVE  (Scanned' <=> Scanned) /\ (Dead' <=> Dead)
      OBVIOUS
    <2> QED
      BY SegmentsKept
  <1>6. (outcome = "input" => Dead) /\ ("read" \notin Faults /\ Scanned => Before)
    BY DEF EofInv, Stopped
  <1>7. CASE ChildStep
    <2>1. Before' = Before
      BY <1>2, <1>7 DEF Before
    <2>2. Stopped'
      BY <1>2, <1>5, <1>6, <1>7, <2>1 DEF Stopped
    <2> QED
      BY <1>1, <1>7, <2>2, ReadSoFarKept, FirstRoundKept DEF EofInv
  <1>8. CASE ParentStep \/ ParentInterrupt \/ UNCHANGED vars
    <2>1. /\ SegmentsBefore' = SegmentsBefore /\ Published' = Published
          /\ Filling' = Filling
      BY <1>3, <1>8, SegmentsKept DEF Published, Filling
    <2>2. ReadSoFar'
      <3>1. ReadSoFar
        BY DEF EofInv
      <3> QED
        BY <1>3, <1>8, <2>1, <3>1 DEF ReadSoFar, FirstOf, DeadPipe, Cuts
    <2>3. FirstRound'
      <3>1. FirstRound
        BY DEF EofInv
      <3>2. Before' => Before
        BY <1>4, <1>8
      <3> QED
        BY <1>3, <1>8, <2>1, <3>1, <3>2 DEF FirstRound, FirstOf, DeadPipe, Passed
    <2>4. outcome' = "input" => Dead'
      BY <1>3, <1>4, <1>5, <1>6, <1>8, ScanSound
    <2>5. "read" \notin Faults /\ Scanned' => Before'
      <3>1. ASSUME "read" \notin Faults, Scanned, ParentAwait
            PROVE  PrematureEOF
        BY <3>1, ScanComplete
      <3> QED
        BY <1>3, <1>4, <1>5, <1>6, <1>8, <3>1
    <2> QED
      BY <1>1, <2>2, <2>3, <2>4, <2>5 DEF EofInv, Stopped
  <1> QED
    BY <1>7, <1>8 DEF Next, Idle

\* The ring before the scan, in every reachable state.
THEOREM EofInvariant == Spec => []EofInv
  <1>1. ASSUME Init
        PROVE  EofInv
    <2>1. Inv /\ Before /\ cpc = "wait" /\ trackno = 1 /\ rbytes = 0 /\ puts = 0 /\ closed = {}
          /\ Published = 0 /\ outcome = "none" /\ fd = [i \in Slots |-> NoFd]
      BY <1>1, InitInv, SMT DEF Init, Before, Published
    <2>2. TypeOK /\ Len(tracks) \in Nat /\ 1 \in 1 .. Len(tracks)
      <3>1. trackno <= Len(tracks)
        BY <2>1 DEF Inv, ChildPlace, ReaderLive
      <3> QED
        BY <2>1, <3>1 DEF Inv, TypeOK, SharedTypes
    <2>3. tracks[1] \in Track /\ tracks[1].filelen \in Nat /\ tracks[1].bytespt \in Nat \ {0}
      BY <2>2, RowType
    <2>4. 0 % tracks[1].bytespt = 0
      BY <2>3, SMT
    <2>5. Cuts(tracks[1], 0) = 0
      <3> DEFINE l == -1
      <3>1. 0 \in Nat /\ l \in Nat \cup {-1} /\ 0 <= tracks[1].filelen /\ ~(0 > 0) /\ l = -1
        BY <2>3
      <3> QED
        BY <2>3, <2>4, <3>1, CutsBound
    <2>6. SegmentsBefore[1] = 0
      BY <2>2, SegmentsAdd
    <2>7. ReadSoFar
      <3>1. {tracks[u].fd : u \in 1 .. trackno - 1} = {}
        BY <2>1
      <3> QED
        BY <2>1, <2>4, <2>5, <2>6, <3>1 DEF ReadSoFar
    <2>8. FirstRound
      <3>1. \A i \in Slots : ~(i < Published) /\ fd[i] = NoFd
        BY <2>1, NAssumption, SMT DEF Slots
      <3>2. \A t \in 1 .. Len(tracks) : ~Passed(t)
        BY <2>1, <2>2, SMT DEF Passed
      <3> QED
        BY <3>1, <3>2 DEF FirstRound
    <2>9. Stopped
      BY <2>1 DEF Stopped
    <2> QED
      BY <2>2, <2>7, <2>8, <2>9 DEF EofInv
  <1>2. Inv /\ EofInv /\ [Next]_vars => EofInv'
    BY EofInvKept
  <1> QED
    BY <1>1, <1>2, Invariant, PTL DEF Spec

\* A pipe on stdin that delivers nothing stops the burn before anything is
\* written, if it belongs to the first N segments and its read does not fail; and
\* nothing else makes await_faio() give up.
THEOREM DeadPipesStop == Spec => []PrematureEOFAborts
  <1>1. EofInv /\ Delivered => PrematureEOFAborts
    BY DEF EofInv, Stopped, Delivered, Counted, Before, PrematureEOFAborts
  <1> QED
    BY <1>1, EofInvariant, DeliveredAlways, PTL

-----------------------------------------------------------------------------
(* Nobody waits for a process that waits, or for one that is gone.          *)

\* A child that polls has filled the ring.
LEMMA PollsWhenFull ==
  ASSUME Inv, ChildPolls
  PROVE  InRing = N
  <1>1. /\ cpc = "wait" /\ buf_idx_reader \in Slots /\ InRing \in 0 .. N /\ N \in Nat
        /\ owner[buf_idx_reader] # "writer"
    BY NAssumption, SMT DEF ChildPolls, ChildAt, Inv, TypeOK, ChildTypes, Counters
  <1>2. InUse(buf_idx_reader)
    BY <1>1, SMT DEF Inv, Owners, Forced
  <1> QED
    BY <1>1, <1>2, SMT DEF InUse, Inv, Cursor

\* How the child can be gone before the scan: by its own time limit on a full
\* ring, or with the last slot handed over.
LEMMA GoneKept ==
  ASSUME Inv, Gone, [Next]_vars
  PROVE  Gone'
  <1>1. ASSUME ChildStep
        PROVE  Gone'
    <2>1. child = "alive" /\ child' \in {"alive", "gaveup"} /\ ending' = ending /\ ppc' = ppc
      BY <1>1, SMT DEF ChildStep, ChildAcquire, ChildGiveUp, ChildFill, ChildStoreLen,
         ChildPublish, ChildStoreUsers, ChildCount, ChildDone, ChildTestGets,
         ChildForceLast, ChildAt
    <2>2. ASSUME Before, child' = "gaveup"
          PROVE  Published' = N
      <3>1. ChildGiveUp
        BY <1>1, <2>1, <2>2, SMT DEF ChildStep, ChildAcquire, ChildFill, ChildStoreLen,
           ChildPublish, ChildStoreUsers, ChildCount, ChildDone, ChildTestGets,
           ChildForceLast
      <3>2. ChildPolls /\ puts' = puts /\ cpc' = cpc
        BY <3>1 DEF ChildGiveUp, ChildPolls, memory, statVars
      <3> QED
        BY <2>2, <3>2, PollsWhenFull, FirstFilling DEF Published
    <2>3. ASSUME Before, cpc' = "exited"
          PROVE  owner'[N - 1] = "reader"
      <3>1. gets = 0
        BY <2>3, FirstFilling
      <3>2. ChildForceLast
        BY <1>1, <2>1, <2>3, <3>1, SMT DEF ChildStep, ChildAcquire, ChildGiveUp, ChildFill,
           ChildStoreLen, ChildPublish, ChildStoreUsers, ChildCount, ChildDone,
           ChildTestGets, ChildForceLast, ChildAt
      <3>3. owner' = [owner EXCEPT ![N - 1] = "reader"]
        BY <3>2 DEF ChildForceLast
      <3>4. N - 1 \in Slots /\ owner \in [Slots -> {"writer", "reader", "faio"}]
        BY NAssumption, SMT DEF Slots, Inv, TypeOK, SharedTypes
      <3> QED
        BY <3>3, <3>4
    <2> QED
      BY <2>1, <2>2, <2>3 DEF Gone, Before
  <1>2. ASSUME ParentStep \/ ParentInterrupt \/ UNCHANGED vars
        PROVE  Gone'
    <2>1. puts' = puts /\ cpc' = cpc
      BY <1>2, SMT DEF ParentStep, ParentInterrupt, ParentLastTest, ParentStart,
         ParentAwait,
         ParentSession, ParentOpenTrack, ParentLastTrack, ParentGet, ParentRelease,
         ParentAcquire, ParentGiveUp, ParentCheck, ParentLoadUsers, ParentStoreUsers,
         ParentHold, ParentReadError, ParentEndOfInput, ParentWrite, ParentLoop,
         ParentCloseTrack, ParentFix, ParentNoted, ParentRestore, ParentKill, vars
    <2>2. /\ child' \in {child, "forgotten"} \/ (child' = "killed" /\ ending' # "no")
          /\ ending # "no" => ending' # "no"
      BY <1>2, SMT DEF ParentStep, ParentInterrupt, ParentLastTest, ParentStart,
         ParentAwait,
         ParentSession, ParentOpenTrack, ParentLastTrack, ParentGet, ParentRelease,
         ParentAcquire, ParentGiveUp, ParentCheck, ParentLoadUsers, ParentStoreUsers,
         ParentHold, ParentReadError, ParentEndOfInput, ParentWrite, ParentLoop,
         ParentCloseTrack, ParentFix, ParentNoted, ParentRestore, ParentKill, ParentAt,
         Leave,
         AfterKill, vars
    <2>3. Before' => Before /\ owner' = owner
      BY <1>2, SMT DEF ParentStep, ParentInterrupt, ParentLastTest, ParentStart,
         ParentAwait,
         ParentSession, ParentOpenTrack, ParentLastTrack, ParentGet, ParentRelease,
         ParentAcquire, ParentGiveUp, ParentCheck, ParentLoadUsers, ParentStoreUsers,
         ParentHold, ParentReadError, ParentEndOfInput, ParentWrite, WriteSecs,
         ParentLoop,
         ParentCloseTrack, ParentFix, ParentNoted, ParentRestore, ParentKill, ParentAt,
         vars, Before
    <2>4. Published' = Published
      BY <2>1 DEF Published
    <2> QED
      BY <2>1, <2>2, <2>3, <2>4 DEF Gone, Before
  <1> QED
    BY <1>1, <1>2 DEF Next, Idle

\* Neither process polls a word for ever: not both at once, and the parent never
\* behind a child that has read everything.  await_faio(), which has no time
\* limit, waits only for a child that lives, or that died of an interrupt which
\* came between the last test of didintr and the call of signal() behind it.
THEOREM NobodyIsStuck == Spec => []NobodyStuck
  <1>1. Init => Gone
    BY SMT DEF Init, Gone
  <1>2. Inv /\ Gone /\ [Next]_vars => Gone'
    BY GoneKept
  <1>3. ASSUME Inv, Gone
        PROVE  NobodyStuck
    <2>1. N \in Nat /\ N >= 3 /\ buf_idx \in Slots /\ InRing \in 0 .. N
      BY <1>3, NAssumption, SMT DEF Inv, TypeOK, ParentTypes, Counters
    \* The parent polls only when no slot is filled, the child only when all are.
    <2>2. ASSUME ParentPolls("wait", buf_idx)
          PROVE  ~ChildPolls /\ cpc # "exited"
      <3>1. ppc = "wait" /\ owner[buf_idx] # "reader" /\ ~Holds
        BY <2>2 DEF ParentPolls, ParentAt, Holds
      <3>2. ~InUse(buf_idx)
        BY <1>3, <2>1, <3>1 DEF Inv, Owners
      <3>3. Off(buf_idx) = 0
        BY <2>1, SMT DEF Off, Slots
      <3>4. InRing = 0
        BY <2>1, <3>2, <3>3, SMT DEF InUse
      <3>5. cpc # "exited"
        <4> SUFFICES ASSUME cpc = "exited"
                     PROVE  FALSE
          OBVIOUS
        <4>1. ReaderPlace = Place(trackno, rbytes) /\ trackno = Len(tracks) + 1
          BY <1>3 DEF ReaderPlace, Inv, ChildPlace, ReaderLive
        <4>2. ReaderPlace = Place(cur, wbytes) /\ cur <= Len(tracks)
          BY <1>3, <3>1, <3>4 DEF Inv, ParentPlace, InTrack
        <4>3. cur \in Nat /\ Len(tracks) \in Nat
          BY <1>3, SMT DEF Inv, TypeOK, SharedTypes, ParentTypes
        <4> QED
          BY <4>1, <4>2, <4>3, SMT DEF Place
      <3> QED
        BY <1>3, <2>1, <3>4, <3>5, PollsWhenFull
    <2>3. ASSUME ParentPolls("await", N - 1)
          PROVE  ~ChildPolls /\ cpc # "exited" /\ child \in {"alive", "forgotten"}
      <3>1. Before /\ ending = "no" /\ owner[N - 1] # "reader" /\ ~Holds /\ N - 1 \in Slots
        BY <1>3, <2>1, <2>3, FirstFilling, SMT
           DEF ParentPolls, ParentAt, Before, Holds, Slots
      <3>2. Published # N
        <4>1. N - 1 < N
          BY <2>1
        <4>2. InUse(N - 1) => owner[N - 1] = "reader"
          BY <1>3, <3>1 DEF Inv, Owners
        <4> QED
          BY <1>3, <3>1, <4>1, <4>2, FirstFilling
      <3>3. child \in {"alive", "killed", "forgotten", "gaveup"}
        BY <1>3 DEF Inv, TypeOK, ChildTypes
      <3> QED
        BY <1>3, <3>1, <3>2, <3>3, PollsWhenFull, FirstFilling DEF Gone, Before
    <2> QED
      BY <2>2, <2>3 DEF NobodyStuck
  <1> QED
    BY <1>1, <1>2, <1>3, Invariant, PTL DEF Spec
=============================================================================
