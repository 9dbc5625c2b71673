----------------------------- MODULE FaioProofs -----------------------------
(***************************************************************************)
(* Theorems about Faio for every number of slots N >= 3, every table of     *)
(* tracks and every combination of faults.  First every step of Faio keeps  *)
(* the inductive invariant Inv: one lemma per action, or per group of       *)
(* actions that leave the ring alone.  The theorems follow, with the one    *)
(* that the ring implements the channel FaioPipe.                           *)
(***************************************************************************)
EXTENDS FaioInv, SequenceTheorems, TLAPS

USE DEF memory, slotVars, segVars, statVars, childSide, parentSide, childVars,
        childLocals, parentVars, parentCtl, parentLocals, driveVars,
        InterruptNoted, InterruptLost, InterruptKills, InterruptLeaves

-----------------------------------------------------------------------------
(* The operators on numbers and tracks.                                     *)

\* Every row of the track table has the fields of Track.
LEMMA RowType ==
  ASSUME TypeOK, NEW t \in 1 .. Len(tracks)
  PROVE  /\ tracks[t] \in Track
         /\ tracks[t].fd \in Nat /\ tracks[t].secsize \in Nat \ {0}
         /\ tracks[t].bytespt \in Nat \ {0}
         /\ tracks[t].tracksize \in Nat \cup {-1} /\ tracks[t].filelen \in Nat
  <1>1. tracks[t] \in Track
    BY SMT DEF TypeOK, SharedTypes
  <1> QED
    BY <1>1, SMT DEF Track

\* A step that leaves the memory, the child and the drive alone keeps their types.
LEMMA OthersTypes ==
  ASSUME TypeOK,
         UNCHANGED <<tracks, owner, users, fd, len, bufp, puts, gets, done, cpc, child,
                     buf_idx_reader, trackno, rbytes, rlen, closed, written, restores>>
  PROVE  SharedTypes' /\ ChildTypes' /\ DriveTypes'
  <1>1. SharedTypes'
    BY SMT DEF TypeOK, SharedTypes
  <1>2. ChildTypes'
    BY SMT DEF TypeOK, ChildTypes
  <1>3. DriveTypes'
    BY SMT DEF TypeOK, DriveTypes
  <1> QED
    BY <1>1, <1>2, <1>3

-----------------------------------------------------------------------------
(* The parent's steps that leave the ring alone.                            *)

\* A step of the parent that touches neither the slots nor its claim on them.
RingSame ==
    /\ UNCHANGED <<tracks, owner, fd, len, bufp, puts, gets, done, cpc,
                   buf_idx_reader, trackno, rbytes, rlen, buf_idx>>
    /\ Holds' = Holds
    /\ Holds => (ppc \in {"users", "decr", "faio"}
                    <=> ppc' \in {"users", "decr", "faio"})

\* Such a step keeps every part of Inv that speaks of the ring.
LEMMA RingSameKeeps ==
  ASSUME Inv, RingSame
  PROVE  /\ Counters' /\ Cursor' /\ ChildPlace' /\ Owners' /\ Contents' /\ Chain'
         /\ InRing' = InRing /\ ReaderPlace' = ReaderPlace
  <1>1. InRing' = InRing /\ Released' = Released
    BY SMT DEF RingSame, InRing, Published, Released
  <1>2. ReaderPlace' = ReaderPlace
    BY SMT DEF RingSame, ReaderPlace, Behind, Place, ReaderLoops
  <1>3. Counters'
    BY <1>1, SMT DEF Inv, Counters, RingSame
  <1>4. Cursor'
    BY <1>1, SMT DEF Inv, Cursor, RingSame, Off
  <1>5. ChildPlace'
    BY <1>1, SMT DEF Inv, ChildPlace, RingSame, GoodSegment, Segment,
       ReaderLoops, ReaderAsks
  <1>6. Owners'
    BY <1>1, SMT DEF Inv, Owners, RingSame, InUse, Off, Forced
  <1>7. Contents'
    BY <1>1, SMT DEF Inv, Contents, RingSame, InUse, Off, GoodSegment,
       ReaderLoops, ReaderAsks
  <1>8. Chain'
    BY <1>1, <1>2, SMT DEF Inv, Chain, RingSame, InUse, Off, SlotPlace, Behind,
       Place, Next1, ReaderLoops
  <1> QED
    BY <1>1, <1>2, <1>3, <1>4, <1>5, <1>6, <1>7, <1>8

-----------------------------------------------------------------------------
(* What the invariant says at the two places where the parent looks again   *)
(* at its slot: the slot is never the one forced when the input ended.      *)

\* A parent that comes back for more finds the slot it holds still "faio".
LEMMA GetSeesFaio ==
  ASSUME Inv, ppc = "get", gets > 0
  PROVE  owner[buf_idx] = "faio"
  <1>1. Holds /\ InRing > 0 /\ buf_idx \in Slots /\ InRing \in Int
    BY SMT DEF Inv, Holds, ParentPlace, TypeOK, ParentTypes, Counters
  <1>2. SUFFICES ASSUME Forced(buf_idx) PROVE FALSE
    BY <1>1, NAssumption, SMT DEF Inv, Owners, InUse, Off, Slots
  <1>3. Published = puts /\ Released = gets - 1 /\ InRing = puts - (gets - 1)
    BY <1>1, <1>2, SMT DEF Published, Released, InRing, Forced
  <1>4. gets - 1 = N - 1
    BY <1>1, <1>2, <1>3, NAssumption, SMT DEF Inv, Counters, Forced, TypeOK, SharedTypes
  <1>5. InRing = 1
    BY <1>1, <1>2, <1>3, <1>4, NAssumption, SMT DEF Forced, TypeOK, SharedTypes, Inv
  <1>6. Behind(buf_idx) = ReaderPlace
    BY <1>1, <1>5, NAssumption, SMT DEF Inv, Chain, InUse, Off, Slots
  <1>7. ReaderPlace = Place(Len(tracks) + 1, 0)
    BY <1>2, SMT DEF Inv, Forced, ChildPlace, ReaderLive, ReaderPlace
  <1>8. Behind(buf_idx) = Place(cur, wbytes) /\ cur <= Len(tracks)
    BY SMT DEF Inv, ParentPlace, InTrack
  <1>9. cur \in Nat /\ Len(tracks) \in Nat
    BY SMT DEF Inv, TypeOK, SharedTypes, ParentTypes
  <1> QED
    BY <1>6, <1>7, <1>8, <1>9, SMT DEF Place

\* The segment in the slot is the one the parent asks for: same file, and not
\* longer than asked.
LEMMA CheckAgrees ==
  ASSUME Inv, ppc = "check"
  PROVE  /\ fd[buf_idx] = tracks[cur].fd
         /\ wlen <= WriterAsks(tracks[cur], wbytes, wspt)
         /\ ~Holds /\ InRing > 0
  <1>1. ~Holds /\ InRing > 0 /\ bufp[buf_idx] = Segment(cur, wbytes, wlen)
    BY SMT DEF Inv, Holds, ParentPlace
  <1>2. InUse(buf_idx) /\ buf_idx \in Slots
    BY <1>1, SMT DEF Inv, InUse, Off, TypeOK, ParentTypes, Slots
  <1>3. GoodSegment(Segment(cur, wbytes, wlen)) /\ fd[buf_idx] = tracks[cur].fd
    BY <1>1, <1>2, SMT DEF Inv, Contents, Segment
  <1>4. cur \in 1 .. Len(tracks) /\ wbytes \in Nat /\ wspt \in Nat
    BY <1>3, SMT DEF GoodSegment, Segment, Inv, TypeOK, ParentTypes
  <1>5. /\ tracks[cur].bytespt \in Nat \ {0} /\ tracks[cur].tracksize \in Nat \cup {-1}
        /\ tracks[cur].filelen \in Nat
    BY <1>4, RowType DEF Inv
  <1>6. wspt = tracks[cur].bytespt \/ wbytes = tracks[cur].filelen
    BY SMT DEF Inv, BlockSize, InTrack
  <1>7. wlen <= WriterAsks(tracks[cur], wbytes, wspt)
    BY <1>3, <1>4, <1>5, <1>6, SMT DEF GoodSegment, Segment, ReaderLoops,
       ReaderAsks, WriterAsks, Lesser
  <1> QED
    BY <1>1, <1>3, <1>7

-----------------------------------------------------------------------------
(* The parent's steps.                                                      *)

\* Every step of the parent, the interrupt included, keeps the invariant.
LEMMA ParentKeeps ==
  ASSUME Inv, ParentStep \/ ParentInterrupt
  PROVE  Inv'
  \* The parent's steps between two visits of the ring keep the invariant.
  <1>1. ASSUME \/ ParentLastTest \/ ParentStart \/ ParentAwait \/ ParentSession
               \/ ParentLastTrack
               \/ ParentEndOfInput
        PROVE  Inv'
    <2> USE <1>1
    <2>1. UNCHANGED <<tracks, owner, users, fd, len, bufp, puts, gets, done, cpc,
                      buf_idx_reader, trackno, rbytes, rlen, closed, buf_idx, cur,
                      wbytes, wspt, wlen, pusers, written, restores>>
      BY SMT DEF ParentLastTest, ParentStart, ParentAwait, ParentSession, ParentLastTrack,
         ParentEndOfInput
    <2>2. \/ ppc' = ppc
          \/ ppc = "grace" /\ ppc' = "starts"
          \/ ppc = "starts" /\ ppc' = "await"
          \/ ppc = "await" /\ ppc' = "session"
          \/ ppc = "session" /\ ppc' = "open"
          \/ ppc = "open" /\ ppc' = "fix"
          \/ ppc = "use" /\ ppc' = "close" /\ wlen = 0
      BY SMT DEF ParentLastTest, ParentStart, ParentAwait, ParentSession, ParentLastTrack,
         ParentEndOfInput, ParentAt
    <2>3. /\ child' \in {child, "killed"} /\ ending' \in {ending, "handlers"}
          /\ outcome' \in {outcome, "burnt", "drive", "input"}
      BY SMT DEF ParentLastTest, ParentStart, ParentAwait, ParentSession, ParentLastTrack,
         ParentEndOfInput, Leave, AfterKill
    <2>4. ppc \in {"grace", "starts", "await", "session"} => gets = 0
      BY DEF Inv, ParentPlace
    <2>5. RingSame
      BY <2>1, <2>2, SMT DEF RingSame, Holds
    <2>6. TypeOK'
      <3>1. SharedTypes' /\ DriveTypes'
        BY <2>1, SMT DEF Inv, TypeOK, SharedTypes, DriveTypes
      <3>2. ChildTypes'
        BY <2>1, <2>3, SMT DEF Inv, TypeOK, ChildTypes
      <3>3. ParentTypes'
        BY <2>1, <2>2, <2>3, SMT DEF Inv, TypeOK, ParentTypes, Phases
      <3> QED
        BY <3>1, <3>2, <3>3 DEF TypeOK
    <2>7. ParentPlace'
      <3>1. ReaderPlace' = ReaderPlace /\ InRing' = InRing /\ Holds' = Holds
        BY <2>5, RingSameKeeps DEF RingSame
      <3>2. ppc = "use" /\ wlen = 0 => Behind(buf_idx) = Place(cur + 1, 0)
        BY SMT DEF Inv, ParentPlace, Segment, Behind
      <3>3. /\ SlotPlace(buf_idx)' = SlotPlace(buf_idx) /\ Behind(buf_idx)' = Behind(buf_idx)
            /\ Place(cur, wbytes)' = Place(cur, wbytes)
            /\ Place(cur + 1, 0)' = Place(cur + 1, 0) /\ Place(cur, 0)' = Place(cur, 0)
        BY <2>1, SMT DEF SlotPlace, Behind, Place, ReaderLoops
      <3> QED
        BY <2>1, <2>2, <2>4, <3>1, <3>2, <3>3, SMT DEF Inv, ParentPlace, InTrack, Segment
    <2>8. BlockSize'
      BY <2>1, <2>2, <2>3, SMT DEF Inv, BlockSize, InTrack, WriterLoops, WriterAsks
    <2>9. Users'
      BY <2>1, <2>2, SMT DEF Inv, Users, UsersDrain
    <2> QED
      BY <2>5, <2>6, <2>7, <2>8, <2>9, RingSameKeeps DEF Inv
  \* The parent's steps towards its end keep the invariant.
  <1>2. ASSUME \/ ParentGiveUp \/ ParentReadError \/ ParentFix \/ ParentInterrupt
               \/ ParentNoted \/ ParentRestore \/ ParentKill
        PROVE  Inv'
    <2> USE <1>2
    <2>1. UNCHANGED <<tracks, owner, users, fd, len, bufp, puts, gets, done, cpc,
                      buf_idx_reader, trackno, rbytes, rlen, closed, ppc, buf_idx,
                      cur, wbytes, wspt, wlen, pusers, written>>
      BY SMT DEF ParentGiveUp, ParentReadError, ParentFix, ParentInterrupt,
         ParentNoted, ParentRestore, ParentKill
    <2>2. /\ child' \in {child, "killed", "forgotten"}
          /\ ending' \in {ending, "noted", "handlers", "kill", "gone"}
          /\ outcome' \in {outcome, "timeout", "unreadable", "interrupt"}
          /\ restores' \in {restores, restores + 1}
      BY SMT DEF ParentGiveUp, ParentReadError, ParentFix, ParentInterrupt,
         ParentNoted, ParentRestore, ParentKill, Leave, AfterKill
    <2>3. RingSame
      BY <2>1, SMT DEF RingSame, Holds
    <2>4. TypeOK'
      <3>1. SharedTypes' /\ DriveTypes'
        BY <2>1, <2>2, SMT DEF Inv, TypeOK, SharedTypes, DriveTypes
      <3>2. ChildTypes'
        BY <2>1, <2>2, SMT DEF Inv, TypeOK, ChildTypes
      <3>3. ParentTypes'
        BY <2>1, <2>2, SMT DEF Inv, TypeOK, ParentTypes
      <3> QED
        BY <3>1, <3>2, <3>3 DEF TypeOK
    <2>5. ParentPlace'
      <3>1. ReaderPlace' = ReaderPlace /\ InRing' = InRing /\ Holds' = Holds
        BY <2>3, RingSameKeeps DEF RingSame
      <3> QED
        BY <2>1, <3>1, SMT DEF Inv, ParentPlace, SlotPlace, Behind, Place, InTrack,
           Segment, ReaderLoops
    <2>6. BlockSize'
      BY <2>1, <2>2, SMT DEF Inv, BlockSize, InTrack, WriterLoops, WriterAsks
    <2>7. Users'
      BY <2>1, SMT DEF Inv, Users, UsersDrain
    <2> QED
      BY <2>3, <2>4, <2>5, <2>6, <2>7, RingSameKeeps DEF Inv
  \* ParentLoadUsers keeps the invariant: no slot is in more than one use.
  <1>3. ASSUME ParentLoadUsers
        PROVE  Inv'
    <2> USE <1>3
    <2>1. /\ ppc = "users" /\ ppc' = "decr" /\ pusers' = users[buf_idx] - 1
          /\ UNCHANGED <<tracks, owner, users, fd, len, bufp, puts, gets, done, cpc,
                         child, buf_idx_reader, trackno, rbytes, rlen, closed, ending,
                         outcome, buf_idx, cur, wbytes, wspt, wlen, written, restores>>
      BY SMT DEF ParentLoadUsers, ParentAt
    <2>2. /\ users[buf_idx] \in Int /\ users[buf_idx] <= 1 /\ gets > 0
      BY <2>1, SMT DEF Inv, TypeOK, SharedTypes, ParentTypes, Users, ParentPlace
    <2>3. RingSame
      BY <2>1, SMT DEF RingSame, Holds
    <2>4. TypeOK'
      <3>1. SharedTypes' /\ ChildTypes' /\ DriveTypes'
        BY <2>1, OthersTypes DEF Inv
      <3>2. ParentTypes'
        BY <2>1, <2>2, SMT DEF Inv, TypeOK, ParentTypes, Phases
      <3> QED
        BY <3>1, <3>2 DEF TypeOK
    <2>5. ParentPlace'
      <3>1. ReaderPlace' = ReaderPlace /\ InRing' = InRing /\ Holds' = Holds
        BY <2>3, RingSameKeeps DEF RingSame
      <3> QED
        BY <2>1, <2>2, <3>1, SMT DEF Inv, ParentPlace, SlotPlace, Behind, Place, InTrack,
           Segment, ReaderLoops
    <2>6. BlockSize'
      BY <2>1, SMT DEF Inv, BlockSize, InTrack, WriterLoops, WriterAsks
    <2>7. Users'
      BY <2>1, <2>2, SMT DEF Inv, Users, UsersDrain
    <2> QED
      BY <2>3, <2>4, <2>5, <2>6, <2>7, RingSameKeeps DEF Inv
  \* ParentOpenTrack keeps the invariant.
  <1>4. ASSUME ParentOpenTrack
        PROVE  Inv'
    <2> USE <1>4
    <2>1. RingSame
      BY SMT DEF Inv, ParentOpenTrack, ParentAt, RingSame, Holds, ParentPlace
    <2>2. tracks[cur].bytespt \in Nat
      BY RowType, SMT DEF Inv, TypeOK, SharedTypes, ParentTypes, ParentOpenTrack
    <2>3. SharedTypes' /\ ChildTypes' /\ DriveTypes'
      <3>1. UNCHANGED <<tracks, owner, users, fd, len, bufp, puts, gets, done, cpc, child,
                        buf_idx_reader, trackno, rbytes, rlen, closed, written, restores>>
        BY SMT DEF ParentOpenTrack
      <3> QED
        BY <3>1, OthersTypes DEF Inv
    <2>4. ParentTypes'
      BY <2>2, SMT DEF Inv, TypeOK, ParentTypes, ParentOpenTrack, Phases
    <2>5. ParentPlace'
      <3>1. ReaderPlace' = ReaderPlace /\ InRing' = InRing /\ Holds' = Holds
        BY <2>1, RingSameKeeps DEF RingSame
      <3>2. /\ ppc = "open" /\ ppc' \in {"get", "fix"}
            /\ cur' = cur /\ gets' = gets /\ cur <= Len(tracks) /\ tracks' = tracks
        BY SMT DEF ParentOpenTrack, ParentAt
      <3>3. (ppc' = "get" => wbytes' = 0) /\ (ppc' = "fix" => wbytes' = wbytes)
        BY SMT DEF ParentOpenTrack
      <3>4. SlotPlace(buf_idx)' = SlotPlace(buf_idx) /\ Behind(buf_idx)' = Behind(buf_idx)
        BY <2>1, SMT DEF RingSame, SlotPlace, Behind, Place, ReaderLoops
      <3>5. gets = 0 \/ Holds
        BY <3>2, SMT DEF Holds, Inv, TypeOK, SharedTypes
      <3> QED
        BY <3>1, <3>2, <3>3, <3>4, <3>5, SMT DEF Inv, ParentPlace, InTrack
    <2>6. BlockSize'
      BY SMT DEF Inv, BlockSize, ParentOpenTrack, ParentAt, InTrack
    <2>7. Users'
      BY SMT DEF Inv, Users, UsersDrain, ParentOpenTrack
    <2> QED
      BY <2>1, <2>3, <2>4, <2>5, <2>6, <2>7, RingSameKeeps DEF Inv, TypeOK
  \* ParentGet keeps the invariant: it releases exactly when it holds a slot.
  <1>5. ASSUME ParentGet
        PROVE  Inv'
    <2> USE <1>5
    <2>1. IF gets > 0 THEN ppc' = "release" /\ owner[buf_idx] = "faio" ELSE ppc' = "wait"
      <3>1. CASE gets > 0
        BY <3>1, GetSeesFaio, SMT DEF ParentGet, ParentAt
      <3>2. CASE ~(gets > 0)
        <4>1. ~Holds /\ buf_idx \in Slots
          BY <3>2, SMT DEF Holds, Inv, TypeOK, ParentTypes
        <4>2. owner[buf_idx] # "faio"
          BY <4>1, SMT DEF Inv, Owners
        <4> QED
          BY <3>2, <4>2, SMT DEF ParentGet, ParentAt
      <3> QED
        BY <3>1, <3>2
    <2>2. RingSame
      BY <2>1, SMT DEF ParentGet, ParentAt, RingSame, Holds
    <2>3. SharedTypes' /\ ChildTypes' /\ DriveTypes'
      <3>1. UNCHANGED <<tracks, owner, users, fd, len, bufp, puts, gets, done, cpc, child,
                        buf_idx_reader, trackno, rbytes, rlen, closed, written, restores>>
        BY SMT DEF ParentGet
      <3> QED
        BY <3>1, OthersTypes DEF Inv
    <2>4. ParentTypes'
      BY <2>1, SMT DEF Inv, TypeOK, ParentTypes, ParentGet, Phases
    <2>5. ParentPlace'
      <3>1. ReaderPlace' = ReaderPlace /\ InRing' = InRing /\ Holds' = Holds
        BY <2>2, RingSameKeeps DEF RingSame
      <3>2. /\ ppc = "get" /\ cur' = cur /\ wbytes' = wbytes /\ gets' = gets
            /\ tracks' = tracks /\ owner' = owner /\ buf_idx' = buf_idx
        BY SMT DEF ParentGet, ParentAt
      <3>3. SlotPlace(buf_idx)' = SlotPlace(buf_idx) /\ Behind(buf_idx)' = Behind(buf_idx)
        BY <2>2, SMT DEF RingSame, SlotPlace, Behind, Place, ReaderLoops
      <3> QED
        BY <2>1, <3>1, <3>2, <3>3, SMT DEF Inv, ParentPlace, InTrack
    <2>6. BlockSize'
      BY <2>1, SMT DEF Inv, BlockSize, ParentGet, ParentAt, InTrack
    <2>7. Users'
      BY <2>1, SMT DEF Inv, Users, UsersDrain, ParentGet
    <2> QED
      BY <2>2, <2>3, <2>4, <2>5, <2>6, <2>7, RingSameKeeps DEF Inv, TypeOK
  \* ParentAcquire keeps the invariant: the segment starts where it should.
  <1>6. ASSUME ParentAcquire
        PROVE  Inv'
    <2> USE <1>6
    <2>1. /\ ppc = "wait" /\ owner[buf_idx] = "reader" /\ ppc' = "check"
          /\ cur' = cur /\ wbytes' = wbytes /\ wspt' = wspt /\ wlen' = len[buf_idx]
      BY SMT DEF ParentAcquire, ParentAt
    <2>2. RingSame
      BY <2>1, SMT DEF ParentAcquire, RingSame, Holds
    \* A slot that shows "reader" to the waiting parent holds a segment.
    <2>3. InRing > 0 /\ ~Holds /\ buf_idx \in Slots
      <3>1. ~Holds /\ buf_idx \in Slots /\ InRing \in Int
        BY <2>1, SMT DEF Inv, Holds, TypeOK, ParentTypes, Counters
      <3>2. ASSUME InRing = 0
            PROVE  FALSE
        <4>1. Forced(buf_idx)
          BY <2>1, <3>1, <3>2, NAssumption, SMT DEF Inv, Owners, InUse, Off, Slots
        <4>2. ReaderPlace = Place(Len(tracks) + 1, 0)
          BY <4>1, SMT DEF Inv, Forced, ChildPlace, ReaderLive, ReaderPlace
        <4>3. ReaderPlace = Place(cur, wbytes) /\ cur <= Len(tracks)
          BY <2>1, <3>1, <3>2, SMT DEF Inv, ParentPlace, InTrack
        <4>4. cur \in Nat /\ Len(tracks) \in Nat
          BY SMT DEF Inv, TypeOK, SharedTypes, ParentTypes
        <4> QED
          BY <4>2, <4>3, <4>4, SMT DEF Place
      <3> QED
        BY <3>1, <3>2, SMT DEF Inv, Counters
    <2>4. SharedTypes' /\ ChildTypes' /\ DriveTypes'
      <3>1. UNCHANGED <<tracks, owner, users, fd, len, bufp, puts, gets, done, cpc, child,
                        buf_idx_reader, trackno, rbytes, rlen, closed, written, restores>>
        BY SMT DEF ParentAcquire
      <3> QED
        BY <3>1, OthersTypes DEF Inv
    <2>5. len[buf_idx] \in Nat \cup {-1}
      BY <2>3, SMT DEF Inv, TypeOK, SharedTypes
    <2>6. ParentTypes'
      BY <2>1, <2>5, SMT DEF Inv, TypeOK, ParentTypes, ParentAcquire, Phases
    <2>7. bufp[buf_idx] = Segment(cur, wbytes, len[buf_idx])
      <3>1. bufp[buf_idx] \in [trk : Nat, off : Nat, len : Nat \cup {-1}]
        BY <2>3, SMT DEF Inv, TypeOK, SharedTypes
      <3>2. InUse(buf_idx)
        BY <2>3, SMT DEF InUse, Off, Slots, Inv, TypeOK, ParentTypes
      <3>3. len[buf_idx] = bufp[buf_idx].len
        BY <2>3, <3>2, SMT DEF Inv, Contents
      <3>4. bufp[buf_idx].trk = cur /\ bufp[buf_idx].off = wbytes
        BY <2>3, SMT DEF Inv, ParentPlace, SlotPlace, Place
      <3> QED
        BY <3>1, <3>3, <3>4, SMT DEF Segment
    <2>8. ParentPlace'
      <3>1. ReaderPlace' = ReaderPlace /\ InRing' = InRing /\ Holds' = Holds
        BY <2>2, RingSameKeeps DEF RingSame
      <3>2. SlotPlace(buf_idx)' = SlotPlace(buf_idx) /\ Behind(buf_idx)' = Behind(buf_idx)
        BY <2>2, SMT DEF RingSame, SlotPlace, Behind, Place, ReaderLoops
      <3>3. Segment(cur, wbytes, wlen)' = Segment(cur, wbytes, len[buf_idx])
        BY <2>1 DEF Segment
      <3>4. gets' = gets /\ tracks' = tracks /\ buf_idx' = buf_idx /\ bufp' = bufp
        BY <2>2 DEF RingSame
      <3> QED
        BY <2>1, <2>3, <2>7, <3>1, <3>2, <3>3, <3>4, SMT DEF Inv, ParentPlace, InTrack
    <2>9. BlockSize'
      BY <2>1, SMT DEF Inv, BlockSize, ParentAcquire, InTrack
    <2>10. Users'
      BY <2>1, SMT DEF Inv, Users, UsersDrain, ParentAcquire
    <2> QED
      BY <2>2, <2>4, <2>6, <2>8, <2>9, <2>10, RingSameKeeps DEF Inv, TypeOK
  \* ParentCheck keeps the invariant: its three error branches are unreachable.
  <1>7. ASSUME ParentCheck
        PROVE  Inv'
    <2> USE <1>7
    <2>1. /\ ppc = "check" /\ cur' = cur /\ wbytes' = wbytes /\ wspt' = wspt
          /\ wlen' = wlen /\ buf_idx' = buf_idx /\ tracks' = tracks /\ bufp' = bufp
          /\ owner' = owner /\ fd' = fd /\ len' = len /\ users' = users
          /\ puts' = puts /\ cpc' = cpc /\ pusers' = pusers
      BY SMT DEF ParentCheck, ParentAt
    <2>2. /\ ~Holds /\ InRing > 0 /\ fd[buf_idx] = tracks[cur].fd
          /\ wlen <= WriterAsks(tracks[cur], wbytes, wspt)
      BY <2>1, CheckAgrees
    <2>3. /\ wlen \in Int /\ wspt \in Nat /\ wbytes \in Nat /\ gets \in Nat
          /\ WriterAsks(tracks[cur], wbytes, wspt) \in Int
      <3>1. cur \in 1 .. Len(tracks) /\ wspt \in Nat /\ wbytes \in Nat /\ wlen \in Int
        BY <2>1, SMT DEF Inv, TypeOK, SharedTypes, ParentTypes, ParentPlace, InTrack
      <3>2. tracks[cur].bytespt \in Nat /\ tracks[cur].tracksize \in Nat \cup {-1}
        BY <3>1, RowType DEF Inv
      <3>3. gets \in Nat
        BY SMT DEF Inv, TypeOK, SharedTypes
      <3> QED
        BY <3>1, <3>2, <3>3, SMT DEF WriterAsks, Lesser
    <2>4. /\ ppc' = "users" /\ gets' = gets + 1 /\ ending' = ending
          /\ outcome' = outcome
      BY <2>2, <2>3, SMT DEF ParentCheck
    <2>5. /\ Holds' /\ Released' = Released /\ InRing' = InRing
          /\ ReaderPlace' = ReaderPlace
      <3>1. Holds'
        BY <2>3, <2>4, SMT DEF Holds
      <3>2. Released' = Released /\ Published' = Published
        BY <2>1, <2>2, <2>3, <2>4, <3>1, SMT DEF Released, Published
      <3>3. ReaderPlace' = ReaderPlace
        BY SMT DEF ParentCheck, ReaderPlace, Behind, Place, ReaderLoops
      <3> QED
        BY <3>1, <3>2, <3>3 DEF InRing
    <2>6. SharedTypes' /\ ChildTypes' /\ DriveTypes'
      <3>1. SharedTypes'
        BY <2>1, <2>3, <2>4, SMT DEF Inv, TypeOK, SharedTypes, ParentCheck
      <3> QED
        BY <3>1, SMT DEF Inv, TypeOK, ChildTypes, DriveTypes, ParentCheck
    <2>7. ParentTypes'
      BY <2>4, SMT DEF Inv, TypeOK, ParentTypes, ParentCheck, Phases
    <2>8. Counters' /\ Cursor'
      BY <2>5, SMT DEF Inv, Counters, Cursor, Off, ParentCheck
    <2>9. ChildPlace'
      BY <2>5, SMT DEF Inv, ChildPlace, ParentCheck, GoodSegment, Segment, ReaderLoops,
         ReaderAsks
    <2>10. Owners'
      BY <2>1, <2>2, <2>4, <2>5, SMT DEF Inv, Owners, InUse, Off, Forced
    <2>11. Contents'
      BY <2>1, <2>5, SMT DEF Inv, Contents, InUse, Off, GoodSegment, ReaderLoops,
         ReaderAsks
    <2>12. Chain'
      BY <2>1, <2>5, SMT DEF Inv, Chain, InUse, Off, SlotPlace, Behind, Place, Next1,
         ReaderLoops
    <2>13. ParentPlace'
      BY <2>1, <2>3, <2>4, <2>5, <2>2, SMT DEF Inv, ParentPlace, InTrack, Segment
    <2>14. BlockSize'
      BY <2>1, <2>2, <2>4, SMT DEF Inv, BlockSize, InTrack, WriterAsks
    <2>15. Users'
      BY <2>1, <2>4, SMT DEF Inv, Users, UsersDrain
    <2> QED
      BY <2>6, <2>7, <2>8, <2>9, <2>10, <2>11, <2>12, <2>13, <2>14, <2>15
         DEF Inv, TypeOK
  \* ParentStoreUsers keeps the invariant.
  <1>8. ASSUME ParentStoreUsers
        PROVE  Inv'
    <2> USE <1>8
    <2>1. /\ ppc = "decr" /\ ppc' = "faio" /\ pusers <= 0 /\ pusers \in Int
          /\ buf_idx \in Slots /\ gets > 0 /\ users' = [users EXCEPT ![buf_idx] = pusers]
      BY SMT DEF Inv, TypeOK, ParentTypes, ParentPlace, Users, UsersDrain,
         ParentStoreUsers, ParentAt
    <2>2. RingSame
      BY <2>1, SMT DEF ParentStoreUsers, RingSame, Holds
    <2>3. users' \in [Slots -> Int] /\ \A i \in Slots : users'[i] <= 1
      BY <2>1, SMT DEF Inv, TypeOK, SharedTypes, Users
    <2>4. TypeOK'
      <3>1. SharedTypes'
        BY <2>3, SMT DEF Inv, TypeOK, SharedTypes, ParentStoreUsers
      <3>2. ParentTypes'
        BY <2>1, SMT DEF Inv, TypeOK, ParentTypes, ParentStoreUsers, Phases
      <3> QED
        BY <3>1, <3>2, SMT DEF Inv, TypeOK, ChildTypes, DriveTypes, ParentStoreUsers
    <2>5. ParentPlace'
      BY <2>1, <2>2, RingSameKeeps, SMT DEF Inv, ParentPlace, ParentStoreUsers, RingSame,
         SlotPlace, Behind, Place, InTrack, Segment, ReaderLoops
    <2>6. BlockSize'
      BY <2>1, SMT DEF Inv, BlockSize, ParentStoreUsers, InTrack, WriterAsks
    <2>7. Users'
      BY <2>1, <2>3, SMT DEF Users, UsersDrain
    <2> QED
      BY <2>2, <2>4, <2>5, <2>6, <2>7, RingSameKeeps DEF Inv
  \* ParentHold keeps the invariant: only the slot in use changes hands.
  <1>9. ASSUME ParentHold
        PROVE  Inv'
    <2> USE <1>9
    <2>1. /\ ppc = "faio" /\ ppc' = "use" /\ Holds /\ Holds' /\ InRing > 0
          /\ buf_idx \in Slots /\ owner' = [owner EXCEPT ![buf_idx] = "faio"]
      BY SMT DEF ParentHold, ParentAt, Holds, Inv, ParentPlace, TypeOK, ParentTypes
    <2>2. /\ UNCHANGED <<tracks, users, fd, len, bufp, puts, gets, done, cpc, child,
                         buf_idx_reader, trackno, rbytes, rlen, closed, ending, outcome,
                         buf_idx, cur, wbytes, wspt, wlen, pusers, written, restores>>
      BY SMT DEF ParentHold
    <2>3. InRing' = InRing /\ Released' = Released /\ ReaderPlace' = ReaderPlace
      BY <2>1, <2>2, SMT DEF InRing, Released, Published, ReaderPlace, Behind, Place,
         ReaderLoops
    <2>4. InUse(buf_idx) /\ owner[buf_idx] = "reader"
      BY <2>1, SMT DEF Inv, Owners, InUse, Off, TypeOK, ParentTypes, Slots
    <2>5. TypeOK'
      <3>1. owner' \in [Slots -> {"writer", "reader", "faio"}]
        BY <2>1, SMT DEF Inv, TypeOK, SharedTypes
      <3>2. SharedTypes'
        BY <2>2, <3>1, SMT DEF Inv, TypeOK, SharedTypes
      <3> QED
        BY <2>1, <2>2, <3>2, SMT DEF Inv, TypeOK, ChildTypes, ParentTypes, DriveTypes,
           Phases
    <2>6. Counters' /\ Cursor'
      BY <2>2, <2>3, SMT DEF Inv, Counters, Cursor, Off
    <2>7. ChildPlace'
      <3>1. cpc \in {"fill", "len", "publish"} => buf_idx_reader # buf_idx
        BY <2>4, SMT DEF Inv, ChildPlace
      <3>2. buf_idx_reader \in Slots /\ owner \in [Slots -> {"writer", "reader", "faio"}]
        BY SMT DEF Inv, TypeOK, SharedTypes, ChildTypes
      <3>3. owner'[buf_idx_reader] = owner[buf_idx_reader] \/ buf_idx_reader = buf_idx
        BY <2>1, <3>2, SMT
      <3> QED
        BY <2>2, <2>3, <3>1, <3>3, SMT DEF Inv, ChildPlace, GoodSegment, Segment,
           ReaderLoops, ReaderAsks
    <2>8. Owners'
      <3>1. owner \in [Slots -> {"writer", "reader", "faio"}]
        BY SMT DEF Inv, TypeOK, SharedTypes
      <3> QED
        BY <2>1, <2>2, <2>3, <2>4, <3>1, SMT DEF Inv, Owners, InUse, Off, Forced
    <2>9. Contents'
      BY <2>2, <2>3, SMT DEF Inv, Contents, InUse, Off, GoodSegment, ReaderLoops,
         ReaderAsks
    <2>10. Chain'
      BY <2>2, <2>3, SMT DEF Inv, Chain, InUse, Off, SlotPlace, Behind, Place, Next1,
         ReaderLoops
    <2>11. ParentPlace'
      BY <2>1, <2>2, <2>3, SMT DEF Inv, ParentPlace, InTrack, Segment
    <2>12. BlockSize'
      BY <2>1, <2>2, SMT DEF Inv, BlockSize, InTrack, WriterAsks
    <2>13. Users'
      BY <2>1, <2>2, SMT DEF Inv, Users, UsersDrain
    <2> QED
      BY <2>5, <2>6, <2>7, <2>8, <2>9, <2>10, <2>11, <2>12, <2>13 DEF Inv
  \* ParentRelease keeps the invariant: the window of occupied slots loses its
  \* first slot, and the chain now begins one segment later.
  <1>10. ASSUME ParentRelease
         PROVE  Inv'
    <2> USE <1>10
    <2>1. /\ ppc = "release" /\ ppc' = "wait" /\ Holds /\ ~Holds' /\ InRing > 0 /\ gets > 0
          /\ owner' = [owner EXCEPT ![buf_idx] = "writer"] /\ buf_idx' = Next1(buf_idx)
      BY SMT DEF ParentRelease, ParentAt, Holds, Inv, ParentPlace
    <2>2. /\ UNCHANGED <<tracks, users, fd, len, bufp, puts, gets, done, cpc, child,
                         buf_idx_reader, trackno, rbytes, rlen, closed, ending, outcome,
                         cur, wbytes, wspt, wlen, pusers, written, restores>>
      BY SMT DEF ParentRelease
    <2>3. /\ buf_idx \in Slots /\ buf_idx' \in Slots /\ buf_idx_reader \in Slots
          /\ InRing \in 1 .. N /\ Released \in Nat
          /\ owner \in [Slots -> {"writer", "reader", "faio"}]
      BY <2>1, NAssumption, SMT DEF Inv, TypeOK, SharedTypes, ChildTypes, ParentTypes,
         Counters, Released, Slots, Next1
    <2>4. Released' = Released + 1 /\ InRing' = InRing - 1 /\ ReaderPlace' = ReaderPlace
      <3>1. Released' = Released + 1 /\ Published' = Published
        BY <2>1, <2>2, <2>3, SMT DEF Released, Published, Inv, TypeOK, SharedTypes
      <3>2. Published \in Int
        BY SMT DEF Published, Inv, TypeOK, SharedTypes
      <3>3. ReaderPlace' = ReaderPlace
        BY <2>2, SMT DEF ReaderPlace, Behind, Place, ReaderLoops
      <3> QED
        BY <2>3, <3>1, <3>2, <3>3, SMT DEF InRing
    <2>5. \A i \in Slots : /\ Off(i) \in 0 .. N - 1
                           /\ Off(i)' = IF i = buf_idx THEN N - 1 ELSE Off(i) - 1
      BY <2>1, <2>3, NAssumption, SMT DEF Off, Next1, Slots
    <2>6. Off(buf_idx) = 0
      BY <2>3, SMT DEF Off, Slots
    <2>7. TypeOK'
      <3>1. owner' \in [Slots -> {"writer", "reader", "faio"}]
        BY <2>1, <2>3, SMT
      <3>2. SharedTypes'
        BY <2>2, <3>1, SMT DEF Inv, TypeOK, SharedTypes
      <3> QED
        BY <2>1, <2>2, <2>3, <3>2, SMT DEF Inv, TypeOK, ChildTypes, ParentTypes,
           DriveTypes, Phases
    <2>8. Counters'
      BY <2>1, <2>2, <2>3, <2>4, NAssumption, SMT DEF Inv, Counters, Next1, Slots
    <2>9. Cursor'
      BY <2>1, <2>2, <2>3, <2>4, NAssumption, SMT DEF Inv, Cursor, Off, Next1, Slots
    <2>10. ChildPlace'
      <3>1. cpc \in {"fill", "len", "publish"} =>
              owner'[buf_idx_reader] = "writer" /\ InRing' < N
        <4>1. cpc \in {"fill", "len", "publish"} =>
                owner[buf_idx_reader] = "writer" /\ InRing < N
          BY SMT DEF Inv, ChildPlace
        <4>2. owner'[buf_idx_reader] = owner[buf_idx_reader] \/ owner'[buf_idx_reader] = "writer"
          BY <2>1, <2>3, SMT
        <4> QED
          BY <2>3, <2>4, <4>1, <4>2, NAssumption, SMT
      <3> QED
        BY <2>2, <3>1, SMT DEF Inv, ChildPlace, GoodSegment, Segment, ReaderLoops,
           ReaderAsks
    <2>11. \A i \in Slots : InUse(i)' <=> (InUse(i) /\ i # buf_idx)
      BY <2>1, <2>3, <2>4, NAssumption, SMT DEF InUse, Off, Next1, Slots
    <2>12. Owners'
      BY <2>1, <2>2, <2>3, <2>11, SMT DEF Inv, Owners, Forced
    <2>13. Contents'
      BY <2>2, <2>11, SMT DEF Inv, Contents, GoodSegment, ReaderLoops, ReaderAsks
    <2>14. Chain'
      <3>1. \A i \in Slots : i # buf_idx =>
              ((Off(i)' + 1 < InRing') <=> (Off(i) + 1 < InRing))
        BY <2>3, <2>4, <2>5, SMT
      <3>2. \A i \in Slots : /\ Behind(i)' = Behind(i)
                             /\ SlotPlace(Next1(i))' = SlotPlace(Next1(i))
        BY <2>2, SMT DEF Behind, SlotPlace, Place, ReaderLoops, Next1
      <3> QED
        BY <2>4, <2>11, <3>1, <3>2, SMT DEF Inv, Chain
    <2>15. ParentPlace'
      <3>1. Behind(buf_idx) = Place(cur, wbytes)
        BY <2>1, SMT DEF Inv, ParentPlace
      <3>2. IF InRing > 1 THEN SlotPlace(Next1(buf_idx)) = Behind(buf_idx)
                          ELSE Behind(buf_idx) = ReaderPlace
        BY <2>3, <2>6, SMT DEF Inv, Chain, InUse
      <3>3. SlotPlace(buf_idx)' = SlotPlace(Next1(buf_idx)) /\ Place(cur, wbytes)' = Place(cur, wbytes)
        BY <2>1, <2>2, SMT DEF SlotPlace, Place
      <3>4. IF InRing' > 0 THEN SlotPlace(buf_idx)' = Place(cur, wbytes)'
                           ELSE ReaderPlace' = Place(cur, wbytes)'
        BY <2>3, <2>4, <3>1, <3>2, <3>3, SMT
      <3> QED
        BY <2>1, <2>2, <3>4, SMT DEF Inv, ParentPlace, InTrack
    <2>16. BlockSize'
      BY <2>1, <2>2, SMT DEF Inv, BlockSize, InTrack
    <2>17. Users'
      BY <2>1, <2>2, SMT DEF Inv, Users, UsersDrain
    <2> QED
      BY <2>7, <2>8, <2>9, <2>10, <2>12, <2>13, <2>14, <2>15, <2>16, <2>17 DEF Inv
  \* ParentCloseTrack keeps the invariant.
  <1>11. ASSUME ParentCloseTrack
         PROVE  Inv'
    <2> USE <1>11
    <2>1. RingSame
      BY SMT DEF Inv, ParentCloseTrack, ParentAt, RingSame, Holds, ParentPlace
    <2>2. cur \in 1 .. Len(tracks) /\ Len(tracks) \in Nat
      BY SMT DEF Inv, TypeOK, SharedTypes, ParentTypes, ParentCloseTrack, ParentAt,
         ParentPlace, InTrack
    <2>3. /\ ppc = "close" /\ ppc' \in {"open", "fix"} /\ wbytes' = wbytes /\ gets' = gets
          /\ (ppc' = "open" => cur' = cur + 1) /\ (ppc' = "fix" => cur' = cur)
      BY SMT DEF ParentCloseTrack, ParentAt
    <2>4. TypeOK'
      <3>1. cur' \in 1 .. Len(tracks) + 1
        BY <2>2, SMT DEF ParentCloseTrack
      <3>2. ParentTypes'
        BY <3>1, SMT DEF Inv, TypeOK, ParentTypes, ParentCloseTrack, Phases
      <3> QED
        BY <3>2, SMT DEF Inv, TypeOK, SharedTypes, ChildTypes, DriveTypes,
           ParentCloseTrack
    <2>5. ParentPlace'
      <3>1. ReaderPlace' = ReaderPlace /\ InRing' = InRing /\ Holds' = Holds
        BY <2>1, RingSameKeeps DEF RingSame
      <3>2. Holds /\ gets > 0 /\ InRing > 0 /\ Behind(buf_idx) = Place(cur + 1, 0)
        BY <2>3, SMT DEF Holds, Inv, ParentPlace
      <3>3. Behind(buf_idx)' = Behind(buf_idx)
        BY <2>1, SMT DEF RingSame, Behind, Place, ReaderLoops
      <3>4. gets \in Nat
        BY DEF Inv, TypeOK, SharedTypes
      <3>5. ppc' = "open" => Behind(buf_idx)' = Place(cur, 0)'
        BY <2>3, <3>2, <3>3, SMT DEF Place
      <3> QED
        BY <2>3, <3>1, <3>2, <3>4, <3>5, SMT DEF ParentPlace, InTrack
    <2>6. BlockSize'
      BY SMT DEF Inv, BlockSize, ParentCloseTrack, ParentAt, InTrack
    <2>7. Users'
      BY SMT DEF Inv, Users, UsersDrain, ParentCloseTrack, ParentAt
    <2> QED
      BY <2>1, <2>4, <2>5, <2>6, <2>7, RingSameKeeps DEF Inv
  \* ParentLoop keeps the invariant: the two loops stop at the same segment.
  <1>12. ASSUME ParentLoop
         PROVE  Inv'
    <2> USE <1>12
    <2>1. RingSame
      BY SMT DEF Inv, ParentLoop, ParentAt, RingSame, Holds, ParentPlace
    <2>2. /\ ppc = "wrote" /\ cur' = cur /\ wbytes' = wbytes /\ wspt' = wspt
          /\ ppc' = IF WriterLoops(tracks[cur], wbytes) THEN "get" ELSE "close"
      BY SMT DEF ParentLoop, ParentAt
    <2>3. TypeOK'
      <3>1. ParentTypes'
        BY <2>2, SMT DEF Inv, TypeOK, ParentTypes, ParentLoop, Phases
      <3> QED
        BY <3>1, SMT DEF Inv, TypeOK, SharedTypes, ChildTypes, DriveTypes, ParentLoop
    <2>4. ParentPlace'
      <3>1. ReaderPlace' = ReaderPlace /\ InRing' = InRing /\ Holds' = Holds
        BY <2>1, RingSameKeeps DEF RingSame
      <3>2. /\ Holds /\ gets > 0 /\ InRing > 0 /\ cur <= Len(tracks)
            /\ wlen > 0 /\ bufp[buf_idx] = Segment(cur, wbytes - wlen, wlen)
        BY <2>2, SMT DEF Holds, Inv, ParentPlace, InTrack
      <3>3. wbytes \in Int /\ wlen \in Int /\ gets \in Nat
        BY SMT DEF Inv, TypeOK, SharedTypes, ParentTypes
      <3>4. Behind(buf_idx) = IF ppc' = "get" THEN Place(cur, wbytes) ELSE Place(cur + 1, 0)
        BY <2>2, <3>2, <3>3, SMT DEF Behind, Segment, ReaderLoops, WriterLoops
      <3>5. Behind(buf_idx)' = Behind(buf_idx)
        BY <2>1, SMT DEF RingSame, Behind, Place, ReaderLoops
      <3>6. Place(cur, wbytes)' = Place(cur, wbytes) /\ Place(cur + 1, 0)' = Place(cur + 1, 0)
        BY <2>2 DEF Place
      <3>7. gets' = gets /\ tracks' = tracks
        BY <2>1 DEF RingSame
      <3>8. ppc' \in {"get", "close"}
        BY <2>2
      <3> QED
        BY <2>2, <3>1, <3>2, <3>3, <3>4, <3>5, <3>6, <3>7, <3>8, SMT DEF ParentPlace, InTrack
    <2>5. BlockSize'
      BY <2>2, SMT DEF Inv, BlockSize, ParentLoop, InTrack
    <2>6. Users'
      BY <2>2, SMT DEF Inv, Users, UsersDrain, ParentLoop
    <2> QED
      BY <2>1, <2>3, <2>4, <2>5, <2>6, RingSameKeeps DEF Inv
  \* ParentWrite keeps the invariant: what is clipped and padded stays a block,
  \* and a block is only ever reduced by the segment that ends the file.
  <1>13. ASSUME ParentWrite
         PROVE  Inv'
    <2> USE <1>13
    <2> DEFINE t     == tracks[cur]
               n     == wbytes + wlen
               count == IF t.tracksize >= 0 /\ n >= t.tracksize
                        THEN wlen - (n - t.tracksize) ELSE wlen
               bpt   == IF count < wspt THEN PadUp(count, t.secsize) ELSE wspt
    <2>1. /\ ppc = "use" /\ ppc' \in {"wrote", "fix"} /\ wlen > 0 /\ wbytes' = n
          /\ wspt' = bpt /\ wlen' = wlen /\ cur' = cur
          /\ outcome' \in {outcome, "drive"}
      BY SMT DEF ParentWrite, WriteSecs, ParentAt
    <2>2. UNCHANGED <<tracks, owner, users, fd, len, bufp, puts, gets, done, cpc, child,
                      buf_idx_reader, trackno, rbytes, rlen, closed, ending, buf_idx,
                      cur, wlen, pusers, restores>>
      BY SMT DEF ParentWrite, WriteSecs
    <2>3. /\ Holds /\ gets > 0 /\ InRing > 0 /\ cur \in 1 .. Len(tracks)
          /\ bufp[buf_idx] = Segment(cur, wbytes, wlen)
          /\ buf_idx \in Slots /\ wbytes \in Nat /\ wlen \in Nat /\ wspt \in Nat
      BY <2>1, SMT DEF Holds, Inv, TypeOK, SharedTypes, ParentTypes, ParentPlace, InTrack
    <2>4. /\ t.secsize \in Nat \ {0} /\ t.bytespt \in Nat \ {0}
          /\ t.tracksize \in Nat \cup {-1} /\ t.filelen \in Nat
      BY <2>3, RowType DEF Inv
    <2>5. GoodSegment(Segment(cur, wbytes, wlen))
      <3>1. InUse(buf_idx)
        BY <2>3, SMT DEF InUse, Off, Slots
      <3> QED
        BY <2>3, <3>1 DEF Inv, Contents
    <2>6. /\ wbytes > 0 => ReaderLoops(t, wbytes)
          /\ wlen = Lesser(ReaderAsks(t, wbytes), t.filelen - wbytes)
      BY <2>3, <2>5, SMT DEF GoodSegment, Segment
    <2>7. count \in Nat
      <3>1. t.tracksize > 0 => wlen <= t.tracksize - wbytes
        <4>1. t.tracksize > 0 =>
                ReaderAsks(t, wbytes) = Lesser(t.bytespt, t.tracksize - wbytes)
          BY DEF ReaderAsks
        <4> HIDE DEF t
        <4> QED
          BY <2>3, <2>4, <2>6, <4>1, SMT DEF Lesser
      <3>2. t.tracksize = 0 => wbytes = 0
        BY <2>3, <2>6, SMT DEF ReaderLoops
      <3> HIDE DEF t
      <3> QED
        BY <2>3, <2>4, <3>1, <3>2, SMT
    <2>8. bpt \in Nat
      <3>1. PadUp(count, t.secsize) \in Nat
        <4> HIDE DEF count
        <4>1. count % t.secsize \in 0 .. t.secsize - 1
          BY <2>4, <2>7, SMT
        <4> QED
          BY <2>4, <2>7, <4>1, SMT DEF PadUp
      <3> QED
        BY <2>3, <3>1
    <2>9. RingSame
      BY <2>1, <2>2, <2>3, SMT DEF RingSame, Holds
    <2>10. TypeOK'
      <3>1. SharedTypes' /\ ChildTypes'
        BY <2>2, SMT DEF Inv, TypeOK, SharedTypes, ChildTypes
      <3>2. n \in Nat
        BY <2>3, SMT
      <3>3. ParentTypes'
        <4> HIDE DEF n, bpt
        <4> QED
          BY <2>1, <2>2, <2>8, <3>2, SMT DEF Inv, TypeOK, ParentTypes, Phases
      <3>4. DriveTypes'
        <4> DEFINE w == [trk |-> bufp[buf_idx].trk, off |-> bufp[buf_idx].off,
                         len |-> count, size |-> bpt]
        <4>1. written' = written \/ written' = Append(written, w)
          BY SMT DEF ParentWrite, WriteSecs
        <4>2. bufp[buf_idx].trk \in Nat /\ bufp[buf_idx].off \in Nat
          BY <2>3, SMT DEF Inv, TypeOK, SharedTypes
        <4> HIDE DEF count, bpt
        <4>3. w \in [trk : Nat, off : Nat, len : Nat, size : Nat]
          BY <2>7, <2>8, <4>2, SMT
        <4> HIDE DEF w
        <4>4. written \in Seq([trk : Nat, off : Nat, len : Nat, size : Nat])
          BY DEF Inv, TypeOK, DriveTypes
        <4>5. written' \in Seq([trk : Nat, off : Nat, len : Nat, size : Nat])
          <5> DEFINE R == [trk : Nat, off : Nat, len : Nat, size : Nat]
          <5>1. w \in R /\ written \in Seq(R)
            BY <4>3, <4>4
          <5> HIDE DEF R
          <5>2. written' \in Seq(R)
            BY <4>1, <5>1, SMT
          <5> QED
            BY <5>2 DEF R
        <4> QED
          BY <2>2, <4>5, SMT DEF Inv, TypeOK, DriveTypes
      <3> QED
        BY <3>1, <3>3, <3>4 DEF TypeOK
    <2>11. ParentPlace'
      <3>1. ReaderPlace' = ReaderPlace /\ InRing' = InRing /\ Holds' = Holds
        BY <2>9, RingSameKeeps DEF RingSame
      <3>2. wbytes' - wlen = wbytes /\ wlen <= wbytes' /\ wbytes' \in Nat
        BY <2>1, <2>3, SMT
      <3>3. bufp'[buf_idx'] = Segment(cur, wbytes - wlen, wlen)'
        BY <2>1, <2>2, <2>3, <3>2, SMT DEF Segment
      <3> QED
        BY <2>1, <2>2, <2>3, <3>1, <3>2, <3>3, SMT DEF ParentPlace, InTrack, Inv, TypeOK, SharedTypes
    <2>12. BlockSize'
      <3>1. wspt = t.bytespt
        BY <2>1, <2>3, <2>4, <2>6, SMT DEF Inv, BlockSize, InTrack, ReaderAsks, Lesser
      <3>2. WriterLoops(t, n) => bpt = t.bytespt \/ n = t.filelen
        BY <2>3, <2>4, <2>6, <3>1, SMT DEF WriterLoops, ReaderLoops, ReaderAsks, Lesser
      <3> HIDE DEF n, bpt
      <3> QED
        BY <2>1, <2>2, <3>2, SMT DEF Inv, BlockSize, InTrack
    <2>13. Users'
      BY <2>1, <2>2, SMT DEF Inv, Users, UsersDrain
    <2> QED
      BY <2>9, <2>10, <2>11, <2>12, <2>13, RingSameKeeps DEF Inv
  <1> QED
    BY <1>1, <1>2, <1>3, <1>4, <1>5, <1>6, <1>7, <1>8, <1>9, <1>10, <1>11, <1>12, <1>13
       DEF ParentStep

-----------------------------------------------------------------------------
(* The child's steps.                                                       *)

\* A slot the child may fill holds no segment: its owner is the child.
LEMMA CursorFree ==
  ASSUME Inv, cpc \notin {"users", "puts"}, owner[buf_idx_reader] = "writer"
  PROVE  ~InUse(buf_idx_reader) /\ InRing < N /\ Off(buf_idx_reader) = InRing
  <1>1. buf_idx_reader \in Slots /\ buf_idx \in Slots /\ InRing \in 0 .. N
    BY SMT DEF Inv, TypeOK, ChildTypes, ParentTypes, Counters
  <1>2. ~InUse(buf_idx_reader)
    BY <1>1, SMT DEF Inv, Owners
  <1> QED
    BY <1>1, <1>2, NAssumption, SMT DEF Inv, Cursor, InUse

\* A step of the child that writes, at most, into the free slot at its cursor.
FillsFree ==
    /\ UNCHANGED <<tracks, owner, users, puts, gets, buf_idx_reader, trackno,
                   rbytes, parentCtl, parentLocals>>
    /\ cpc \in {"wait", "fill", "len"} /\ cpc' \in {"fill", "len", "publish"}
    /\ ~InUse(buf_idx_reader)
    /\ \A i \in Slots : i # buf_idx_reader =>
            fd'[i] = fd[i] /\ bufp'[i] = bufp[i] /\ len'[i] = len[i]

\* Such a step disturbs nothing the parent can see.
LEMMA FillsFreeKeeps ==
  ASSUME Inv, FillsFree
  PROVE  /\ Counters' /\ Cursor' /\ Owners' /\ Contents' /\ Chain'
         /\ ParentPlace' /\ BlockSize' /\ Users'
  <1>1. /\ UNCHANGED <<tracks, owner, users, puts, gets, buf_idx_reader, trackno,
                       rbytes, ppc, ending, outcome, buf_idx, cur, wbytes, wspt,
                       wlen, pusers>>
        /\ cpc \in {"wait", "fill", "len"} /\ cpc' \in {"fill", "len", "publish"}
    BY SMT DEF FillsFree
  <1>2. /\ InRing' = InRing /\ Released' = Released /\ Holds' = Holds
        /\ ReaderPlace' = ReaderPlace
    BY <1>1, SMT DEF InRing, Published, Released, Holds, ReaderPlace, Place
  <1>3. \A i \in Slots : InUse(i) =>
            /\ i # buf_idx_reader
            /\ fd'[i] = fd[i] /\ bufp'[i] = bufp[i] /\ len'[i] = len[i]
    BY SMT DEF FillsFree
  <1>4. \A i \in Slots : (InUse(i)' <=> InUse(i)) /\ Off(i)' = Off(i)
    BY <1>1, <1>2, SMT DEF InUse, Off
  <1>5. buf_idx \in Slots /\ InRing \in Int
    BY SMT DEF Inv, TypeOK, ParentTypes, Counters
  <1>6. Counters' /\ Cursor'
    BY <1>1, <1>2, SMT DEF Inv, Counters, Cursor, Off
  <1>7. Owners'
    BY <1>1, <1>2, <1>4, SMT DEF Inv, Owners, Forced
  <1>8. Contents'
    BY <1>1, <1>3, <1>4, SMT DEF Inv, Contents, GoodSegment, ReaderLoops,
       ReaderAsks
  <1>9. \A i \in Slots : InUse(i) =>
            Behind(i)' = Behind(i) /\ SlotPlace(i)' = SlotPlace(i)
    BY <1>1, <1>3, SMT DEF Behind, SlotPlace, Place, ReaderLoops
  <1>10. Chain'
    <2>1. \A i \in Slots : InUse(i) /\ Off(i) + 1 < InRing =>
            Next1(i) \in Slots /\ InUse(Next1(i))
      BY <1>5, NAssumption, SMT DEF InUse, Off, Next1, Slots
    <2>2. \A i \in Slots : Next1(i)' = Next1(i)
      BY DEF Next1
    <2>3. \A i \in Slots : InUse(i) /\ Off(i) + 1 < InRing =>
            SlotPlace(Next1(i))' = SlotPlace(Next1(i))
      BY <1>1, <1>3, <2>1, SMT DEF SlotPlace, Place, Next1
    <2> QED
      BY <1>2, <1>4, <1>9, <2>3, SMT DEF Inv, Chain
  <1>11. InRing > 0 => /\ bufp'[buf_idx] = bufp[buf_idx]
                       /\ Behind(buf_idx)' = Behind(buf_idx)
                       /\ SlotPlace(buf_idx)' = SlotPlace(buf_idx)
    <2>1. InRing > 0 => InUse(buf_idx)
      BY <1>5, SMT DEF InUse, Off, Slots
    <2> QED
      BY <1>1, <1>3, <1>5, <2>1, SMT DEF Behind, SlotPlace, Place, ReaderLoops
  <1>12. ParentPlace'
    <2>1. gets \in Nat
      BY DEF Inv, TypeOK, SharedTypes
    <2>2. ppc \in {"check", "users", "decr", "faio", "use", "wrote", "close", "get",
                   "release", "open"} /\ (ppc # "check" => gets > 0) => InRing > 0
      BY <2>1, SMT DEF Inv, ParentPlace, Holds
    <2>3. Place(cur, wbytes)' = Place(cur, wbytes) /\ Place(cur + 1, 0)' = Place(cur + 1, 0)
          /\ Place(cur, 0)' = Place(cur, 0)
      BY <1>1 DEF Place
    <2> QED
      BY <1>1, <1>2, <1>11, <2>1, <2>2, <2>3, SMT DEF Inv, ParentPlace, InTrack, Segment
  <1>13. BlockSize'
    BY <1>1, SMT DEF Inv, BlockSize, InTrack, WriterAsks, WriterLoops
  <1>14. Users'
    BY <1>1, SMT DEF Inv, Users, UsersDrain
  <1> QED
    BY <1>6, <1>7, <1>8, <1>10, <1>12, <1>13, <1>14

\* A step of the child that leaves the ring, the cursor and the parent alone.
ChildRingSame ==
    /\ UNCHANGED <<tracks, owner, fd, len, bufp, puts, gets, buf_idx_reader,
                   trackno, rbytes, rlen, parentCtl, parentLocals>>
    /\ cpc \in {"users", "puts"} <=> cpc' \in {"users", "puts"}
    /\ Holds' = Holds
    /\ cpc = "exited" => cpc' = "exited"

\* Such a step keeps every part of Inv but those about the child's place.
LEMMA ChildRingSameKeeps ==
  ASSUME Inv, ChildRingSame
  PROVE  /\ Cursor' /\ Owners' /\ Contents' /\ Chain' /\ ParentPlace' /\ BlockSize'
         /\ ((cpc' = "force" => puts <= N) => Counters')
         /\ InRing' = InRing /\ ParentTypes'
  <1>1. /\ UNCHANGED <<tracks, owner, fd, len, bufp, puts, gets, buf_idx_reader,
                       trackno, rbytes, rlen, ppc, ending, outcome, buf_idx, cur,
                       wbytes, wspt, wlen, pusers>>
        /\ cpc \in {"users", "puts"} <=> cpc' \in {"users", "puts"}
        /\ Holds' = Holds
        /\ cpc = "exited" => cpc' = "exited"
    BY SMT DEF ChildRingSame
  <1>2. /\ InRing' = InRing /\ Released' = Released /\ ReaderPlace' = ReaderPlace
    BY <1>1, SMT DEF InRing, Published, Released, ReaderPlace, Place, Behind, ReaderLoops
  <1>3. Cursor'
    BY <1>1, <1>2, SMT DEF Inv, Cursor, Off
  <1>4. Owners'
    BY <1>1, <1>2, SMT DEF Inv, Owners, InUse, Off, Forced
  <1>5. Contents'
    BY <1>1, <1>2, SMT DEF Inv, Contents, InUse, Off, GoodSegment, ReaderLoops,
       ReaderAsks
  <1>6. Chain'
    BY <1>1, <1>2, SMT DEF Inv, Chain, InUse, Off, SlotPlace, Behind, Place, Next1,
       ReaderLoops
  <1>7. ParentPlace'
    BY <1>1, <1>2, SMT DEF Inv, ParentPlace, SlotPlace, Behind, Place, InTrack, Segment,
       ReaderLoops
  <1>8. BlockSize'
    BY <1>1, SMT DEF Inv, BlockSize, InTrack, WriterAsks, WriterLoops
  <1>9. (cpc' = "force" => puts <= N) => Counters'
    BY <1>1, <1>2, SMT DEF Inv, Counters
  <1>10. ParentTypes'
    BY <1>1, SMT DEF Inv, TypeOK, ParentTypes
  <1> QED
    BY <1>2, <1>3, <1>4, <1>5, <1>6, <1>7, <1>8, <1>9, <1>10

\* Every step of the child keeps the invariant.
LEMMA ChildKeeps ==
  ASSUME Inv, ChildStep
  PROVE  Inv'
  \* ChildAcquire keeps the invariant.
  <1>1. ASSUME ChildAcquire
        PROVE  Inv'
    <2> USE <1>1
    <2>1. /\ cpc = "wait" /\ owner[buf_idx_reader] = "writer" /\ cpc' = "fill"
          /\ fd' = [fd EXCEPT ![buf_idx_reader] = tracks[trackno].fd]
      BY SMT DEF ChildAcquire, ChildAt
    <2>2. UNCHANGED <<tracks, owner, users, len, bufp, puts, gets, done, child,
                      buf_idx_reader, trackno, rbytes, rlen, closed, ppc, ending,
                      outcome, buf_idx, cur, wbytes, wspt, wlen, pusers, written, restores>>
      BY SMT DEF ChildAcquire
    <2>3. /\ buf_idx_reader \in Slots /\ trackno \in 1 .. Len(tracks)
          /\ fd \in [Slots -> Nat \cup {NoFd}]
      BY <2>1, SMT DEF Inv, TypeOK, SharedTypes, ChildTypes, ChildPlace, ReaderLive
    <2>4. tracks[trackno].fd \in Nat
      BY <2>3, RowType DEF Inv
    <2>5. ~InUse(buf_idx_reader) /\ InRing < N
      BY <2>1, CursorFree
    <2>6. /\ fd' \in [Slots -> Nat \cup {NoFd}]
          /\ fd'[buf_idx_reader] = tracks[trackno].fd
          /\ \A i \in Slots : i # buf_idx_reader => fd'[i] = fd[i]
      BY <2>1, <2>3, <2>4, SMT
    <2>7. FillsFree
      BY <2>1, <2>2, <2>5, <2>6, SMT DEF FillsFree
    <2>8. TypeOK'
      <3>1. SharedTypes'
        BY <2>2, <2>6, SMT DEF Inv, TypeOK, SharedTypes
      <3>2. ChildTypes'
        BY <2>1, <2>2, SMT DEF Inv, TypeOK, ChildTypes
      <3>3. ParentTypes' /\ DriveTypes'
        BY <2>2, SMT DEF Inv, TypeOK, ParentTypes, DriveTypes
      <3> QED
        BY <3>1, <3>2, <3>3 DEF TypeOK
    <2>9. ChildPlace'
      <3>1. InRing' = InRing
        BY <2>1, <2>2, SMT DEF InRing, Published, Released, Holds
      <3> QED
        BY <2>1, <2>2, <2>5, <2>6, <3>1, SMT DEF Inv, ChildPlace, ReaderLive, ReaderLoops
    <2> QED
      BY <2>7, <2>8, <2>9, FillsFreeKeeps DEF Inv
  \* ChildGiveUp keeps the invariant.
  <1>2. ASSUME ChildGiveUp
        PROVE  Inv'
    <2> USE <1>2
    <2>1. /\ cpc = "wait" /\ cpc' = "wait" /\ child' = "gaveup" /\ restores' = restores + 1
          /\ UNCHANGED <<tracks, owner, users, fd, len, bufp, puts, gets, done, closed,
                         buf_idx_reader, trackno, rbytes, rlen, ppc, ending, outcome,
                         buf_idx, cur, wbytes, wspt, wlen, pusers, written>>
      BY SMT DEF ChildGiveUp, ChildAt
    <2>2. ChildRingSame
      BY <2>1, SMT DEF ChildRingSame, Holds
    <2>3. InRing' = InRing /\ ParentTypes'
      BY <2>2, ChildRingSameKeeps
    <2>4. SharedTypes' /\ ChildTypes' /\ DriveTypes'
      BY <2>1, SMT DEF Inv, TypeOK, SharedTypes, ChildTypes, DriveTypes
    <2>5. ChildPlace'
      BY <2>1, <2>3, SMT DEF Inv, ChildPlace, ReaderLive, ReaderLoops
    <2>6. Users'
      BY <2>1, SMT DEF Inv, Users, UsersDrain
    <2> QED
      BY <2>1, <2>2, <2>3, <2>4, <2>5, <2>6, ChildRingSameKeeps DEF Inv, TypeOK
  \* ChildFill keeps the invariant: what fill_buf() returns is a good segment.
  <1>3. ASSUME ChildFill
        PROVE  Inv'
    <2> USE <1>3
    <2>1. PICK l \in ReadResults(tracks[trackno], rbytes) :
              /\ rlen' = l
              /\ bufp' = [bufp EXCEPT ![buf_idx_reader] = Segment(trackno, rbytes, l)]
      BY DEF ChildFill
    <2>2. UNCHANGED <<tracks, owner, users, fd, len, puts, gets, done, child,
                      buf_idx_reader, trackno, rbytes, closed, ppc, ending,
                      outcome, buf_idx, cur, wbytes, wspt, wlen, pusers, written, restores>>
      BY SMT DEF ChildFill
    <2>3. /\ cpc = "fill" /\ cpc' = "len" /\ buf_idx_reader \in Slots
          /\ trackno \in 1 .. Len(tracks) /\ rbytes \in Nat
          /\ rbytes <= tracks[trackno].filelen
          /\ rbytes > 0 => ReaderLoops(tracks[trackno], rbytes)
          /\ owner[buf_idx_reader] = "writer"
          /\ fd[buf_idx_reader] = tracks[trackno].fd
          /\ bufp \in [Slots -> [trk : Nat, off : Nat, len : Nat \cup {-1}]]
      BY SMT DEF ChildFill, ChildAt, Inv, TypeOK, SharedTypes, ChildTypes, ChildPlace,
         ReaderLive
    <2>4. /\ tracks[trackno].bytespt \in Nat /\ tracks[trackno].filelen \in Nat
          /\ tracks[trackno].tracksize \in Nat \cup {-1}
      BY <2>3, RowType DEF Inv
    <2>5. l = -1 \/ l = Lesser(ReaderAsks(tracks[trackno], rbytes),
                               tracks[trackno].filelen - rbytes)
      BY SMT DEF ReadResults
    <2>6. l \in Nat \cup {-1}
      BY <2>3, <2>4, <2>5, SMT DEF Lesser, ReaderAsks, ReaderLoops
    <2>7. Segment(trackno, rbytes, l) \in [trk : Nat, off : Nat, len : Nat \cup {-1}]
      BY <2>3, <2>6, SMT DEF Segment
    <2>8. /\ bufp' \in [Slots -> [trk : Nat, off : Nat, len : Nat \cup {-1}]]
          /\ bufp'[buf_idx_reader] = Segment(trackno, rbytes, l)
          /\ \A i \in Slots : i # buf_idx_reader => bufp'[i] = bufp[i]
      BY <2>1, <2>3, <2>7, SMT
    <2>9. ~InUse(buf_idx_reader) /\ InRing < N
      BY <2>3, CursorFree
    <2>10. FillsFree
      BY <2>2, <2>3, <2>8, <2>9, SMT DEF FillsFree
    <2>11. TypeOK'
      <3>1. SharedTypes'
        BY <2>2, <2>8, SMT DEF Inv, TypeOK, SharedTypes
      <3>2. ChildTypes'
        BY <2>1, <2>2, <2>3, <2>6, SMT DEF Inv, TypeOK, ChildTypes
      <3>3. ParentTypes' /\ DriveTypes'
        BY <2>2, SMT DEF Inv, TypeOK, ParentTypes, DriveTypes
      <3> QED
        BY <3>1, <3>2, <3>3 DEF TypeOK
    <2>12. ChildPlace'
      <3>1. InRing' = InRing
        BY <2>2, <2>3, SMT DEF InRing, Published, Released, Holds
      <3>2. GoodSegment(Segment(trackno, rbytes, l))
        BY <2>3, <2>5, SMT DEF GoodSegment, Segment
      <3>3. GoodSegment(bufp[buf_idx_reader])'
        BY <2>2, <2>8, <3>2, SMT DEF GoodSegment, ReaderLoops, ReaderAsks
      <3>4. bufp'[buf_idx_reader'] = Segment(trackno, rbytes, rlen)'
        BY <2>1, <2>2, <2>8 DEF Segment
      <3>5. ReaderLoops(tracks[trackno], rbytes)' <=> ReaderLoops(tracks[trackno], rbytes)
        BY <2>2 DEF ReaderLoops
      <3>6. done' = 0
        BY <2>2, <2>3, SMT DEF Inv, ChildPlace
      <3> QED
        BY <2>2, <2>3, <2>9, <3>1, <3>3, <3>4, <3>5, <3>6, SMT DEF ChildPlace, ReaderLive
    <2> QED
      BY <2>10, <2>11, <2>12, FillsFreeKeeps DEF Inv
  \* ChildStoreLen keeps the invariant.
  <1>4. ASSUME ChildStoreLen
        PROVE  Inv'
    <2> USE <1>4
    <2>1. /\ cpc = "len" /\ cpc' = "publish" /\ buf_idx_reader \in Slots
          /\ owner[buf_idx_reader] = "writer" /\ rlen \in Nat \cup {-1}
          /\ len' = [len EXCEPT ![buf_idx_reader] = rlen]
          /\ len \in [Slots -> Nat \cup {-1}]
      BY SMT DEF ChildStoreLen, ChildAt, Inv, TypeOK, SharedTypes, ChildTypes, ChildPlace
    <2>2. UNCHANGED <<tracks, owner, users, fd, bufp, puts, gets, done, child,
                      buf_idx_reader, trackno, rbytes, rlen, closed, ppc, ending,
                      outcome, buf_idx, cur, wbytes, wspt, wlen, pusers, written, restores>>
      BY SMT DEF ChildStoreLen
    <2>3. /\ len' \in [Slots -> Nat \cup {-1}]
          /\ len'[buf_idx_reader] = rlen
          /\ \A i \in Slots : i # buf_idx_reader => len'[i] = len[i]
      BY <2>1, SMT
    <2>4. ~InUse(buf_idx_reader)
      BY <2>1, CursorFree
    <2>5. FillsFree
      BY <2>1, <2>2, <2>3, <2>4, SMT DEF FillsFree
    <2>6. TypeOK'
      <3>1. SharedTypes'
        BY <2>2, <2>3, SMT DEF Inv, TypeOK, SharedTypes
      <3>2. ChildTypes'
        BY <2>1, <2>2, SMT DEF Inv, TypeOK, ChildTypes
      <3>3. ParentTypes' /\ DriveTypes'
        BY <2>2, SMT DEF Inv, TypeOK, ParentTypes, DriveTypes
      <3> QED
        BY <3>1, <3>2, <3>3 DEF TypeOK
    <2>7. ChildPlace'
      <3>1. InRing' = InRing
        BY <2>1, <2>2, SMT DEF InRing, Published, Released, Holds
      <3> QED
        BY <2>1, <2>2, <2>3, <3>1, SMT DEF Inv, ChildPlace, ReaderLive, GoodSegment,
           Segment, ReaderLoops, ReaderAsks
    <2> QED
      BY <2>5, <2>6, <2>7, FillsFreeKeeps DEF Inv
  \* ChildPublish keeps the invariant: the slot at the cursor becomes the last of
  \* the chain.
  <1>5. ASSUME ChildPublish
        PROVE  Inv'
    <2> USE <1>5
    <2> DEFINE c == buf_idx_reader
    <2>1. /\ cpc = "publish" /\ cpc' = "users" /\ owner' = [owner EXCEPT ![c] = "reader"]
          /\ UNCHANGED <<tracks, users, fd, len, bufp, puts, gets, done, child, closed,
                         buf_idx_reader, trackno, rbytes, rlen, ppc, ending, outcome,
                         buf_idx, cur, wbytes, wspt, wlen, pusers, written, restores>>
      BY SMT DEF ChildPublish, ChildAt
    <2>2. /\ c \in Slots /\ buf_idx \in Slots /\ trackno \in Nat /\ rbytes \in Nat
          /\ owner \in [Slots -> {"writer", "reader", "faio"}]
          /\ puts \in Nat /\ gets \in Nat
      BY SMT DEF Inv, TypeOK, SharedTypes, ChildTypes, ParentTypes
    <2>3. /\ owner[c] = "writer" /\ bufp[c] = Segment(trackno, rbytes, rlen)
          /\ GoodSegment(bufp[c]) /\ fd[c] = tracks[trackno].fd /\ len[c] = rlen
          /\ done = 0
      BY <2>1, SMT DEF Inv, ChildPlace
    <2>4. ~InUse(c) /\ InRing < N /\ Off(c) = InRing /\ InRing \in Nat
      BY <2>1, <2>3, CursorFree, SMT DEF Inv, Counters
    <2>5. /\ owner' \in [Slots -> {"writer", "reader", "faio"}]
          /\ owner'[c] = "reader" /\ \A i \in Slots : i # c => owner'[i] = owner[i]
      BY <2>1, <2>2, SMT
    <2>6. InRing' = InRing + 1 /\ Released' = Released /\ Holds' = Holds
      BY <2>1, <2>2, SMT DEF InRing, Published, Released, Holds
    <2>7. \A i \in Slots : /\ Off(i) \in Slots /\ Off(i)' = Off(i)
                           /\ InUse(i)' <=> InUse(i) \/ i = c
      BY <2>1, <2>2, <2>4, <2>6, NAssumption, SMT DEF Off, InUse, Slots
    <2>8. /\ ReaderPlace = Place(trackno, rbytes) /\ SlotPlace(c) = Place(trackno, rbytes)
          /\ ReaderPlace' = Behind(c)
      BY <2>1, <2>3, SMT DEF ReaderPlace, SlotPlace, Segment, Place, Behind, ReaderLoops
    <2>9. \A i \in Slots : /\ Behind(i)' = Behind(i) /\ SlotPlace(i)' = SlotPlace(i)
                           /\ Next1(i)' = Next1(i)
      BY <2>1, SMT DEF Behind, SlotPlace, Place, ReaderLoops, Next1
    <2>10. TypeOK'
      <3>1. SharedTypes'
        BY <2>1, <2>5, SMT DEF Inv, TypeOK, SharedTypes
      <3>2. ChildTypes'
        BY <2>1, SMT DEF Inv, TypeOK, ChildTypes
      <3>3. ParentTypes' /\ DriveTypes'
        BY <2>1, SMT DEF Inv, TypeOK, ParentTypes, DriveTypes
      <3> QED
        BY <3>1, <3>2, <3>3 DEF TypeOK
    <2>11. Counters'
      BY <2>1, <2>4, <2>6, NAssumption, SMT DEF Inv, Counters
    <2>12. Cursor'
      BY <2>1, <2>2, <2>4, <2>6, <2>7, SMT DEF Cursor
    <2>13. ChildPlace'
      BY <2>1, <2>3, SMT DEF Inv, ChildPlace, ReaderLive, ReaderLoops, GoodSegment,
         ReaderAsks, Segment
    <2>14. Holds \/ ppc = "check" => InRing > 0 /\ buf_idx # c
      <3>1. InRing > 0 => InUse(buf_idx)
        BY <2>2, <2>4, SMT DEF InUse, Off, Slots
      <3> QED
        BY <2>4, <3>1, SMT DEF Inv, ParentPlace
    <2>15. Owners'
      BY <2>1, <2>5, <2>6, <2>7, <2>14, SMT DEF Inv, Owners, Forced
    <2>16. Contents'
      BY <2>1, <2>3, <2>7, SMT DEF Inv, Contents, GoodSegment, ReaderLoops,
         ReaderAsks, Segment
    <2>17. Chain'
      <3>1. \A i \in Slots : InUse(i) /\ Off(i) + 1 = InRing => Next1(i) = c
        BY <2>2, <2>4, NAssumption, SMT DEF Off, Next1, Slots
      <3>2. \A i \in Slots : InUse(i) => IF Off(i) + 1 < InRing
                                THEN SlotPlace(Next1(i)) = Behind(i)
                                ELSE Behind(i) = SlotPlace(c)
        BY <2>8, SMT DEF Inv, Chain
      <3>3. \A i \in Slots : SlotPlace(Next1(i))' = SlotPlace(Next1(i))
        BY <2>1, SMT DEF SlotPlace, Place, Next1
      <3>4. ASSUME NEW i \in Slots, InUse(i)'
            PROVE  IF Off(i)' + 1 < InRing' THEN SlotPlace(Next1(i))' = Behind(i)'
                   ELSE Behind(i)' = ReaderPlace'
        <4>1. CASE i = c
          BY <2>2, <2>4, <2>6, <2>7, <2>8, <2>9, <4>1, SMT
        <4>2. CASE i # c /\ Off(i) + 1 < InRing
          BY <2>4, <2>6, <2>7, <2>9, <3>2, <3>3, <3>4, <4>2, NAssumption, SMT DEF Slots
        <4>3. CASE i # c /\ ~(Off(i) + 1 < InRing)
          <5>1. InUse(i) /\ Off(i) + 1 = InRing
            BY <2>4, <2>7, <3>4, <4>3, NAssumption, SMT DEF InUse, Slots
          <5> QED
            BY <2>4, <2>6, <2>7, <2>9, <3>1, <3>2, <3>3, <4>3, <5>1, SMT
        <4> QED
          BY <4>1, <4>2, <4>3
      <3> QED
        BY <3>4 DEF Chain
    <2>18. ParentPlace'
      <3>1. InRing = 0 => buf_idx = c
        BY <2>2, <2>4, NAssumption, SMT DEF Off, Slots
      <3>2. ~Holds => SlotPlace(buf_idx) = Place(cur, wbytes)
        BY <2>4, <2>8, <3>1, SMT DEF Inv, ParentPlace
      <3>3. ppc = "release" => Holds
        BY SMT DEF Inv, ParentPlace, Holds
      <3>4. /\ Place(cur, wbytes)' = Place(cur, wbytes)
            /\ Place(cur + 1, 0)' = Place(cur + 1, 0) /\ Place(cur, 0)' = Place(cur, 0)
            /\ SlotPlace(buf_idx)' = SlotPlace(buf_idx) /\ Behind(buf_idx)' = Behind(buf_idx)
        BY <2>1, SMT DEF Place, SlotPlace, Behind, ReaderLoops
      <3> QED
        BY <2>1, <2>2, <2>4, <2>5, <2>6, <2>14, <3>2, <3>3, <3>4, SMT
           DEF Inv, ParentPlace, InTrack, Segment
    <2>19. BlockSize'
      BY <2>1, SMT DEF Inv, BlockSize, InTrack, WriterAsks, WriterLoops
    <2>20. Users'
      BY <2>1, SMT DEF Inv, Users, UsersDrain
    <2> QED
      BY <2>10, <2>11, <2>12, <2>13, <2>15, <2>16, <2>17, <2>18, <2>19, <2>20 DEF Inv
  \* ChildStoreUsers keeps the invariant: users never exceeds one.
  <1>6. ASSUME ChildStoreUsers
        PROVE  Inv'
    <2> USE <1>6
    <2>1. /\ cpc = "users" /\ cpc' = "puts" /\ users' = [users EXCEPT ![buf_idx_reader] = 1]
          /\ UNCHANGED <<tracks, owner, fd, len, bufp, puts, gets, done, child, closed,
                         buf_idx_reader, trackno, rbytes, rlen, ppc, ending, outcome,
                         buf_idx, cur, wbytes, wspt, wlen, pusers, written, restores>>
      BY SMT DEF ChildStoreUsers, ChildAt
    <2>2. ChildRingSame
      BY <2>1, SMT DEF ChildRingSame, Holds
    <2>3. InRing' = InRing /\ ParentTypes'
      BY <2>2, ChildRingSameKeeps
    <2>4. buf_idx_reader \in Slots /\ users \in [Slots -> Int]
      BY SMT DEF Inv, TypeOK, SharedTypes, ChildTypes
    <2>5. users' \in [Slots -> Int] /\ \A i \in Slots : users'[i] <= 1
      BY <2>1, <2>4, SMT DEF Inv, Users
    <2>6. SharedTypes' /\ ChildTypes' /\ DriveTypes'
      BY <2>1, <2>5, SMT DEF Inv, TypeOK, SharedTypes, ChildTypes, DriveTypes
    <2>7. ChildPlace'
      BY <2>1, <2>3, SMT DEF Inv, ChildPlace, ReaderLive, ReaderLoops, GoodSegment,
         ReaderAsks, Segment
    <2>8. Users'
      BY <2>1, <2>5, SMT DEF Inv, Users, UsersDrain
    <2> QED
      BY <2>1, <2>2, <2>3, <2>6, <2>7, <2>8, ChildRingSameKeeps DEF Inv, TypeOK
  \* ChildCount keeps the invariant: the cursor moves to the next slot, and the
  \* place the child reads next is the one behind the segment it published.
  <1>7. ASSUME ChildCount
        PROVE  Inv'
    <2> USE <1>7
    <2> DEFINE c    == buf_idx_reader
               more == rlen > 0 /\ ReaderLoops(tracks[trackno], rbytes + rlen)
    <2>1. /\ cpc = "puts" /\ puts' = puts + 1 /\ buf_idx_reader' = Next1(c)
          /\ UNCHANGED <<tracks, owner, users, fd, len, bufp, gets, done, child,
                         rlen, ppc, ending, outcome, buf_idx, cur, wbytes, wspt,
                         wlen, pusers, written, restores>>
      BY SMT DEF ChildCount, ChildAt
    <2>2. /\ more => rbytes' = rbytes + rlen /\ cpc' = "wait" /\ trackno' = trackno
                     /\ closed' = closed
          /\ ~more => /\ closed' = closed \cup {tracks[trackno].fd}
                      /\ trackno' = trackno + 1 /\ rbytes' = 0
                      /\ cpc' = IF trackno = Len(tracks) THEN "done" ELSE "wait"
      BY SMT DEF ChildCount
    <2>3. /\ c \in Slots /\ buf_idx \in Slots /\ rbytes \in Nat /\ rlen \in Nat \cup {-1}
          /\ puts \in Nat /\ gets \in Nat /\ InRing \in 0 .. N /\ Len(tracks) \in Nat
          /\ trackno \in 1 .. Len(tracks)
          /\ bufp[c] = Segment(trackno, rbytes, rlen) /\ GoodSegment(bufp[c]) /\ done = 0
      BY <2>1, SMT DEF Inv, TypeOK, SharedTypes, ChildTypes, ParentTypes, Counters,
         ChildPlace, ReaderLive
    <2>4. /\ tracks[trackno].fd \in Nat /\ tracks[trackno].bytespt \in Nat
          /\ tracks[trackno].tracksize \in Nat \cup {-1}
          /\ tracks[trackno].filelen \in Nat
      BY <2>3, RowType DEF Inv
    <2>5. cpc' \in {"wait", "done"}
      BY <2>2
    <2>6. InRing' = InRing /\ Released' = Released /\ Holds' = Holds
      BY <2>1, <2>3, <2>5, SMT DEF InRing, Published, Released, Holds
    <2>7. ReaderPlace' = ReaderPlace
      <3>1. ReaderPlace = IF more THEN Place(trackno, rbytes + rlen)
                          ELSE Place(trackno + 1, 0)
        BY <2>1, <2>3, SMT DEF ReaderPlace, Behind, Segment
      <3>2. ReaderPlace' = Place(trackno', rbytes')
        BY <2>5, SMT DEF ReaderPlace, Place
      <3> QED
        BY <2>2, <3>1, <3>2
    <2>8. c' \in Slots
      BY <2>1, <2>3, NAssumption, SMT DEF Next1, Slots
    <2>9. TypeOK'
      <3>1. SharedTypes'
        BY <2>1, SMT DEF Inv, TypeOK, SharedTypes
      <3>2. closed' \subseteq Nat
        <4>1. closed \subseteq Nat
          BY DEF Inv, TypeOK, ChildTypes
        <4>2. closed' = closed \/ closed' = closed \cup {tracks[trackno].fd}
          BY <2>2
        <4> QED
          BY <2>4, <4>1, <4>2
      <3>3. rbytes' \in Nat /\ trackno' \in 1 .. Len(tracks) + 1
        BY <2>2, <2>3, SMT
      <3>4. ChildTypes'
        BY <2>1, <2>5, <2>8, <3>2, <3>3, SMT DEF Inv, TypeOK, ChildTypes
      <3>5. ParentTypes' /\ DriveTypes'
        BY <2>1, SMT DEF Inv, TypeOK, ParentTypes, DriveTypes
      <3> QED
        BY <3>1, <3>4, <3>5 DEF TypeOK
    <2>10. Counters'
      BY <2>1, <2>5, <2>6, SMT DEF Inv, Counters
    <2>11. Cursor'
      <3>1. \/ InRing > 0 /\ Off(c) = InRing - 1
            \/ InRing = 0 /\ Off(c) = N - 1
        BY <2>1, SMT DEF Inv, Cursor
      <3>2. Off(c)' = IF Off(c) = N - 1 THEN 0 ELSE Off(c) + 1
        BY <2>1, <2>3, NAssumption, SMT DEF Off, Next1, Slots
      <3> QED
        BY <2>3, <2>5, <2>6, <3>1, <3>2, NAssumption, SMT DEF Cursor
    <2>12. ChildPlace'
      <3>1. more => rbytes + rlen <= tracks[trackno].filelen
        BY <2>3, <2>4, SMT DEF GoodSegment, Segment, Lesser
      <3>2. trackno' <= Len(tracks) => tracks[trackno'].filelen \in Nat
        BY <2>2, <2>3, <2>4, RowType, SMT DEF Inv
      <3>3. /\ cpc' = "wait" =>
                /\ trackno' <= Len(tracks)
                /\ rbytes' <= tracks[trackno'].filelen
                /\ rbytes' > 0 => ReaderLoops(tracks[trackno'], rbytes')
            /\ cpc' = "done" => trackno' = Len(tracks) + 1 /\ rbytes' = 0
        BY <2>2, <2>3, <3>1, <3>2, SMT
      <3> QED
        BY <2>1, <2>3, <2>5, <3>3, SMT DEF ChildPlace, ReaderLive, ReaderLoops
    <2>13. \A i \in Slots : (InUse(i)' <=> InUse(i)) /\ Off(i)' = Off(i)
      BY <2>1, <2>6, SMT DEF InUse, Off
    <2>14. Owners'
      BY <2>1, <2>5, <2>6, <2>13, SMT DEF Inv, Owners, Forced
    <2>15. Contents'
      BY <2>1, <2>13, SMT DEF Inv, Contents, GoodSegment, ReaderLoops, ReaderAsks
    <2>16. Chain'
      BY <2>1, <2>6, <2>7, <2>13, SMT DEF Inv, Chain, SlotPlace, Behind, Place, Next1,
         ReaderLoops
    <2>17. ParentPlace'
      BY <2>1, <2>6, <2>7, SMT DEF Inv, ParentPlace, SlotPlace, Behind, Place, InTrack,
         Segment, ReaderLoops
    <2>18. BlockSize'
      BY <2>1, SMT DEF Inv, BlockSize, InTrack, WriterAsks, WriterLoops
    <2>19. Users'
      BY <2>1, SMT DEF Inv, Users, UsersDrain
    <2> QED
      BY <2>9, <2>10, <2>11, <2>12, <2>14, <2>15, <2>16, <2>17, <2>18, <2>19 DEF Inv
  \* ChildDone keeps the invariant.
  <1>8. ASSUME ChildDone
        PROVE  Inv'
    <2> USE <1>8
    <2>1. /\ cpc = "done" /\ cpc' = "gets" /\ done' = done + 1
          /\ UNCHANGED <<tracks, owner, users, fd, len, bufp, puts, gets, child, closed,
                         buf_idx_reader, trackno, rbytes, rlen, ppc, ending, outcome,
                         buf_idx, cur, wbytes, wspt, wlen, pusers, written, restores>>
      BY SMT DEF ChildDone, ChildAt
    <2>7. done = 0
      BY <2>1, SMT DEF Inv, ChildPlace
    <2>2. ChildRingSame
      BY <2>1, SMT DEF ChildRingSame, Holds
    <2>3. InRing' = InRing /\ ParentTypes'
      BY <2>2, ChildRingSameKeeps
    <2>4. SharedTypes' /\ ChildTypes' /\ DriveTypes'
      BY <2>1, <2>7, SMT DEF Inv, TypeOK, SharedTypes, ChildTypes, DriveTypes
    <2>5. ChildPlace'
      BY <2>1, <2>3, SMT DEF Inv, ChildPlace, ReaderLive
    <2>6. Users'
      BY <2>1, SMT DEF Inv, Users, UsersDrain
    <2> QED
      BY <2>1, <2>2, <2>3, <2>4, <2>5, <2>6, ChildRingSameKeeps DEF Inv, TypeOK
  \* ChildTestGets keeps the invariant: before the first get, what was put fits
  \* into the ring.
  <1>9. ASSUME ChildTestGets
        PROVE  Inv'
    <2> USE <1>9
    <2>1. /\ cpc = "gets" /\ cpc' = IF gets = 0 THEN "force" ELSE "exited"
          /\ UNCHANGED <<tracks, owner, users, fd, len, bufp, puts, gets, done, child,
                         closed, buf_idx_reader, trackno, rbytes, rlen, ppc, ending,
                         outcome, buf_idx, cur, wbytes, wspt, wlen, pusers, written,
                         restores>>
      BY SMT DEF ChildTestGets, ChildAt
    <2>2. ChildRingSame
      BY <2>1, SMT DEF ChildRingSame, Holds
    <2>3. InRing' = InRing /\ ParentTypes'
      BY <2>2, ChildRingSameKeeps
    <2>4. SharedTypes' /\ ChildTypes' /\ DriveTypes'
      BY <2>1, SMT DEF Inv, TypeOK, SharedTypes, ChildTypes, DriveTypes
    <2>5. cpc' = "force" => puts <= N
      <3>1. gets = 0 => InRing = puts
        BY <2>1, SMT DEF InRing, Published, Released, Holds, Inv, TypeOK, SharedTypes
      <3> QED
        BY <2>1, <3>1, SMT DEF Inv, Counters
    <2>6. ChildPlace'
      BY <2>1, <2>3, SMT DEF Inv, ChildPlace, ReaderLive
    <2>7. Users'
      BY <2>1, SMT DEF Inv, Users, UsersDrain
    <2> QED
      BY <2>2, <2>3, <2>4, <2>5, <2>6, <2>7, ChildRingSameKeeps DEF Inv, TypeOK
  \* ChildForceLast keeps the invariant: the parent is not about to release the
  \* slot whose owner word is overwritten.
  <1>10. ASSUME ChildForceLast
         PROVE  Inv'
    <2> USE <1>10
    <2>1. /\ cpc = "force" /\ cpc' = "exited" /\ owner' = [owner EXCEPT ![N - 1] = "reader"]
          /\ UNCHANGED <<tracks, users, fd, len, bufp, puts, gets, done, child, closed,
                         buf_idx_reader, trackno, rbytes, rlen, ppc, ending, outcome,
                         buf_idx, cur, wbytes, wspt, wlen, pusers, written, restores>>
      BY SMT DEF ChildForceLast, ChildAt
    <2>2. /\ buf_idx \in Slots /\ N - 1 \in Slots /\ puts \in Nat /\ gets \in Nat
          /\ owner \in [Slots -> {"writer", "reader", "faio"}] /\ puts <= N
      BY <2>1, NAssumption, SMT DEF Inv, TypeOK, SharedTypes, ParentTypes, Slots, Counters
    <2>3. /\ owner' \in [Slots -> {"writer", "reader", "faio"}]
          /\ owner'[N - 1] = "reader" /\ \A i \in Slots : i # N - 1 => owner'[i] = owner[i]
      BY <2>1, <2>2, SMT
    <2>4. /\ InRing' = InRing /\ Released' = Released /\ Holds' = Holds
          /\ ReaderPlace' = ReaderPlace /\ ReaderPlace = Place(Len(tracks) + 1, 0)
      BY <2>1, SMT DEF InRing, Published, Released, Holds, ReaderPlace, Place, Behind,
         ReaderLoops, Inv, ChildPlace, ReaderLive
    <2>5. \A i \in Slots : InUse(i)' <=> InUse(i)
      BY <2>1, <2>4, SMT DEF InUse, Off
    <2>6. ppc = "release" => buf_idx # N - 1
      <3> SUFFICES ASSUME ppc = "release", buf_idx = N - 1 PROVE FALSE
        OBVIOUS
      <3>1. /\ gets > 0 /\ Holds /\ InRing > 0 /\ cur <= Len(tracks)
            /\ Behind(buf_idx) = Place(cur, wbytes)
        BY SMT DEF Inv, ParentPlace, Holds, InTrack
      <3>2. Released = gets - 1 /\ InRing = puts - (gets - 1)
        BY <2>1, <3>1, SMT DEF Released, InRing, Published
      <3>3. gets - 1 = N - 1
        BY <2>2, <3>1, <3>2, NAssumption, SMT DEF Inv, Counters
      <3>4. InRing = 1
        BY <2>2, <3>1, <3>2, <3>3, NAssumption, SMT
      <3>5. Behind(buf_idx) = ReaderPlace
        BY <2>2, <3>4, SMT DEF Inv, Chain, InUse, Off, Slots
      <3>6. cur \in Nat /\ Len(tracks) \in Nat
        BY SMT DEF Inv, TypeOK, SharedTypes, ParentTypes
      <3> QED
        BY <2>4, <3>1, <3>5, <3>6, SMT DEF Place
    <2>7. TypeOK'
      <3>1. SharedTypes'
        BY <2>1, <2>3, SMT DEF Inv, TypeOK, SharedTypes
      <3>2. ChildTypes'
        BY <2>1, SMT DEF Inv, TypeOK, ChildTypes
      <3>3. ParentTypes' /\ DriveTypes'
        BY <2>1, SMT DEF Inv, TypeOK, ParentTypes, DriveTypes
      <3> QED
        BY <3>1, <3>2, <3>3 DEF TypeOK
    <2>8. Counters' /\ Cursor'
      BY <2>1, <2>4, SMT DEF Inv, Counters, Cursor, Off
    <2>9. ChildPlace'
      BY <2>1, SMT DEF Inv, ChildPlace, ReaderLive
    <2>10. Owners'
      BY <2>1, <2>2, <2>3, <2>4, <2>5, SMT DEF Inv, Owners, Forced
    <2>11. Contents'
      BY <2>1, <2>5, SMT DEF Inv, Contents, GoodSegment, ReaderLoops, ReaderAsks
    <2>12. Chain'
      BY <2>1, <2>4, SMT DEF Inv, Chain, InUse, Off, SlotPlace, Behind, Place, Next1,
         ReaderLoops
    <2>13. ParentPlace'
      BY <2>1, <2>2, <2>3, <2>4, <2>6, SMT DEF Inv, ParentPlace, SlotPlace, Behind,
         Place, InTrack, Segment, ReaderLoops
    <2>14. BlockSize'
      BY <2>1, SMT DEF Inv, BlockSize, InTrack, WriterAsks, WriterLoops
    <2>15. Users'
      BY <2>1, SMT DEF Inv, Users, UsersDrain
    <2> QED
      BY <2>7, <2>8, <2>9, <2>10, <2>11, <2>12, <2>13, <2>14, <2>15 DEF Inv
  <1> QED
    BY <1>1, <1>2, <1>3, <1>4, <1>5, <1>6, <1>7, <1>8, <1>9, <1>10
       DEF ChildStep

-----------------------------------------------------------------------------
(* The invariant from the fork on, and what follows from it.                *)

\* init_faio() and the fork establish the invariant: the ring is empty and both
\* processes stand at the beginning of the first track.
LEMMA InitInv ==
  ASSUME Init
  PROVE  Inv
  <1>1. /\ tracks \in Seq(Track) /\ tracks # << >> /\ Len(tracks) \in Nat
        /\ 1 \in 1 .. Len(tracks)
    BY TablesAssumption, SMT DEF Init
  <1>2. tracks[1].filelen \in Nat /\ tracks[1].bytespt \in Nat
    <2>1. tracks[1] \in Track
      BY <1>1, SMT
    <2> QED
      BY <2>1, SMT DEF Track
  <1>3. InRing = 0 /\ Released = 0 /\ ~Holds /\ Published = 0
    BY SMT DEF Init, InRing, Published, Released, Holds
  <1>4. 0 \in Slots
    BY NAssumption, SMT DEF Slots
  <1>5. SharedTypes
    <2>1. Segment(0, 0, 0) \in [trk : Nat, off : Nat, len : Nat \cup {-1}]
      BY SMT DEF Segment
    <2> QED
      BY <1>1, <2>1, SMT DEF Init, SharedTypes, NoFd
  <1>6. ChildTypes /\ ParentTypes
    BY <1>1, <1>4, SMT DEF Init, ChildTypes, ParentTypes, Phases
  <1>7. DriveTypes
    BY SMT DEF Init, DriveTypes
  <1>8. Counters /\ Cursor
    BY <1>3, NAssumption, SMT DEF Init, Counters, Cursor, Off
  <1>9. ChildPlace
    BY <1>1, <1>2, SMT DEF Init, ChildPlace, ReaderLive
  <1>10. \A i \in Slots : ~InUse(i)
    BY <1>3, SMT DEF Init, InUse, Off, Slots
  <1>11. Owners /\ Contents /\ Chain
    BY <1>10, SMT DEF Init, Owners, Contents, Chain
  <1>12. ParentPlace
    BY <1>1, <1>3, SMT DEF Init, ParentPlace, ReaderPlace, InTrack
  <1>13. BlockSize /\ Users
    BY SMT DEF Init, BlockSize, Users, UsersDrain, InTrack
  <1> QED
    BY <1>5, <1>6, <1>7, <1>8, <1>9, <1>11, <1>12, <1>13 DEF Inv, TypeOK

\* Every step keeps the invariant.
LEMMA NextInv ==
  ASSUME Inv, [Next]_vars
  PROVE  Inv'
  <1>1. CASE ChildStep
    BY <1>1, ChildKeeps
  <1>2. CASE ParentStep \/ ParentInterrupt
    BY <1>2, ParentKeeps
  <1>3. CASE UNCHANGED vars
    <2>1. RingSame /\ UNCHANGED <<users, closed, child, ppc, ending, outcome, cur,
                                  wbytes, wspt, wlen, pusers, written, restores>>
      BY <1>3, SMT DEF vars, memory, slotVars, segVars, statVars, parentSide, childVars,
         childLocals, parentVars, parentCtl, parentLocals, driveVars, RingSame, Holds
    <2>2. ReaderPlace' = ReaderPlace /\ InRing' = InRing /\ Holds' = Holds
      BY <2>1, RingSameKeeps DEF RingSame
    <2>3. SharedTypes' /\ ChildTypes' /\ ParentTypes' /\ DriveTypes'
      BY <2>1, SMT DEF RingSame, Inv, TypeOK, SharedTypes, ChildTypes, ParentTypes,
         DriveTypes
    <2>4. ParentPlace'
      BY <2>1, <2>2, SMT DEF RingSame, Inv, ParentPlace, SlotPlace, Behind, Place,
         InTrack, Segment, ReaderLoops
    <2>5. BlockSize' /\ Users'
      BY <2>1, SMT DEF RingSame, Inv, BlockSize, InTrack, WriterLoops, WriterAsks,
         Users, UsersDrain
    <2> QED
      BY <2>1, <2>3, <2>4, <2>5, RingSameKeeps DEF Inv, TypeOK
  <1> QED
    BY <1>1, <1>2, <1>3 DEF Next, Idle

\* The inductive invariant holds in every reachable state.
THEOREM Invariant == Spec => []Inv
  <1>1. Init => Inv
    BY InitInv
  <1>2. Inv /\ [Next]_vars => Inv'
    BY NextInv
  <1> QED
    BY <1>1, <1>2, PTL DEF Spec

\* Every variable keeps its type; in particular both indices stay in the ring.
THEOREM TypeCorrect == Spec => []TypeOK
  <1>1. Inv => TypeOK
    BY DEF Inv
  <1> QED
    BY <1>1, Invariant, PTL

\* The child never fills the slot the parent is looking at or writing from.
THEOREM SlotsExclusive == Spec => []SlotExclusive
  <1>1. ASSUME Inv PROVE SlotExclusive
    <2>1. SUFFICES ASSUME cpc \in {"fill", "len", "publish"}, Holds \/ ppc = "check"
                   PROVE  buf_idx_reader # buf_idx
      BY DEF SlotExclusive, ChildAt
    <2>2. owner[buf_idx_reader] = "writer"
      BY <1>1, <2>1 DEF Inv, ChildPlace
    <2>3. ~InUse(buf_idx_reader)
      BY <1>1, <2>1, <2>2, CursorFree
    <2>4. InRing > 0 /\ buf_idx \in Slots /\ InRing \in Int
      BY <1>1, <2>1, SMT DEF Inv, ParentPlace, TypeOK, ParentTypes, Counters
    <2>5. InUse(buf_idx)
      BY <2>4, SMT DEF InUse, Off, Slots
    <2> QED
      BY <2>3, <2>5
  <1> QED
    BY <1>1, Invariant, PTL

\* What the parent gets is what it is about to ask for, and stays so until it
\* has been written: the fatal branches of faio_get_buf() are dead code.
THEOREM SegmentsAgreed == Spec => []SegmentAgreed
  <1>1. ASSUME Inv PROVE SegmentAgreed
    <2>1. SUFFICES ASSUME ppc \in {"check", "users", "decr", "faio", "use"}
                   PROVE  /\ bufp[buf_idx] = Segment(cur, wbytes, wlen)
                          /\ fd[buf_idx] = tracks[cur].fd
                          /\ len[buf_idx] = wlen
                          /\ wlen <= WriterAsks(tracks[cur], wbytes, wspt)
      BY <1>1 DEF SegmentAgreed, Inv, BlockSize
    <2>2. /\ bufp[buf_idx] = Segment(cur, wbytes, wlen) /\ InRing > 0
          /\ buf_idx \in Slots /\ InRing \in Int
      BY <1>1, <2>1, SMT DEF Inv, ParentPlace, Holds, TypeOK, ParentTypes, Counters
    <2>3. InUse(buf_idx)
      BY <2>2, SMT DEF InUse, Off, Slots
    <2>4. fd[buf_idx] = tracks[cur].fd /\ len[buf_idx] = wlen
      BY <1>1, <2>2, <2>3, SMT DEF Inv, Contents, Segment
    <2>5. wlen <= WriterAsks(tracks[cur], wbytes, wspt)
      <3>1. CASE ppc = "check"
        BY <1>1, <3>1, CheckAgrees
      <3>2. CASE ppc # "check"
        BY <1>1, <2>1, <3>2 DEF Inv, BlockSize
      <3> QED
        BY <3>1, <3>2
    <2> QED
      BY <2>2, <2>4, <2>5
  <1> QED
    BY <1>1, Invariant, PTL

\* The decrement of f->users always gives the slot up.
THEOREM UsersDrained == Spec => []UsersDrain
  <1>1. Inv => UsersDrain
    BY DEF Inv, Users
  <1> QED
    BY <1>1, Invariant, PTL

-----------------------------------------------------------------------------
(* The ring implements the channel FaioPipe.                                *)

\* The slot that is j slots after buf_idx, and the number of segments on the way.
At(j) == IF buf_idx + j < N THEN buf_idx + j ELSE (buf_idx + j) - N
Waiting == Published - gets

Seg == [trk : Nat, off : Nat, len : Nat \cup {-1}]

\* The segments on the way are those of the occupied slots, the held one left out.
Flight ==
    /\ Waiting \in Nat /\ Loan \in {0, 1} /\ InRing = Waiting + Loan
    /\ InFlight \in Seq(Seg) /\ Len(InFlight) = Waiting
    /\ \A k \in 1 .. Waiting :
          /\ At(Loan + k - 1) \in Slots /\ InUse(At(Loan + k - 1))
          /\ (buf_idx + Loan + k - 1) % N = At(Loan + k - 1)
          /\ InFlight[k] = bufp[At(Loan + k - 1)]

\* The refinement mapping reads the channel off the ring.
LEMMA FlightIs == Inv => Flight
  <1> SUFFICES ASSUME Inv PROVE Flight
    OBVIOUS
  <1>1. /\ puts \in Nat /\ gets \in Nat /\ InRing \in 0 .. N /\ (Holds => InRing > 0)
        /\ buf_idx \in Slots /\ bufp \in [Slots -> Seg] /\ (Holds => gets > 0)
    BY SMT DEF Inv, TypeOK, SharedTypes, ParentTypes, Counters, ParentPlace, Holds, Seg
  <1>2. Waiting \in Nat /\ Loan \in {0, 1} /\ InRing = Waiting + Loan
    BY <1>1, SMT DEF Waiting, Loan, InRing, Published, Released
  <1>3. ASSUME NEW k \in 1 .. Waiting
        PROVE  /\ At(Loan + k - 1) \in Slots /\ InUse(At(Loan + k - 1))
               /\ (buf_idx + Loan + k - 1) % N = At(Loan + k - 1)
    <2> DEFINE j == Loan + k - 1
    <2>1. j \in Nat /\ j < InRing /\ j < N /\ buf_idx + Loan + k - 1 = buf_idx + j
      BY <1>1, <1>2, NAssumption, SMT DEF Slots
    <2> HIDE DEF j
    <2>2. At(j) \in Slots /\ Off(At(j)) = j
      BY <1>1, <2>1, NAssumption, SMT DEF At, Off, Slots
    <2>3. (buf_idx + j) % N = At(j)
      <3>1. buf_idx + j \in Nat /\ buf_idx + j < 2 * N
        BY <1>1, <2>1, NAssumption, SMT DEF Slots
      <3> QED
        BY <3>1, NAssumption, SMT DEF At
    <2> QED
      BY <2>1, <2>2, <2>3 DEF InUse, j
  <1>4. \A k \in 1 .. Waiting : /\ InFlight[k] = bufp[At(Loan + k - 1)]
                                /\ InFlight[k] \in Seg
    <2> TAKE k \in 1 .. Waiting
    <2>1. InFlight[k] = bufp[(buf_idx + Loan + k - 1) % N]
      BY DEF InFlight, Waiting
    <2> QED
      BY <1>1, <1>3, <2>1
  <1>5. InFlight \in [1 .. Waiting -> Seg]
    <2>1. InFlight = [k \in 1 .. Waiting |-> InFlight[k]]
      BY DEF InFlight, Waiting
    <2> QED
      BY <1>4, <2>1
  <1>6. InFlight \in Seq(Seg)
    BY <1>2, <1>5, SeqDef
  <1>7. Len(InFlight) = Waiting
    <2>1. DOMAIN InFlight = 1 .. Waiting /\ DOMAIN InFlight = 1 .. Len(InFlight)
          /\ Len(InFlight) \in Nat
      BY <1>5, <1>6, LenProperties
    <2> QED
      BY <1>2, <2>1, SMT
  <1> QED
    BY <1>2, <1>3, <1>4, <1>6, <1>7 DEF Flight

\* A step that leaves the occupied slots, the counters and the two places alone
\* does nothing to the channel.
Quiet ==
    /\ UNCHANGED <<tracks, gets, buf_idx>>
    /\ Published' = Published /\ Holds' = Holds /\ ReaderPlace' = ReaderPlace
    /\ \A i \in Slots : InUse(i) => bufp'[i] = bufp[i]
    /\ Holds \/ Place(cur, wbytes)' = Place(cur, wbytes)

\* What a step of the program does to the channel: the child's publication of a
\* slot is the channel's Put, the parent's successful check of one its Take, giving
\* the held slot back its Return, and every other step leaves the channel alone.
LEMMA StepSimulated ==
  ASSUME Inv, Inv', [Next]_vars
  PROVE  [Pipe!Next]_(Pipe!pipeVars)
  <1>1. ASSUME ChildPublish
        PROVE  Pipe!Put
    <2> USE <1>1
    <2> DEFINE c == buf_idx_reader
               s == bufp[c]
    <2>1. /\ cpc = "publish" /\ cpc' = "users"
          /\ UNCHANGED <<tracks, bufp, puts, gets, buf_idx_reader, trackno, rbytes, ppc,
                         buf_idx, cur, wbytes>>
      BY SMT DEF ChildPublish, ChildAt
    <2>2. /\ owner[c] = "writer" /\ s = Segment(trackno, rbytes, rlen) /\ GoodSegment(s)
          /\ trackno <= Len(tracks)
      BY <2>1, SMT DEF Inv, ChildPlace, ReaderLive
    <2>3. InRing < N /\ Off(c) = InRing
      BY <2>1, <2>2, CursorFree
    <2>4. c \in Slots /\ buf_idx \in Slots /\ bufp \in [Slots -> Seg] /\ s \in Seg
      BY SMT DEF Inv, TypeOK, ChildTypes, ParentTypes, SharedTypes, Seg
    <2>5. Flight /\ Flight'
      BY FlightIs, PTL
    <2>6. Holds' = Holds /\ Loan' = Loan /\ Published' = Published + 1 /\ Waiting' = Waiting + 1
      BY <2>1, <2>5, SMT DEF Holds, Loan, Published, Waiting, Inv, TypeOK, SharedTypes
    <2>7. At(Loan + Waiting) = c
      BY <2>3, <2>4, <2>5, NAssumption, SMT DEF At, Off, Slots, Flight
    <2>8. InFlight' = Append(InFlight, s)
      <3> DEFINE t == Append(InFlight, s)
                 n == Waiting
                 a(k) == At(Loan + k - 1)
      <3>1. /\ t \in Seq(Seg) /\ Len(t) = n + 1 /\ t[n + 1] = s
            /\ \A k \in 1 .. n : t[k] = bufp[a(k)]
        BY <2>4, <2>5, AppendProperties DEF Flight
      <3>2. \A j : At(j)' = At(j)
        BY <2>1 DEF At
      <3>3. /\ InFlight' \in Seq(Seg) /\ Len(InFlight') = n + 1
            /\ \A k \in 1 .. n + 1 : InFlight'[k] = bufp[a(k)]
        BY <2>1, <2>5, <2>6, <3>2 DEF Flight
      <3>4. n \in Nat /\ a(n + 1) = c
        BY <2>5, <2>7, SMT DEF Flight
      <3> HIDE DEF t, n, a
      <3>5. \A k \in 1 .. n + 1 : InFlight'[k] = t[k]
        BY <3>1, <3>3, <3>4, SMT
      <3>6. InFlight' = t
        BY <3>1, <3>3, <3>5, SeqEqual
      <3> QED
        BY <3>6 DEF t
    <2>9. /\ ReaderPlace = Place(trackno, rbytes) /\ ReaderPlace' = Pipe!After(s)
          /\ s \in Pipe!SegmentsAt(ReaderPlace)
      <3>1. ReaderPlace = Place(trackno, rbytes)
        BY <2>1 DEF ReaderPlace
      <3>2. ReaderPlace' = Pipe!After(s)
        BY <2>1 DEF ReaderPlace, Behind, Place, ReaderLoops, Pipe!After, Pipe!Position
      <3>3. s \in Pipe!SegmentsAt(Place(trackno, rbytes))
        BY <2>2 DEF GoodSegment, Segment, Place, Pipe!SegmentsAt, ReaderAsks, Lesser,
           Pipe!Smaller
      <3> QED
        BY <3>1, <3>2, <3>3
    <2>10. WriterPlace' = WriterPlace
      BY <2>1, <2>6 DEF WriterPlace, Behind, Place, ReaderLoops
    <2>11. Len(InFlight) + Loan < N
      BY <2>3, <2>5 DEF Flight
    <2>12. ReaderPlace.trk <= Len(tracks)
      BY <2>2, <2>9 DEF Place
    <2> QED
      BY <2>1, <2>6, <2>8, <2>9, <2>10, <2>11, <2>12 DEF Pipe!Put
  <1>2. ASSUME ParentCheck
        PROVE  Pipe!Take
    <2> USE <1>2
    <2>1. /\ ppc = "check" /\ ppc' = "users" /\ gets' = gets + 1
          /\ UNCHANGED <<tracks, bufp, puts, cpc, buf_idx_reader, trackno, rbytes, buf_idx>>
      <3>1. /\ ppc = "check"
            /\ UNCHANGED <<tracks, bufp, puts, cpc, buf_idx_reader, trackno, rbytes, buf_idx>>
        BY SMT DEF ParentCheck, ParentAt
      <3>2. fd[buf_idx] = tracks[cur].fd /\ wlen <= WriterAsks(tracks[cur], wbytes, wspt)
        BY <3>1, CheckAgrees
      <3>3. cur \in 1 .. Len(tracks) /\ wspt \in Nat /\ wbytes \in Nat /\ wlen \in Int
        BY <3>1, SMT DEF Inv, TypeOK, SharedTypes, ParentTypes, ParentPlace, InTrack
      <3>4. tracks[cur].bytespt \in Nat /\ tracks[cur].tracksize \in Nat \cup {-1}
        BY <3>3, RowType DEF Inv
      <3>5. ~(WriterAsks(tracks[cur], wbytes, wspt) < wlen)
        BY <3>2, <3>3, <3>4, SMT DEF WriterAsks, Lesser
      <3> QED
        BY <3>1, <3>2, <3>5 DEF ParentCheck
    <2>2. Flight /\ Flight'
      BY FlightIs, PTL
    <2>3. ~Holds /\ InRing > 0 /\ Holds'
      BY <2>1, CheckAgrees, SMT DEF Holds, Inv, TypeOK, SharedTypes
    <2>4. /\ Loan = 0 /\ Loan' = 1 /\ Waiting' = Waiting - 1 /\ Waiting > 0 /\ Waiting \in Nat
          /\ buf_idx \in Slots
      BY <2>1, <2>2, <2>3, SMT DEF Loan, Waiting, Published, Flight, Inv, TypeOK, SharedTypes,
         ParentTypes
    <2>5. InFlight \in Seq(Seg) /\ Len(InFlight) = Waiting /\ InFlight # << >>
      BY <2>2, <2>4, SMT DEF Flight
    <2>6. Head(InFlight) = bufp[buf_idx]
      <3>1. InFlight[1] = bufp[At(0)]
        BY <2>2, <2>4, SMT DEF Flight
      <3>2. At(0) = buf_idx
        BY <2>4, NAssumption, SMT DEF At, Slots
      <3> QED
        BY <2>5, <3>1, <3>2, SMT
    <2>7. InFlight' = Tail(InFlight)
      <3> DEFINE t == Tail(InFlight)
                 n == Waiting - 1
      <3>1. /\ t \in Seq(Seg) /\ Len(t) = n /\ \A k \in 1 .. n : t[k] = InFlight[k + 1]
        BY <2>5, HeadTailProperties
      <3>2. \A k \in 1 .. Waiting : InFlight[k] = bufp[At(k - 1)]
        BY <2>2, <2>4, SMT DEF Flight
      <3>3. \A j : At(j)' = At(j)
        BY <2>1 DEF At
      <3>4. /\ InFlight' \in Seq(Seg) /\ Len(InFlight') = n
            /\ \A k \in 1 .. n : InFlight'[k] = bufp[At(1 + k - 1)]
        BY <2>1, <2>2, <2>4, <3>3 DEF Flight
      <3> HIDE DEF t
      <3>5. ASSUME NEW k \in 1 .. n
            PROVE  InFlight'[k] = t[k]
        <4>1. k + 1 \in 1 .. Waiting /\ (k + 1) - 1 = 1 + k - 1
          BY <2>4, SMT
        <4>2. t[k] = bufp[At((k + 1) - 1)]
          BY <3>1, <3>2, <4>1
        <4> QED
          BY <3>4, <4>1, <4>2
      <3>6. InFlight' = t
        BY <3>1, <3>4, <3>5, SeqEqual
      <3> QED
        BY <3>6 DEF t
    <2>8. /\ WriterPlace = Place(cur, wbytes) /\ bufp[buf_idx] = Segment(cur, wbytes, wlen)
          /\ WriterPlace' = Pipe!After(bufp[buf_idx])
      <3>1. WriterPlace = Place(cur, wbytes) /\ WriterPlace' = Behind(buf_idx)'
        BY <2>3 DEF WriterPlace
      <3>2. Behind(buf_idx)' = Pipe!After(bufp[buf_idx])
        BY <2>1 DEF Behind, Place, ReaderLoops, Pipe!After, Pipe!Position
      <3>3. bufp[buf_idx] = Segment(cur, wbytes, wlen)
        BY <2>1 DEF Inv, ParentPlace
      <3> QED
        BY <3>1, <3>2, <3>3
    <2>9. Pipe!Position(Head(InFlight).trk, Head(InFlight).off) = WriterPlace
      BY <2>6, <2>8 DEF Segment, Place, Pipe!Position
    <2>10. ReaderPlace' = ReaderPlace
      BY <2>1 DEF ReaderPlace, Behind, Place, ReaderLoops
    <2> QED
      BY <2>1, <2>4, <2>5, <2>6, <2>7, <2>8, <2>9, <2>10 DEF Pipe!Take
  <1>3. ASSUME ParentRelease
        PROVE  Pipe!Return
    <2> USE <1>3
    <2>1. /\ ppc = "release" /\ ppc' = "wait" /\ buf_idx' = Next1(buf_idx)
          /\ UNCHANGED <<tracks, bufp, puts, gets, cpc, buf_idx_reader, trackno, rbytes, cur,
                         wbytes>>
      BY SMT DEF ParentRelease, ParentAt
    <2>2. Flight /\ Flight'
      BY FlightIs, PTL
    <2>3. Holds /\ ~Holds' /\ Behind(buf_idx) = Place(cur, wbytes)
      BY <2>1, SMT DEF Holds, Inv, ParentPlace
    <2>4. Loan = 1 /\ Loan' = 0 /\ Waiting' = Waiting /\ buf_idx \in Slots
      BY <2>1, <2>3, SMT DEF Loan, Waiting, Published, Inv, TypeOK, ParentTypes
    <2>5. InFlight' = InFlight
      <3>1. Waiting \in Nat /\ Waiting < N
        BY <2>2, <2>4, NAssumption, SMT DEF Flight, Inv, Counters
      <3>2. \A k \in 1 .. Waiting : At(k - 1)' = At(1 + k - 1)
        BY <2>1, <2>4, <3>1, NAssumption, SMT DEF At, Next1, Slots
      <3>3. \A k \in 1 .. Waiting : InFlight'[k] = bufp[At(k - 1)']
        BY <2>1, <2>2, <2>4, SMT DEF Flight
      <3>4. \A k \in 1 .. Waiting : InFlight[k] = bufp[At(1 + k - 1)]
        BY <2>2, <2>4 DEF Flight
      <3>5. /\ InFlight' \in Seq(Seg) /\ Len(InFlight') = Waiting
            /\ InFlight \in Seq(Seg) /\ Len(InFlight) = Waiting
        BY <2>2, <2>4 DEF Flight
      <3> QED
        BY <3>2, <3>3, <3>4, <3>5, SeqEqual
    <2>6. WriterPlace' = WriterPlace
      BY <2>1, <2>3 DEF WriterPlace, Place
    <2>7. ReaderPlace' = ReaderPlace
      BY <2>1 DEF ReaderPlace, Behind, Place, ReaderLoops
    <2> QED
      BY <2>1, <2>4, <2>5, <2>6, <2>7 DEF Pipe!Return
  <1>4. ASSUME ~ChildPublish, ~ParentCheck, ~ParentRelease
        PROVE  Quiet
    <2> USE <1>4
    <2>1. puts \in Nat /\ gets \in Nat
      BY SMT DEF Inv, TypeOK, SharedTypes
    <2>2. CASE ChildStep
      <3>1. UNCHANGED <<tracks, gets, buf_idx, ppc, cur, wbytes>>
        BY <2>2, SMT DEF ChildStep, ChildAcquire, ChildGiveUp, ChildFill, ChildStoreLen,
           ChildStoreUsers, ChildCount, ChildDone, ChildTestGets, ChildForceLast
      <3>2. Published' = Published
        BY <2>1, <2>2, SMT DEF ChildStep, ChildAcquire, ChildGiveUp, ChildFill, ChildStoreLen,
           ChildStoreUsers, ChildCount, ChildDone, ChildTestGets, ChildForceLast, Published,
           ChildAt
      <3>3. ReaderPlace' = ReaderPlace /\ \A i \in Slots : InUse(i) => bufp'[i] = bufp[i]
        <4>1. CASE ChildFill
          <5>1. ~InUse(buf_idx_reader) /\ cpc = "fill"
            BY <4>1, CursorFree DEF ChildFill, ChildAt, Inv, ChildPlace
          <5>2. /\ \A i \in Slots : i # buf_idx_reader => bufp'[i] = bufp[i]
                /\ cpc' = "len" /\ UNCHANGED <<trackno, rbytes>>
            BY <4>1, SMT DEF ChildFill, Inv, TypeOK, SharedTypes
          <5> QED
            BY <5>1, <5>2 DEF ReaderPlace
        <4>2. CASE ChildCount
          <5>1. /\ cpc = "puts" /\ bufp[buf_idx_reader] = Segment(trackno, rbytes, rlen)
                /\ cpc' \notin {"users", "puts"} /\ UNCHANGED bufp
            BY <4>2, SMT DEF ChildCount, ChildAt, Inv, ChildPlace
          <5>2. Behind(buf_idx_reader) = Place(trackno', rbytes')
            BY <4>2, <5>1, SMT DEF ChildCount, Behind, Segment, Place
          <5> QED
            BY <5>1, <5>2 DEF ReaderPlace
        <4>3. CASE \/ ChildAcquire \/ ChildGiveUp \/ ChildStoreLen \/ ChildStoreUsers
                   \/ ChildDone \/ ChildTestGets \/ ChildForceLast
          <5>1. /\ UNCHANGED <<bufp, buf_idx_reader, trackno, rbytes, tracks>>
                /\ cpc \in {"users", "puts"} <=> cpc' \in {"users", "puts"}
            BY <4>3, SMT DEF ChildAcquire, ChildGiveUp, ChildStoreLen, ChildStoreUsers,
               ChildDone, ChildTestGets, ChildForceLast, ChildAt
          <5> QED
            BY <5>1 DEF ReaderPlace, Behind, Place, ReaderLoops
        <4> QED
          BY <2>2, <4>1, <4>2, <4>3 DEF ChildStep
      <3> QED
        BY <3>1, <3>2, <3>3 DEF Quiet, Holds, Place
    <2>3. CASE ParentStep \/ ParentInterrupt
      <3>1. UNCHANGED <<tracks, puts, gets, cpc, bufp, buf_idx_reader, trackno, rbytes, buf_idx>>
        BY <2>3, SMT DEF ParentStep, ParentInterrupt, ParentLastTest, ParentStart,
           ParentAwait, ParentSession,
           ParentOpenTrack, ParentLastTrack, ParentGet, ParentAcquire, ParentGiveUp,
           ParentLoadUsers, ParentStoreUsers, ParentHold, ParentReadError,
           ParentEndOfInput,
           ParentWrite, ParentLoop, ParentCloseTrack, ParentFix, ParentNoted,
           ParentRestore, ParentKill
      <3>2. Holds' = Holds
        <4>1. CASE ParentGet
          <5>1. ppc = "get" /\ ppc' = IF owner[buf_idx] = "faio" THEN "release" ELSE "wait"
            BY <4>1 DEF ParentGet, ParentAt
          <5> QED
            BY <3>1, <5>1, GetSeesFaio DEF Holds
        <4>2. CASE ~ParentGet
          <5>1. ASSUME ParentSession \/ ParentOpenTrack \/ ParentWrite \/ ParentLoop
                       \/ ParentCloseTrack \/ ParentStoreUsers
                PROVE  ppc \notin {"wait", "check"} /\ ppc' \notin {"wait", "check"}
            BY <5>1, SMT DEF ParentSession, ParentOpenTrack, ParentWrite, ParentLoop,
               ParentCloseTrack, ParentStoreUsers, ParentAt, WriteSecs
          <5>2. ASSUME ParentLastTest \/ ParentStart \/ ParentAwait
                       \/ ParentLastTrack \/ ParentLoadUsers
                       \/ ParentHold \/ ParentEndOfInput \/ ParentAcquire
                PROVE  ppc \in {"wait", "check"} <=> ppc' \in {"wait", "check"}
            BY <5>2, SMT DEF ParentLastTest, ParentStart, ParentAwait, ParentLastTrack,
               ParentLoadUsers,
               ParentHold, ParentEndOfInput, ParentAcquire, ParentAt
          <5>3. ASSUME ParentGiveUp \/ ParentReadError \/ ParentFix \/ ParentNoted
                       \/ ParentRestore
                       \/ ParentKill \/ ParentInterrupt
                PROVE  ppc' = ppc
            BY <5>3, SMT DEF ParentGiveUp, ParentReadError, ParentFix, ParentNoted,
               ParentRestore,
               ParentKill, ParentInterrupt
          <5> QED
            BY <2>3, <3>1, <4>2, <5>1, <5>2, <5>3 DEF Holds, ParentStep
        <4> QED
          BY <4>1, <4>2
      <3>3. Holds \/ UNCHANGED <<cur, wbytes>>
        <4>1. CASE ParentOpenTrack
          <5>1. ppc = "open" /\ cur' = cur /\ wbytes' \in {0, wbytes}
            BY <4>1, SMT DEF ParentOpenTrack, ParentAt
          <5> QED
            BY <2>1, <5>1, SMT DEF Holds, Inv, ParentPlace
        <4>2. CASE ParentWrite \/ ParentCloseTrack
          BY <4>2 DEF ParentWrite, ParentCloseTrack, ParentAt, Holds, Inv, ParentPlace
        <4>3. CASE ~ParentOpenTrack /\ ~ParentWrite /\ ~ParentCloseTrack
          BY <2>3, <4>3, SMT DEF ParentStep, ParentInterrupt, ParentLastTest,
             ParentStart, ParentAwait,
             ParentSession, ParentLastTrack, ParentGet, ParentAcquire, ParentGiveUp,
             ParentLoadUsers, ParentStoreUsers, ParentHold, ParentReadError,
             ParentEndOfInput, ParentLoop, ParentFix, ParentNoted, ParentRestore,
             ParentKill
        <4> QED
          BY <4>1, <4>2, <4>3
      <3> QED
        BY <3>1, <3>2, <3>3 DEF Quiet, Published, ReaderPlace, Behind, Place, ReaderLoops
    <2>4. CASE UNCHANGED vars
      BY <2>4 DEF vars, Quiet, Published, ReaderPlace, Behind, Place, ReaderLoops, Holds
    <2> QED
      BY <2>2, <2>3, <2>4 DEF Next, Idle
  <1>5. ASSUME Quiet
        PROVE  UNCHANGED Pipe!pipeVars
    <2> USE <1>5
    <2>1. Flight /\ Loan' = Loan
      BY FlightIs DEF Loan, Quiet
    <2>2. InFlight' = InFlight
      <3>1. \A k \in 1 .. Published - gets :
              bufp'[(buf_idx + Loan + k - 1) % N] = bufp[(buf_idx + Loan + k - 1) % N]
        BY <2>1 DEF Flight, Quiet, Waiting
      <3> QED
        BY <2>1, <3>1 DEF InFlight, Quiet
    <2>3. WriterPlace' = WriterPlace
      <3>1. CASE Holds
        <4>1. InRing > 0 /\ InRing \in Int /\ buf_idx \in Slots
          BY <3>1, SMT DEF Inv, ParentPlace, Counters, TypeOK, ParentTypes
        <4>2. InUse(buf_idx)
          BY <4>1, SMT DEF InUse, Off, Slots
        <4>3. bufp'[buf_idx] = bufp[buf_idx]
          BY <4>1, <4>2 DEF Quiet
        <4> QED
          BY <3>1, <4>3 DEF WriterPlace, Behind, Place, ReaderLoops, Quiet
      <3>2. CASE ~Holds
        BY <3>2 DEF WriterPlace, Quiet
      <3> QED
        BY <3>1, <3>2
    <2> QED
      BY <2>1, <2>2, <2>3 DEF Pipe!pipeVars, Quiet
  <1>6. CASE ChildPublish \/ ParentCheck \/ ParentRelease
    BY <1>1, <1>2, <1>3, <1>6 DEF Pipe!Next
  <1>7. CASE ~ChildPublish /\ ~ParentCheck /\ ~ParentRelease
    BY <1>4, <1>5, <1>7
  <1> QED
    BY <1>6, <1>7

\* The ring of slots, read as a channel, loses, repeats, reorders and invents
\* nothing, and reader and writer agree on where every segment begins.
THEOREM RingImplementsPipe == Spec => ImplementsPipe
  <1>1. ASSUME Init
        PROVE  Pipe!Init
    <2>1. /\ tracks \in TrackTables /\ Loan = 0 /\ Published - gets = 0
          /\ ReaderPlace = Place(1, 0) /\ WriterPlace = Place(1, 0)
      BY <1>1, SMT DEF Init, Loan, Holds, Published, ReaderPlace, WriterPlace
    <2>2. InFlight = << >>
      <3>1. Flight /\ Waiting = 0
        BY <1>1, <2>1, InitInv, FlightIs DEF Waiting
      <3> QED
        BY <3>1, SMT DEF Flight
    <2> QED
      BY <2>1, <2>2 DEF Pipe!Init, Pipe!Position, Place
  <1>2. ASSUME Inv, [Next]_vars
        PROVE  [Pipe!Next]_(Pipe!pipeVars)
    BY <1>2, NextInv, StepSimulated
  <1> QED
    BY <1>1, <1>2, Invariant, PTL DEF Spec, ImplementsPipe, Pipe!Spec
=============================================================================
