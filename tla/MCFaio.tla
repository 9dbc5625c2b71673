------------------------------- MODULE MCFaio -------------------------------
(***************************************************************************)
(* Small instances of Faio for TLC: a ring of three slots (the minimum of   *)
(* init_faio) and track tables that end in every way a track can end.       *)
(***************************************************************************)
EXTENDS FaioInv

Row(f, ss, bpt, ts, fl) ==
    [fd |-> f, secsize |-> ss, bytespt |-> bpt, tracksize |-> ts, filelen |-> fl]

\* One track: unknown size ending on and off a segment boundary, known size
\* with the file equal, longer, shorter, an empty pipe, size zero.
OneTrack ==
    {<<Row(0, 2, 4, ts, fl)>> : ts \in {-1, 0, 5, 8}, fl \in {0, 3, 5, 8, 9}}

\* Two and three tracks: different block sizes, more segments than slots and
\* fewer, the pipe first or last, two tracks from the same pipe.
MoreTracks ==
    {<<Row(3, 2, 4, 8, 8), Row(0, 2, 2, ts, fl)>> : ts \in {-1, 4}, fl \in {0, 4, 5}}
    \cup {<<Row(3, 2, 4, -1, 17), Row(0, 2, 2, -1, fl)>> : fl \in {0, 3}}
    \cup {<<Row(0, 1, 1, -1, 2), Row(3, 2, 4, 9, 9)>>,
          <<Row(0, 2, 2, 4, 4), Row(0, 2, 2, 4, 0)>>,
          <<Row(3, 1, 1, 1, 1), Row(4, 1, 1, 1, 1), Row(0, 1, 1, -1, 1)>>}

AllTables == OneTrack \cup MoreTracks

\* A file that overfills the ring.
LongFile == {<<Row(3, 1, 1, 6, 6)>>}

\* A track longer than the ring, then a pipe that delivers nothing.
DeadPipeSecond == {<<Row(3, 1, 1, 4, 4), Row(0, 1, 1, -1, 0)>>}

\* For the runs with faults: every kind of track end, few segments.
FewTables ==
    {<<Row(3, 2, 4, 8, 8), Row(0, 2, 2, -1, fl)>> : fl \in {0, 5}}
    \cup {<<Row(0, 1, 1, -1, 4)>>, <<Row(3, 1, 1, 3, 3)>>,
          <<Row(0, 2, 4, 5, 5), Row(0, 1, 1, 2, 2)>>}

NoFaults == {}
AllFaults == FaultKinds
NoPhases == {}
BlankPhase == {"session"}
GraceAndBlank == {"grace", "session", "close"}
=============================================================================
