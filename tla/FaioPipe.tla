------------------------------ MODULE FaioPipe ------------------------------
(***************************************************************************)
(* What the FIFO of cdrecord promises to its two ends: an order-preserving, *)
(* lossless channel of at most N segments.  The reader cuts the track files *)
(* into segments; the writer takes the oldest one on loan, and must return  *)
(* it before it takes the next.  A loaned segment still occupies its slot.  *)
(***************************************************************************)
EXTENDS Integers, Sequences

CONSTANTS N, TrackTables

VARIABLES
    tracks,     \* the track table
    src,        \* the position the reader reads next
    chan,       \* segments read and not yet taken, oldest first
    loan,       \* 1 while the writer holds a segment, else 0
    dst         \* the position the writer expects next

pipeVars == <<tracks, src, chan, loan, dst>>

Position(t, off) == [trk |-> t, off |-> off]
Smaller(a, b) == IF a > b THEN b ELSE a

\* Segments a read at position p can yield; -1 is a failed read.
SegmentsAt(p) ==
    LET t    == tracks[p.trk]
        asks == IF t.tracksize > 0 THEN Smaller(t.bytespt, t.tracksize - p.off)
                ELSE t.bytespt
    IN {[trk |-> p.trk, off |-> p.off, len |-> l] :
            l \in {-1, Smaller(asks, t.filelen - p.off)}}

\* The position after segment s: an empty or failed segment ends its track,
\* and so does the one that completes a known track size.
After(s) ==
    IF /\ s.len > 0
       /\ tracks[s.trk].tracksize < 0 \/ s.off + s.len < tracks[s.trk].tracksize
    THEN Position(s.trk, s.off + s.len)
    ELSE Position(s.trk + 1, 0)

Init ==
    /\ tracks \in TrackTables
    /\ src = Position(1, 0) /\ dst = Position(1, 0)
    /\ chan = << >> /\ loan = 0

Put ==
    /\ src.trk <= Len(tracks)
    /\ Len(chan) + loan < N
    /\ \E s \in SegmentsAt(src) : chan' = Append(chan, s) /\ src' = After(s)
    /\ UNCHANGED <<tracks, loan, dst>>

Take ==
    /\ loan = 0 /\ chan # << >>
    /\ Position(Head(chan).trk, Head(chan).off) = dst
    /\ chan' = Tail(chan)
    /\ dst' = After(Head(chan))
    /\ loan' = 1
    /\ UNCHANGED <<tracks, src>>

Return ==
    /\ loan = 1
    /\ loan' = 0
    /\ UNCHANGED <<tracks, src, chan, dst>>

Next == Put \/ Take \/ Return

Spec == Init /\ [][Next]_pipeVars
=============================================================================
