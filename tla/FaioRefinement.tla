--------------------------- MODULE FaioRefinement ---------------------------
(***************************************************************************)
(* Faio implements FaioPipe: the ring of slots, the owner words and the     *)
(* counters of fifo.c, read as the channel they stand for.                  *)
(***************************************************************************)
EXTENDS Faio

Place(t, off) == [trk |-> t, off |-> off]

\* The position after the segment in slot i.
Behind(i) ==
    LET s == bufp[i]
    IN IF s.len > 0 /\ ReaderLoops(tracks[s.trk], s.off + s.len)
       THEN Place(s.trk, s.off + s.len) ELSE Place(s.trk + 1, 0)

Loan == IF Holds THEN 1 ELSE 0

\* The slots handed over by the child and not yet taken, oldest first.
InFlight ==
    [k \in 1 .. Published - gets |-> bufp[(buf_idx + Loan + k - 1) % N]]

ReaderPlace ==
    IF cpc \in {"users", "puts"} THEN Behind(buf_idx_reader)
    ELSE Place(trackno, rbytes)

WriterPlace == IF Holds THEN Behind(buf_idx) ELSE Place(cur, wbytes)

Pipe == INSTANCE FaioPipe
            WITH src <- ReaderPlace, chan <- InFlight, loan <- Loan,
                 dst <- WriterPlace

\* The FIFO loses, repeats, reorders and invents nothing, and the two ends
\* agree on where every segment begins.
ImplementsPipe == Pipe!Spec
=============================================================================
