---------------------------- MODULE MCRoundTrip ----------------------------
(* Instances of WriteAndRead for TLC *)
EXTENDS RoundTripInv

Track(size, file, pad, spt, short, pkt) ==
    [size |-> size, file |-> file, pad |-> pad, spt |-> spt, short |-> short, pkt |-> pkt]
Session(driver, sao, tracks) == [driver |-> driver, sao |-> sao, tracks |-> tracks]

(* Two units are a sector and four sectors the minimum.  Announced sizes are *)
(* below it, half a sector below it, above it, and unknown; files are as     *)
(* long as announced, shorter by half a sector or by two sectors, or go on   *)
(* behind a size of 0.                                                       *)
Pairs == {<<0, 0>>, <<0, 3>>, <<4, 4>>, <<7, 7>>, <<7, 3>>, <<8, 8>>, <<12, 12>>, <<12, 11>>, <<12, 8>>}
Streams == {<<-1, 3>>, <<-1, 8>>, <<-1, 11>>}
Tracks(inputs, shorts, pkts, pads) ==
    {Track(i[1], i[2], p, 2, h, k) : i \in inputs, p \in pads, h \in shorts, k \in pkts}
MCSessions ==
    {Session("mmc", FALSE, <<t>>) :
       t \in Tracks(Pairs \union Streams, {FALSE}, {"none", "fixed"}, {0, 2})
             \union Tracks({<<4, 4>>, <<12, 11>>, <<-1, 8>>}, {FALSE}, {"variable"}, {0})}
    \union {Session("mmc", TRUE, <<t>>) : t \in Tracks(Pairs, BOOLEAN, {"none"}, {0})}
    \union {Session("teac", FALSE, <<t>>) : t \in Tracks(Pairs, {FALSE}, {"none"}, {0, 2})}
    \union {Session(d, d = "mmc", <<Track(4, f, p, 2, FALSE, "none"),
                                    Track(7, 7, 0, 3, FALSE, "none")>>) :
               d \in {"mmc", "teac"}, f \in {2, 4}, p \in {0, 3}}

MCOptions == {[noerror |-> FALSE, retries |-> 2, chunk |-> 3],
              [noerror |-> TRUE, retries |-> 2, chunk |-> 3],
              [noerror |-> FALSE, retries |-> 0, chunk |-> 2]}
=============================================================================
