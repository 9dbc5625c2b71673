------------------------------ MODULE TrackInv ------------------------------
(***************************************************************************)
(* The inductive invariants of TrackWrite, in named parts.  Numbers says   *)
(* how far a track is from what the loop has counted; what the flag, the   *)
(* padding and the medium are follows from it.                             *)
(***************************************************************************)
EXTENDS TrackWrite

Plain == T.pkt = "none"
AtInput == pc \in {"read", "address", "write"}
AtBlock == pc \in {"address", "write"}
InTrack == pc \in {"read", "address", "write", "after", "pad", "close"}

-----------------------------------------------------------------------------
(* The end of the TEAC driver's tracks, and of the session.                 *)

(* A flagged block that was accepted closed the link; one that was refused  *)
(* is an error, or a lost pad block.  Without an error every track is       *)
(* written before the session is fixated.                                   *)
LinkInv ==
    /\ pc \in {"pregap", "begin"} => ~last_done
    /\ Teac /\ ~padlost /\ InTrack /\ last_done => sealed /\ ~linked
    /\ pc = "abandon" => errs > 0
    /\ Teac /\ ~padlost /\ pc = "fixate" /\ errs = 0 => ~linked
    /\ outcome # "running" => pc = "done"
    /\ outcome = "ok" => errs = 0
    /\ errs = 0 /\ (pc = "fixate" \/ outcome = "ok") => trk = Len(session.tracks)
    /\ TrackClosed

-----------------------------------------------------------------------------
(* How far a track is.                                                      *)

Transfer == T.spt * SecSize
Whole(n) == \E m \in 0 .. n : n = m * Transfer

(* The input of the block at hand, none of it behind a size of 0, and what  *)
(* a fixed packet gets to be full.                                          *)
Kept == IF T.size = 0 THEN 0 ELSE bytes_read - bytes
Rest == IF T.pkt = "fixed" THEN T.spt - Sectors(Kept) ELSE 0

(* Whether a last block that ends at Taken(T) carries the flag.             *)
EndsMarked ==
    /\ T.file > 0
    /\ Taken(T) = T.size \/ Taken(T) % Transfer # 0
    /\ InitialPad(T) = 0
    /\ T.short \/ Taken(T) \div SecSize >= MinSecs

\* Bytes the drive gets for all of the input, outside fixed packets
Counted(sent) == T.pkt # "fixed" => sent = Sectors(Taken(T)) * SecSize

(* The input goes on: full transfers were sent so far.                      *)
Going ==
    /\ bytes_read = bytes /\ Whole(bytes) /\ bytespt = Transfer
    /\ bytes <= T.file
    /\ T.size > 0 => bytes < T.size
    /\ T.size = 0 => bytes = 0
    /\ ~islast /\ ~sealed

(* All input was sent, and the last block of it flagged or not.             *)
Over ==
    /\ bytes >= bytes_read \/ T.size = 0
    /\ Counted(bytes)
    /\ T.size # 0 => bytes_read = Taken(T)
    /\ Plain => (sealed <=> EndsMarked)

Numbers ==
    /\ pc \in {"pregap", "begin", "read", "address", "write", "after"} =>
          padsecs = InitialPad(T)
    /\ pc = "read" => Going \/ (T.file > 0 /\ T.file <= bytes_read /\ T.size # 0 /\ Over)
    /\ AtBlock =>
          /\ Whole(bytes)
          /\ T.size = 0 => bytes = 0 /\ T.file > 0
          /\ T.size # 0 => /\ bytes < bytes_read /\ bytes_read <= bytes + Transfer
                           /\ bytes_read <= Taken(T)
                           /\ bytes_read < bytes + Transfer => bytes_read = Taken(T)
          /\ buf = Payload(bytes, Sectors(Kept)) \o Fill("pad", Rest)
          /\ bytespt = Len(buf) * SecSize
          /\ islast => T.size = 0 \/ bytes_read = Taken(T)
          /\ Plain => (islast <=> (T.size = 0 \/ bytes_read = Taken(T)) /\ EndsMarked)
    /\ pc = "after" => Over
    /\ pc \in {"pregap", "begin"} \/ AtBlock \/ (Plain /\ pc = "pad") => ~sealed
    /\ Plain /\ pc = "pad" => Padded(T)
    /\ Plain /\ pc = "close" /\ ~padlost => (sealed <=> ~EndsUnmarked(T))

-----------------------------------------------------------------------------
(* What is on the medium, as long as no error was counted.                  *)

Sound == errs = 0 /\ outcome # "input"

\* Track i is on the medium as far as its input goes
Behind(i) == i < trk \/ (i = trk /\ pc \in {"after", "pad", "close", "fixate", "done"})

(* Sectors of the input of track i that the drive has taken, and those it   *)
(* may have taken a part of in a torn packet.                               *)
Sent(i) ==
    IF Behind(i) THEN Sectors(Taken(session.tracks[i]))
    ELSE IF i = trk /\ AtInput THEN Sectors(IF AtBlock THEN bytes ELSE bytes_read)
    ELSE 0
Cut(i) == IF i = trk /\ AtBlock /\ T.pkt = "variable"
          THEN Sectors(bytes + Kept) ELSE Sent(i)

(* Each sector of data is one of those that were sent, a copy that was not  *)
(* torn follows all copies of earlier sectors, and only packets have copies. *)
DataInv ==
    Sound =>
       /\ \A p \in 1 .. Len(disc) : disc[p][1] = "data" =>
             \E i \in 1 .. trk : \E k \in 0 .. Cut(i) - 1 : disc[p] = Data(i, k * SecSize)
       /\ \A i \in 1 .. trk : \A k \in 0 .. Sent(i) - 1 :
             \E p \in At(Data(i, k * SecSize)) :
                \A j \in 0 .. k - 1 : \A q \in At(Data(i, j * SecSize)) : q < p
       /\ \A p, q \in 1 .. Len(disc) :
             /\ disc[p] = disc[q] /\ disc[p][1] = "data"
             /\ session.tracks[disc[p][2]].pkt # "variable"
             => p = q

(* The sectors of a track make up the bytes that were counted, then those   *)
(* and the padding; a torn packet can only add to them.                     *)
LengthInv ==
    Sound /\ ~padlost =>
       /\ \A i \in 1 .. Len(session.tracks) :
             i > trk \/ (i = trk /\ pc \in {"open", "pregap", "begin"}) => Body(i) = {}
       /\ AtInput \/ pc = "after" =>
             /\ Cardinality(Body(trk)) * SecSize >= bytes
             /\ T.pkt # "variable" => Cardinality(Body(trk)) * SecSize = bytes
       /\ pc = "pad" => RightLength(T, Cardinality(Body(trk)) + amt)
       /\ \A i \in 1 .. trk :
             i < trk \/ pc \in {"close", "fixate", "done"} =>
                RightLength(session.tracks[i], Cardinality(Body(i)))

(* A disc with one track outside variable packets: behind the run-in blocks *)
(* no block is unreadable before the track ends, and between its data and   *)
(* the first run-out block there is the padding.                            *)
Single == Len(session.tracks) = 1 /\ T.pkt # "variable"
TailInv ==
    /\ session.sao => \A g \in 1 .. Len(disc) : disc[g][1] # "gap"
    /\ Single /\ pc = "open" => disc = <<>>
    /\ Single /\ Sound /\ ~padlost =>
       /\ pc \in {"pregap", "begin"} \/ InTrack =>
             \A g \in 1 .. Len(disc) : disc[g][1] = "gap" => g <= -Base
       /\ pc \in {"pad", "close"} => padsecs >= T.pad
       /\ pc = "pad" =>
             \A p \in 1 .. Len(disc) : disc[p][1] = "data" => p + padsecs - amt <= Len(disc)
       /\ pc = "close" =>
             \A p \in 1 .. Len(disc) : disc[p][1] = "data" => p + padsecs <= Len(disc)
       /\ pc \in {"fixate", "done"} =>
             \A p, g \in 1 .. Len(disc) :
                disc[p][1] = "data" /\ disc[g][1] = "gap" /\ g > -Base => p + T.pad < g

BurnInv == TypeOK /\ LinkInv /\ Numbers /\ DataInv /\ LengthInv /\ TailInv
=============================================================================
