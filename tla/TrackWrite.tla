----------------------------- MODULE TrackWrite -----------------------------
(***************************************************************************)
(* How cdrecord puts the tracks of a session on the medium: main's loop    *)
(* over the tracks, write_track_data(), write_packet_data(), pad_track(),  *)
(* and the parts of the MMC and the TEAC driver that open, write and close *)
(* a track.  Input is counted in units, SecSize of them are a sector.      *)
(***************************************************************************)
EXTENDS Integers, Sequences, FiniteSets

CONSTANTS
    Sessions,   \* the sessions to burn, see TrackOK and SessionOK
    MinSecs,    \* shortest legal track in sectors, 300 in the code
    SecSize,    \* units in a sector
    Pregap,     \* pre-gap of a track in sectors, 150
    RunIn,      \* link and run-in blocks in front of a TEAC data track, 5
    RunOut,     \* run-out blocks the drive adds behind a track, 2
    Link,       \* blocks between two variable packets, 7
    Faults      \* what may go wrong, see FaultKinds

FaultKinds == {"read", "write", "open", "address", "close", "fixate"}

(* A track: announced size and bytes its file delivers in units (size -1 is *)
(* unknown), sectors of -padsize, sectors per transfer, -shorttrack, and    *)
(* how it is divided in packets.                                            *)
TrackOK(t) ==
    /\ t.size \in Int /\ t.size >= -1
    /\ t.file \in Nat /\ t.pad \in Nat
    /\ t.spt \in Nat \ {0}
    /\ t.short \in BOOLEAN
    /\ t.pkt \in {"none", "fixed", "variable"}

(* main sets -shorttrack only with SAO, the TEAC driver knows neither SAO   *)
(* nor packets, and refuses unknown sizes; a cue sheet needs the sizes.  A  *)
(* file may go on behind a size of 0, but one transfer is no whole track.   *)
SessionOK(s) ==
    /\ s.driver \in {"mmc", "teac"} /\ s.sao \in BOOLEAN
    /\ s.tracks \in Seq([size : Int, file : Nat, pad : Nat, spt : Nat \ {0},
                         short : BOOLEAN, pkt : {"none", "fixed", "variable"}])
    /\ s.tracks # <<>>
    /\ \A i \in 1 .. Len(s.tracks) :
          LET t == s.tracks[i] IN
          /\ TrackOK(t)
          /\ t.short => s.sao
          /\ t.pkt # "none" => s.driver = "mmc" /\ ~s.sao
          /\ t.size < 0 => s.driver = "mmc" /\ ~s.sao
          /\ t.size = 0 => t.file = 0 \/ t.spt < MinSecs
    /\ s.driver = "teac" => ~s.sao

ASSUME SizesAssumption ==
    /\ MinSecs \in Nat /\ SecSize \in Nat \ {0} /\ Pregap \in Nat
    /\ RunIn \in Nat /\ RunIn < Pregap /\ RunOut \in Nat /\ Link \in Nat \ {0}
ASSUME SessionsAssumption == \A s \in Sessions : SessionOK(s)
ASSUME FaultsAssumption == Faults \subseteq FaultKinds

VARIABLES
    session,    \* the session being burnt
    trk,        \* number of the current track
    pc,         \* where main is
    errs,       \* main's error count
    outcome,    \* "running", "ok", "failed" or "input" (comerr on the input)
    bytes_read, \* units taken from the input of this track
    bytes,      \* units the drive accepted of it
    bytespt,    \* transfer size in units, reduced for a last short block
    buf,        \* what the sectors of the block at hand will hold
    startsec,   \* where the next block goes
    islast,     \* the flag passed to the driver
    padsecs,    \* the track's padding, raised for short tracks
    amt,        \* sectors pad_track() has still to write
    retried,    \* the packet at hand was sent before
    last_done,  \* drv_jvc.c: a block of this track was flagged as last
    disc,       \* what the sectors from address Base on hold
    stale,      \* the drive reports its next writable address too low by this
    linked,     \* the last block accepted announced another one
    sealed,     \* history: a flagged block of this track was accepted
    padlost     \* history: a pad block was refused

main == <<trk, pc, errs, outcome>>
job == <<bytes_read, bytes, bytespt, buf, startsec, islast, padsecs, amt, retried>>
drive == <<last_done, disc, stale, linked>>
history == <<sealed, padlost>>
vars == <<session, main, job, drive, history>>

Least(a, b) == IF a < b THEN a ELSE b
Most(a, b) == IF a < b THEN b ELSE a
Sectors(n) == (n + SecSize - 1) \div SecSize

T == session.tracks[trk]
Teac == session.driver = "teac"

\* get_tracks(): padding of a track that is known to be too short
InitialPad(t) ==
    IF ~t.short /\ t.size > 0 /\ t.size \div SecSize < MinSecs
    THEN Most(t.pad, MinSecs - Sectors(t.size)) ELSE t.pad

\* checktsize(): sectors reserved for a track of known size
Announced(t) ==
    LET curr == Sectors(t.size) + InitialPad(t)
    IN  IF t.short THEN curr ELSE Most(curr, MinSecs)

\* checktsize(): trackstart of track i in SAO mode, pre-gaps included
Start[i \in Nat] ==
    IF i <= 1 THEN 0 ELSE Start[i - 1] + (Announced(session.tracks[i - 1]) + Pregap)

\* The first address of the medium, and the next one the drive can write
Base == IF session.sao \/ Teac THEN -Pregap ELSE 0
Nwa == Base + Len(disc)

\* What a sector holds: input from a unit of a track on, padding, or nothing
Data(i, u) == <<"data", i, u>>
Fill(kind, n) == [k \in 1 .. n |-> <<kind, trk, 0>>]
Payload(u, n) == [k \in 1 .. n |-> Data(trk, u + (k - 1) * SecSize)]
-----------------------------------------------------------------------------
Init ==
    /\ session \in Sessions
    /\ trk = 1 /\ pc = "open" /\ errs = 0 /\ outcome = "running"
    /\ bytes_read = 0 /\ bytes = 0 /\ bytespt = 0 /\ buf = <<>>
    /\ startsec = 0 /\ islast = FALSE /\ amt = 0 /\ retried = FALSE
    /\ padsecs = 0 /\ last_done = FALSE
    /\ disc = <<>> /\ stale = 0 /\ linked = FALSE
    /\ sealed = FALSE /\ padlost = FALSE

(* The drive takes a block only at the address that follows what it has: a  *)
(* CD is written in sequence.  cdr_write_teac() notes the flag of a block    *)
(* before it knows whether the write succeeds.                              *)
Accept(content) ==
    /\ startsec = Nwa
    /\ disc' = disc \o content
    /\ linked' = ~islast' /\ stale' = 0
    /\ sealed' = (sealed \/ islast')
    /\ last_done' = (last_done \/ (Teac /\ islast'))
Refuse ==
    /\ startsec = Nwa => "write" \in Faults
    /\ last_done' = (last_done \/ (Teac /\ islast'))
    /\ UNCHANGED <<disc, stale, linked, sealed>>

(* open_track: in SAO mode the MMC driver pads the pre-gap; the TEAC driver  *)
(* does so behind the run-in blocks; else the drive makes the pre-gap.       *)
OpenTrack ==
    /\ pc = "open"
    /\ padsecs' = InitialPad(T)
    /\ sealed' = FALSE /\ last_done' = FALSE /\ islast' = FALSE
    /\ bytespt' = T.spt * SecSize
    /\ IF Teac
       THEN /\ disc' = disc \o Fill("gap", RunIn)
            /\ startsec' = Nwa + RunIn /\ amt' = Pregap - RunIn
       ELSE /\ disc' = disc
            /\ startsec' = Start[trk] - Pregap /\ amt' = Pregap
    /\ pc' = IF Teac \/ session.sao THEN "pregap" ELSE "begin"
    /\ UNCHANGED <<session, trk, errs, outcome, bytes_read, bytes, buf, retried,
                   stale, linked, padlost>>

\* open_track fails, or main cannot get the address
OpenFails ==
    /\ \/ pc = "open" /\ "open" \in Faults
       \/ pc = "begin" /\ ~session.sao /\ "address" \in Faults
    /\ errs' = errs + 1 /\ pc' = "fixate"
    /\ UNCHANGED <<session, trk, outcome, job, drive, history>>

(* One turn of pad_track(): Block sectors of zeros, flagged as last only at  *)
(* the end of a padding that was asked to be the last of its track.          *)
Block == Least(amt, bytespt \div SecSize)
PadLast == pc = "pad" /\ amt <= Block
PadBlock ==
    /\ pc \in {"pregap", "pad"}
    /\ islast' = PadLast
    /\ Accept(Fill(pc, Block))
    /\ amt' = amt - Block /\ bytespt' = Block * SecSize
    /\ startsec' = startsec + Block
    /\ pc' = IF amt > Block THEN pc ELSE IF pc = "pad" THEN "close" ELSE "begin"
    /\ UNCHANGED <<session, trk, errs, outcome, bytes_read, bytes, buf, padsecs,
                   retried, padlost>>

\* Only the TEAC driver looks at the result of pad_track()
PadRefused ==
    /\ pc \in {"pregap", "pad"}
    /\ islast' = PadLast
    /\ Refuse
    /\ padlost' = TRUE
    /\ errs' = IF pc = "pregap" /\ Teac THEN errs + 1 ELSE errs
    /\ pc' = IF pc = "pad" THEN "close" ELSE IF Teac THEN "fixate" ELSE "begin"
    /\ UNCHANGED <<session, trk, outcome, bytes_read, bytes, bytespt, buf,
                   startsec, padsecs, amt, retried>>

\* main asks for the address except in SAO mode and enters write_track_data()
BeginTrack ==
    /\ pc = "begin"
    /\ startsec' = IF session.sao THEN Start[trk] ELSE Nwa
    /\ bytes_read' = 0 /\ bytes' = 0 /\ bytespt' = T.spt * SecSize
    /\ islast' = FALSE
    /\ pc' = "read"
    /\ UNCHANGED <<session, trk, errs, outcome, buf, padsecs, amt, retried,
                   drive, history>>

(* fill_buf(): the block, cut where the announced size or the file ends.     *)
(* The last block is rounded up to sectors, in fixed packets to a packet.    *)
Want == IF T.size > 0 THEN Least(bytespt, T.size - bytes_read) ELSE bytespt
Got == Least(Want, T.file - bytes_read)
\* Mutated: the end is noticed with the block behind it
ClippedLate(read) == T.size >= 0 /\ read > T.size
Clipped(read) == T.size >= 0 /\ read >= T.size
\* Mutated: the flag is given although padding follows
MayBeLastNoPad(read) ==
    IF T.pkt = "none" THEN T.short \/ read \div SecSize >= MinSecs
                      ELSE padsecs = 0 \/ read \div SecSize >= MinSecs
MayBeLast(read) ==
    IF T.pkt = "none" THEN padsecs = 0 /\ (T.short \/ read \div SecSize >= MinSecs)
                      ELSE padsecs = 0 \/ read \div SecSize >= MinSecs
ReadBlock ==
    /\ pc = "read" /\ Got > 0
    /\ bytes_read' = bytes_read + Got
    /\ LET kept == IF Clipped(bytes_read') THEN Got - (bytes_read' - T.size) ELSE Got
           rest == IF T.pkt = "fixed" THEN bytespt \div SecSize - Sectors(kept) ELSE 0
       IN  /\ buf' = Payload(bytes_read, Sectors(kept)) \o Fill("pad", rest)
           /\ islast' = (islast \/ (/\ Clipped(bytes_read') \/ kept < bytespt
                                    /\ MayBeLast(bytes_read')))
    /\ bytespt' = Len(buf') * SecSize
    /\ retried' = FALSE
    /\ pc' = IF T.pkt = "variable" THEN "address" ELSE "write"
    /\ UNCHANGED <<session, trk, errs, outcome, bytes, startsec, padsecs, amt,
                   drive, history>>

(* End of the input (read_buf() returns 0 for ever), or an error on it: the  *)
(* first leaves the loop, the second the program.                            *)
InputEnds ==
    /\ pc = "read" /\ Got = 0
    /\ pc' = "after"
    /\ UNCHANGED <<session, trk, errs, outcome, job, drive, history>>
InputFails ==
    /\ pc = "read" /\ "read" \in Faults
    /\ outcome' = "input" /\ pc' = "done"
    /\ UNCHANGED <<session, trk, errs, job, drive, history>>

(* A variable packet goes where the drive says; a drive that did not move    *)
(* on after a failed packet gets the retry behind the link blocks.           *)
NextAddress ==
    /\ pc = "address"
    /\ LET nextblock == Nwa - stale IN
       startsec' = IF retried /\ nextblock = startsec THEN startsec + Link
                                                      ELSE nextblock
    /\ pc' = "write"
    /\ UNCHANGED <<session, trk, errs, outcome, bytes_read, bytes, bytespt, buf,
                   islast, padsecs, amt, retried, drive, history>>
NoAddress ==
    /\ pc = "address" /\ "address" \in Faults
    /\ pc' = "write"
    /\ UNCHANGED <<session, trk, errs, outcome, job, drive, history>>

WriteBlock ==
    /\ pc = "write"
    /\ islast' = islast
    /\ Accept(buf \o (IF T.pkt = "variable" THEN Fill("gap", Link) ELSE <<>>))
    /\ bytes' = bytes + bytespt
    /\ startsec' = startsec + Len(buf)
    /\ pc' = IF T.size < 0 \/ bytes_read < T.size THEN "read" ELSE "after"
    /\ UNCHANGED <<session, trk, errs, outcome, bytes_read, bytespt, buf, padsecs,
                   amt, retried, padlost>>

\* Mutated: the result of a write is dropped
WriteRefusedIgnored ==
    /\ pc = "write"
    /\ islast' = islast
    /\ Refuse
    /\ IF T.pkt = "variable" /\ ~retried
       THEN retried' = TRUE /\ pc' = "address"
       ELSE pc' = "abandon" /\ UNCHANGED retried
    /\ UNCHANGED <<session, trk, errs, outcome, bytes_read, bytes, bytespt, buf,
                   startsec, padsecs, amt, padlost>>
WriteRefused ==
    /\ pc = "write"
    /\ islast' = islast
    /\ Refuse
    /\ IF T.pkt = "variable" /\ ~retried
       THEN retried' = TRUE /\ pc' = "address" /\ UNCHANGED errs
       ELSE errs' = errs + 1 /\ pc' = "abandon" /\ UNCHANGED retried
    /\ UNCHANGED <<session, trk, outcome, bytes_read, bytes, bytespt, buf,
                   startsec, padsecs, amt, padlost>>

(* The drive runs out of data in a packet: k sectors of it and the link      *)
(* blocks are on the medium.  Some drives then go on reporting the old       *)
(* address.                                                                  *)
PacketTorn ==
    /\ pc = "write" /\ "write" \in Faults
    /\ T.pkt = "variable" /\ ~retried /\ startsec = Nwa
    /\ \E k \in 0 .. Len(buf) - 1 :
          /\ disc' = disc \o SubSeq(buf, 1, k) \o Fill("gap", Link)
          /\ stale' \in {0, IF k = 0 THEN Link ELSE 0}
    /\ retried' = TRUE /\ pc' = "address"
    /\ UNCHANGED <<session, trk, errs, outcome, bytes_read, bytes, bytespt, buf,
                   startsec, islast, padsecs, amt, last_done, linked, history>>

\* Mutated: the minimum length is not tested for
PadTailUnchecked ==
    /\ pc = "after"
    /\ padsecs' = IF ~T.short THEN MinSecs - bytes \div SecSize ELSE padsecs
    /\ amt' = padsecs' /\ bytespt' = T.spt * SecSize
    /\ pc' = IF padsecs' > 0 THEN "pad" ELSE "close"
    /\ UNCHANGED <<session, trk, errs, outcome, bytes_read, bytes, buf, startsec,
                   islast, retried, drive, history>>
\* Mutated: only the padding that was asked for
PadTailNoMinimum ==
    /\ pc = "after"
    /\ padsecs' = padsecs
    /\ amt' = padsecs /\ bytespt' = T.spt * SecSize
    /\ pc' = IF padsecs > 0 THEN "pad" ELSE "close"
    /\ UNCHANGED <<session, trk, errs, outcome, bytes_read, bytes, buf, startsec,
                   islast, retried, drive, history>>

\* After the loop: the minimum length, then the padding
PadTail ==
    /\ pc = "after"
    /\ LET lacks == MinSecs - bytes \div SecSize IN
       padsecs' = IF ~T.short /\ lacks > 0 THEN Most(padsecs, lacks) ELSE padsecs
    /\ amt' = padsecs' /\ bytespt' = T.spt * SecSize
    /\ pc' = IF padsecs' > 0 THEN "pad" ELSE "close"
    /\ UNCHANGED <<session, trk, errs, outcome, bytes_read, bytes, buf, startsec,
                   islast, retried, drive, history>>

\* Mutated: no dummy block
DummyNever == <<>>
(* close_track: the TEAC driver adds a dummy block unless it saw a flagged    *)
(* one; the drive ends a TAO track with run-out blocks.  main lets "dummy     *)
(* blocks added" pass as a success.                                           *)
Dummy == IF Teac /\ ~last_done THEN Fill("dummy", 1) ELSE <<>>
RunOutBlocks == IF session.sao THEN <<>> ELSE Fill("gap", RunOut)
CloseTrack ==
    /\ pc = "close"
    /\ disc' = disc \o Dummy \o RunOutBlocks
    /\ linked' = (linked /\ Dummy = <<>>)
    /\ IF trk < Len(session.tracks) THEN trk' = trk + 1 /\ pc' = "open"
                                    ELSE trk' = trk /\ pc' = "fixate"
    /\ UNCHANGED <<session, errs, outcome, job, last_done, stale, history>>
CloseFails ==
    /\ pc = "close" /\ "close" \in Faults /\ ~session.sao
    /\ errs' = errs + 1 /\ pc' = "fixate"
    /\ UNCHANGED <<session, trk, outcome, job, drive, history>>

\* After a write error main closes the track too, whatever comes of it
AbandonTrack ==
    /\ pc = "abandon"
    /\ \/ disc' = disc \o Dummy \o RunOutBlocks /\ linked' = (linked /\ Dummy = <<>>)
       \/ UNCHANGED <<disc, linked>>
    /\ pc' = "fixate"
    /\ UNCHANGED <<session, trk, errs, outcome, job, last_done, stale, history>>

Fixate ==
    /\ pc = "fixate"
    /\ errs' \in {errs} \union (IF "fixate" \in Faults THEN {errs + 1} ELSE {})
    /\ outcome' = IF errs' = 0 THEN "ok" ELSE "failed"
    /\ pc' = "done"
    /\ UNCHANGED <<session, trk, job, drive, history>>

Burn ==
    \/ OpenTrack \/ OpenFails \/ PadBlock \/ PadRefused \/ BeginTrack
    \/ ReadBlock \/ InputEnds \/ InputFails \/ NextAddress \/ NoAddress
    \/ WriteBlock \/ WriteRefused \/ PacketTorn \/ PadTail
    \/ CloseTrack \/ CloseFails \/ AbandonTrack \/ Fixate
-----------------------------------------------------------------------------
(* Properties                                                              *)

Sector == {"data"} \X (Nat \ {0}) \X Nat
              \union {"gap", "pregap", "pad", "dummy"} \X (Nat \ {0}) \X {0}

\* The state stays within its types, and main's place within main
TypeOK ==
    /\ session \in Sessions /\ trk \in 1 .. Len(session.tracks)
    /\ pc \in {"open", "pregap", "begin", "read", "address", "write", "after",
               "pad", "close", "abandon", "fixate", "done"}
    /\ errs \in Nat /\ outcome \in {"running", "ok", "failed", "input"}
    /\ {bytes_read, bytes, bytespt, padsecs, amt, stale} \subseteq Nat
    /\ startsec \in Int
    /\ {islast, retried, last_done, linked, sealed, padlost} \subseteq BOOLEAN
    /\ buf \in Seq(Sector) /\ disc \in Seq(Sector)

(* Once the drive has taken a block of a track with the last-block flag,    *)
(* write_track_data() and pad_track() send no further block of this track;  *)
(* only the packet branch lets its padding follow.                          *)
FlagEnds ==
    [][sealed /\ trk' = trk /\ disc' # disc =>
          pc \in {"open", "abandon", "close"} \/ (pc = "pad" /\ T.pkt # "none")]_vars

(* A track outside packet mode ends without a flagged block exactly when it *)
(* gets no padding and either its input ended on a block boundary short of  *)
(* an announced end, or its last sector is both partial and the one that    *)
(* makes up the minimum length, or there was no input.  (Behind a size of 0  *)
(* under -shorttrack it is an empty block that carries the flag.)           *)
Taken(t) == IF t.size < 0 THEN t.file ELSE Least(t.size, t.file)
Padded(t) == InitialPad(t) > 0 \/ (~t.short /\ Sectors(Taken(t)) < MinSecs)
EndsUnmarked(t) ==
    /\ ~Padded(t)
    /\ \/ Taken(t) # t.size /\ Taken(t) % (t.spt * SecSize) = 0
       \/ ~t.short /\ Taken(t) \div SecSize < MinSecs
       \/ t.file = 0
MarksLast ==
    pc = "close" /\ ~padlost /\ T.pkt = "none" => (sealed <=> ~EndsUnmarked(T))

(* Whichever way a TEAC track ends, the drive is not left waiting for a     *)
(* block of an extended write: the last block was flagged, or the driver    *)
(* added a dummy block.  (A refused pad block is the exception: the driver  *)
(* counts it as flagged and pad_track()'s result is dropped.)               *)
TrackClosed == outcome = "ok" /\ Teac /\ ~padlost => ~linked

(* A session that is reported as burnt has on the medium all the input of   *)
(* every track up to its announced size, in order, and nothing else.  A     *)
(* packet that was sent again may be there twice; the later copies count.   *)
At(x) == {p \in 1 .. Len(disc) : disc[p] = x}
Newest(x) == CHOOSE p \in At(x) : \A q \in At(x) : q <= p
DataOnDisc ==
    outcome = "ok" =>
       /\ \A i \in 1 .. Len(session.tracks) :
             LET t == session.tracks[i]
                 n == Sectors(Taken(t))
             IN  /\ \A k \in 0 .. n - 1 : At(Data(i, k * SecSize)) # {}
                 /\ \A k \in 1 .. n - 1 : Newest(Data(i, (k - 1) * SecSize))
                                             < Newest(Data(i, k * SecSize))
                 /\ t.pkt # "variable" =>
                       \A p \in 1 .. Len(disc) :
                          disc[p][1] = "data" /\ disc[p][2] = i => 
                             \E k \in 0 .. n - 1 : At(Data(i, k * SecSize)) = {p}

(* Unless pad blocks were lost, a complete file makes a track of exactly    *)
(* the length that the cue sheet and the TEAC driver's limits announced,    *)
(* and no track but one under -shorttrack is below the minimum length.      *)
Body(i) == {p \in 1 .. Len(disc) : disc[p][1] \in {"data", "pad"} /\ disc[p][2] = i}
RightLength(t, n) ==
    /\ t.size >= 0 /\ t.file >= t.size /\ t.pkt = "none" => n = Announced(t)
    /\ t.short \/ n >= MinSecs
LengthKept ==
    outcome = "ok" /\ ~padlost =>
       \A i \in 1 .. Len(session.tracks) :
          RightLength(session.tracks[i], Cardinality(Body(i)))
=============================================================================
