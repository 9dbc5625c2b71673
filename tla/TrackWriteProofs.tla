-------------------------- MODULE TrackWriteProofs --------------------------
(***************************************************************************)
(* The steps of cdrecord keep the invariants of TrackInv, for every        *)
(* session, transfer size and minimum length.                              *)
(***************************************************************************)
EXTENDS TrackInv, NatSums, SequenceTheorems, FiniteSetTheorems, TLAPS

(* Whole sectors make up a number of bytes exactly when the division says   *)
(* so, and rounding up to sectors never loses a byte.                       *)
LEMMA SectorsBound ==
    ASSUME NEW a \in Int, NEW m \in Int
    PROVE  /\ a \div SecSize >= m => a >= m * SecSize
           /\ a >= m * SecSize => a \div SecSize >= m
           /\ Sectors(a) \in Int /\ Sectors(a) * SecSize >= a
           /\ a >= 0 => Sectors(a) >= 0
<1>1. SecSize \in Nat \ {0}
  BY SizesAssumption
<1>2. a \div SecSize >= m => a >= m * SecSize
  BY <1>1, SMT
<1>3. a >= m * SecSize => a \div SecSize >= m
  BY <1>1, SMT
<1>4. Sectors(a) \in Int /\ Sectors(a) * SecSize >= a
  BY <1>1, SMT DEF Sectors
<1>5. a >= 0 => Sectors(a) >= 0
  BY <1>1, SMT DEF Sectors
<1> QED
  BY <1>2, <1>3, <1>4, <1>5

(* Whole sectors in front of some bytes are counted one by one.             *)
LEMMA SectorsSplit ==
    ASSUME NEW a \in Int, NEW m \in Int
    PROVE  /\ Sectors(m * SecSize + a) = m + Sectors(a)
           /\ Sectors(m * SecSize) = m
           /\ (m * SecSize) \div SecSize = m
           /\ a > m * SecSize => Sectors(a) > m
           /\ a <= m * SecSize => Sectors(a) <= m
<1>1. SecSize \in Nat \ {0}
  BY SizesAssumption
<1>2. Sectors(m * SecSize + a) = m + Sectors(a)
  BY <1>1, SMT DEF Sectors
<1>3. Sectors(m * SecSize) = m
  BY <1>1, SMT DEF Sectors
<1>4. (m * SecSize) \div SecSize = m
  BY <1>1, SMT
<1>5. a > m * SecSize => Sectors(a) > m
  BY <1>1, SMT DEF Sectors
<1>6. a <= m * SecSize => Sectors(a) <= m
  BY <1>1, SMT DEF Sectors
<1> QED
  BY <1>2, <1>3, <1>4, <1>5, <1>6

(* What main knows of a track before it burns it.                           *)
LEMMA TrackNumbers ==
    ASSUME NEW t, TrackOK(t)
    PROVE  /\ InitialPad(t) \in Nat /\ InitialPad(t) >= t.pad
           /\ Taken(t) \in Nat /\ Taken(t) <= t.file
           /\ t.size >= 0 => Taken(t) <= t.size
           /\ Taken(t) = t.file \/ Taken(t) = t.size
           /\ t.size = 0 => Taken(t) = 0
           /\ t.spt * SecSize \in Nat \ {0} /\ SecSize \in Nat \ {0} /\ MinSecs \in Nat
           /\ Sectors(Taken(t)) \in Nat
<1>1. /\ t.size \in Int /\ t.size >= -1 /\ t.file \in Nat /\ t.pad \in Nat
      /\ t.spt \in Nat \ {0} /\ SecSize \in Nat \ {0} /\ MinSecs \in Nat
  BY SizesAssumption DEF TrackOK
<1>2. Sectors(t.size) \in Int
  BY <1>1, SectorsBound
<1>3. InitialPad(t) \in Nat /\ InitialPad(t) >= t.pad
  BY <1>1, <1>2 DEF InitialPad, Most
<1>4. /\ Taken(t) \in Nat /\ Taken(t) <= t.file
      /\ t.size >= 0 => Taken(t) <= t.size
      /\ Taken(t) = t.file \/ Taken(t) = t.size
      /\ t.size = 0 => Taken(t) = 0
  BY <1>1 DEF Taken, Least
<1>5. t.spt * SecSize \in Nat \ {0}
  BY <1>1, SMT
<1>6. Sectors(Taken(t)) \in Int /\ Sectors(Taken(t)) >= 0
  <2>1. Taken(t) \in Int /\ Taken(t) >= 0
    BY <1>4
  <2> QED
    BY <2>1, SectorsBound
<1> QED
  BY <1>1, <1>3, <1>4, <1>5, <1>6

(* checktsize() adds up the tracks: the sum is a number for every track.    *)
LEMMA StartIsSum ==
    ASSUME SessionOK(session)
    PROVE  \A i \in 1 .. Len(session.tracks) : Start[i] \in Int
<1> DEFINE a == [i \in Nat |-> Announced(session.tracks[i]) + Pregap]
<1>1. \E f : f = [i \in Nat |-> IF i <= 1 THEN 0 ELSE f[i - 1] + a[i - 1]]
  BY SumDefined
<1> DEFINE Sum(f) == f = [i \in Nat |-> IF i <= 1 THEN 0
                             ELSE f[i - 1] + (Announced(session.tracks[i - 1]) + Pregap)]
<1>2. PICK f : Sum(f)
  <2>1. \A i \in Nat : i > 1 => a[i - 1] = Announced(session.tracks[i - 1]) + Pregap
    OBVIOUS
  <2> HIDE DEF a
  <2> QED
    BY <1>1, <2>1
<1>3. Start = CHOOSE f_1 : Sum(f_1)
  BY DEF Start
<1>4. Sum(Start)
  <2> HIDE DEF Sum
  <2> QED
    BY <1>2, <1>3
<1>5. \A i \in Nat : Start[i] = IF i <= 1 THEN 0
                        ELSE Start[i - 1] + (Announced(session.tracks[i - 1]) + Pregap)
  BY <1>4
<1>6. \A i \in 1 .. Len(session.tracks) : Announced(session.tracks[i]) + Pregap \in Int
  <2>1. ASSUME NEW i \in 1 .. Len(session.tracks)
        PROVE  Announced(session.tracks[i]) + Pregap \in Int
    <3> DEFINE t == session.tracks[i]
    <3>1. TrackOK(t)
      BY DEF SessionOK
    <3>2. t.size \in Int /\ InitialPad(t) \in Int /\ MinSecs \in Int /\ Pregap \in Int
      BY <3>1, TrackNumbers, SizesAssumption DEF TrackOK
    <3>3. Sectors(t.size) \in Int
      BY <3>2, SectorsBound
    <3> QED
      BY <3>2, <3>3 DEF Announced, Most
  <2> QED
    BY <2>1
<1> DEFINE S == {i \in Nat : i >= 1 /\ i <= Len(session.tracks) /\ Start[i] \notin Int}
<1> SUFFICES ASSUME S # {}
             PROVE  FALSE
  OBVIOUS
<1>7. PICK m \in S : \A k \in S : m <= k
  BY LeastInNat
<1>8. Len(session.tracks) \in Nat
  BY LenProperties DEF SessionOK
<1>9. m > 1
  BY <1>5, <1>7
<1>10. m - 1 \in 1 .. Len(session.tracks) /\ m - 1 \notin S
  BY <1>7, <1>8, <1>9
<1>11. Start[m - 1] \in Int
  BY <1>10
<1>12. Start[m] = Start[m - 1] + (Announced(session.tracks[m - 1]) + Pregap)
  BY <1>5, <1>7, <1>9
<1> QED
  BY <1>6, <1>7, <1>10, <1>11, <1>12
-----------------------------------------------------------------------------
(* What the types say about the session and the track at hand.              *)
LEMMA TrackFacts ==
    ASSUME TypeOK
    PROVE  /\ SessionOK(session) /\ TrackOK(T)
           /\ \A i \in 1 .. Len(session.tracks) : TrackOK(session.tracks[i])
           /\ Len(session.tracks) \in Nat \ {0} /\ trk \in Nat \ {0}
           /\ trk <= Len(session.tracks) /\ T = session.tracks[trk]
           /\ Teac => T.pkt = "none" /\ ~session.sao /\ T.size >= 0
           /\ session.sao => T.pkt = "none" /\ ~Teac
           /\ T.size = 0 => T.file = 0 \/ T.spt < MinSecs
<1>1. SessionOK(session) /\ trk \in 1 .. Len(session.tracks)
  BY SessionsAssumption DEF TypeOK
<1>2. Len(session.tracks) \in Nat \ {0}
  BY <1>1, EmptySeq, LenProperties DEF SessionOK
<1>3. \A i \in 1 .. Len(session.tracks) :
         LET t == session.tracks[i] IN
         /\ TrackOK(t)
         /\ t.pkt # "none" => session.driver = "mmc" /\ ~session.sao
         /\ t.size < 0 => session.driver = "mmc" /\ ~session.sao
         /\ t.size = 0 => t.file = 0 \/ t.spt < MinSecs
  BY <1>1 DEF SessionOK
<1>4. session.driver = "teac" => ~session.sao
  BY <1>1 DEF SessionOK
<1>5. TrackOK(T) /\ T = session.tracks[trk]
  BY <1>1, <1>3 DEF T
<1>6. /\ T.pkt # "none" => session.driver = "mmc" /\ ~session.sao
      /\ T.size < 0 => session.driver = "mmc" /\ ~session.sao
      /\ T.size = 0 => T.file = 0 \/ T.spt < MinSecs
  BY <1>1, <1>3 DEF T
<1>7. T.size \in Int
  BY <1>5 DEF TrackOK
<1> QED
  BY <1>1, <1>2, <1>3, <1>4, <1>5, <1>6, <1>7 DEF Teac

(* Sectors of one kind, and sectors of input.                               *)
LEMMA FillIs ==
    ASSUME NEW kind \in {"gap", "pregap", "pad", "dummy"}, NEW n \in Int,
           trk \in Nat \ {0}
    PROVE  /\ Fill(kind, n) \in Seq(Sector)
           /\ Len(Fill(kind, n)) = IF n > 0 THEN n ELSE 0
           /\ \A k \in 1 .. Len(Fill(kind, n)) : Fill(kind, n)[k] = <<kind, trk, 0>>
<1>1. <<kind, trk, 0>> \in Sector
  BY DEF Sector
<1>2. PICK m \in Nat : 1 .. n = 1 .. m /\ m = IF n > 0 THEN n ELSE 0
  <2>1. CASE n > 0
    BY <2>1
  <2>2. CASE ~(n > 0)
    <3>1. 1 .. n = 1 .. 0
      BY <2>2
    <3> QED
      BY <2>2, <3>1
  <2> QED
    BY <2>1, <2>2
<1>3. Fill(kind, n) = [k \in 1 .. m |-> <<kind, trk, 0>>]
  BY <1>2 DEF Fill
<1> QED
  BY <1>1, <1>2, <1>3

LEMMA PayloadIs ==
    ASSUME NEW u \in Nat, NEW n \in Nat, trk \in Nat \ {0}
    PROVE  /\ Payload(u, n) \in Seq(Sector)
           /\ Len(Payload(u, n)) = n
           /\ \A k \in 1 .. n : Payload(u, n)[k] = Data(trk, u + (k - 1) * SecSize)
<1>1. \A k \in 1 .. n : u + (k - 1) * SecSize \in Nat
  <2>1. SecSize \in Nat
    BY SizesAssumption
  <2>2. \A j \in Nat : u + j * SecSize \in Nat
    BY <2>1, SMT
  <2>3. \A k \in 1 .. n : k - 1 \in Nat
    OBVIOUS
  <2> QED
    BY <2>2, <2>3
<1>2. \A k \in 1 .. n : Data(trk, u + (k - 1) * SecSize) \in Sector
  BY <1>1 DEF Data, Sector
<1>3. Payload(u, n) = [k \in 1 .. n |-> Data(trk, u + (k - 1) * SecSize)]
  BY DEF Payload
<1> HIDE DEF Payload
<1> DEFINE e(k) == Data(trk, u + (k - 1) * SecSize)
<1>4. Payload(u, n) = [k \in 1 .. n |-> e(k)] /\ \A k \in 1 .. n : e(k) \in Sector
  BY <1>2, <1>3
<1>5. \A k \in 1 .. n : Payload(u, n)[k] = e(k)
  BY <1>4
<1> HIDE DEF e
<1> QED
  BY <1>4, <1>5 DEF e

(* What fill_buf() gives the loop: a transfer, less only at the end of the  *)
(* input, and nothing of what lies behind a size of 0.                      *)
LEMMA BlockRead ==
    ASSUME TypeOK, Numbers, ReadBlock
    PROVE  /\ Going /\ pc = "read" /\ padsecs = InitialPad(T)
           /\ T' = T /\ bytes' = bytes /\ bytes_read' \in Nat
           /\ T.size = 0 => bytes = 0 /\ T.file > 0
           /\ bytes < bytes_read' /\ bytes_read' <= bytes + Transfer
           /\ T.size # 0 => /\ bytes_read' <= Taken(T)
                            /\ bytes_read' < bytes + Transfer => bytes_read' = Taken(T)
           /\ Kept' \in Nat /\ Kept' <= Transfer
           /\ Kept' = IF T.size = 0 THEN 0 ELSE bytes_read' - bytes
           /\ Rest' = IF T.pkt = "fixed" THEN T.spt - Sectors(Kept') ELSE 0
           /\ buf' = Payload(bytes, Sectors(Kept')) \o Fill("pad", Rest')
           /\ bytespt' = Len(buf') * SecSize
           /\ islast' <=> /\ (T.size >= 0 /\ bytes_read' >= T.size) \/ Kept' < Transfer
                          /\ MayBeLast(bytes_read')
<1>1. /\ TrackOK(T) /\ Taken(T) \in Nat /\ Taken(T) <= T.file
      /\ T.size >= 0 => Taken(T) <= T.size
      /\ Taken(T) = T.file \/ Taken(T) = T.size
      /\ Transfer \in Nat \ {0} /\ SecSize \in Nat \ {0}
      /\ T.size \in Int /\ T.file \in Nat /\ T.spt \in Nat \ {0} /\ T.size >= -1
  BY TrackFacts, TrackNumbers DEF Transfer, TrackOK
<1>2. /\ pc = "read" /\ Got > 0 /\ padsecs = InitialPad(T)
      /\ bytes_read \in Nat /\ bytes \in Nat /\ bytespt \in Nat
      /\ bytes_read' = bytes_read + Got /\ bytes' = bytes /\ T' = T
      /\ Going \/ T.file <= bytes_read
  BY DEF TypeOK, Numbers, ReadBlock, T
<1>3. Got \in Int /\ Got <= T.file - bytes_read
  BY <1>1, <1>2 DEF Got, Want, Least
<1>4. Going /\ bytes_read = bytes /\ bytespt = Transfer /\ ~islast
  <2>1. Going
    BY <1>1, <1>2, <1>3
  <2> QED
    BY <2>1 DEF Going
<1>5. /\ Got \in Nat /\ Got <= T.file - bytes /\ Got <= Transfer
      /\ T.size > 0 => Got <= T.size - bytes
      /\ \/ Got = T.file - bytes \/ Got = Transfer
         \/ T.size > 0 /\ Got = T.size - bytes
      /\ T.size = 0 => bytes = 0
  BY <1>1, <1>2, <1>4 DEF Got, Want, Least, Going
<1>6. /\ bytes < bytes_read' /\ bytes_read' <= bytes + Transfer
      /\ T.size # 0 => /\ bytes_read' <= Taken(T)
                       /\ bytes_read' < bytes + Transfer => bytes_read' = Taken(T)
      /\ T.size = 0 => bytes = 0 /\ T.file > 0
  BY <1>1, <1>2, <1>4, <1>5 DEF Taken, Least
<1> DEFINE kept == IF Clipped(bytes_read') THEN Got - (bytes_read' - T.size) ELSE Got
           rest == IF T.pkt = "fixed" THEN bytespt \div SecSize - Sectors(kept) ELSE 0
<1>7. Clipped(bytes_read') <=> T.size >= 0 /\ bytes_read' >= T.size
  BY <1>2 DEF Clipped, T
<1>8. /\ kept = IF T.size = 0 THEN 0 ELSE Got
      /\ kept \in Nat /\ kept <= Transfer
  BY <1>1, <1>2, <1>4, <1>5, <1>7
<1>9. Kept' = kept /\ Kept' = IF T.size = 0 THEN 0 ELSE bytes_read' - bytes
  BY <1>2, <1>4, <1>5, <1>8 DEF Kept
<1>10. Rest' = rest /\ Rest' = IF T.pkt = "fixed" THEN T.spt - Sectors(Kept') ELSE 0
  <2>1. bytespt \div SecSize = T.spt
    <3>1. T.spt \in Int /\ bytespt = T.spt * SecSize
      BY <1>1, <1>4 DEF Transfer
    <3> QED
      BY <3>1, SectorsSplit
  <2>2. Rest' = IF T.pkt = "fixed" THEN T.spt - Sectors(Kept') ELSE 0
    BY <1>2 DEF Rest, Sectors
  <2> HIDE DEF kept
  <2> QED
    BY <1>9, <2>1, <2>2
<1>11. /\ buf' = Payload(bytes_read, Sectors(kept)) \o Fill("pad", rest)
       /\ bytespt' = Len(buf') * SecSize
       /\ islast' <=> /\ Clipped(bytes_read') \/ kept < bytespt
                      /\ MayBeLast(bytes_read')
  BY <1>4 DEF ReadBlock, TypeOK
<1> HIDE DEF kept, rest
<1>12. /\ Kept' \in Nat /\ Kept' <= Transfer
       /\ Kept' = IF T.size = 0 THEN 0 ELSE bytes_read' - bytes
  BY <1>8, <1>9
<1>13. buf' = Payload(bytes, Sectors(Kept')) \o Fill("pad", Rest')
  BY <1>4, <1>9, <1>10, <1>11
<1>14. islast' <=> /\ (T.size >= 0 /\ bytes_read' >= T.size) \/ Kept' < Transfer
                   /\ MayBeLast(bytes_read')
  BY <1>4, <1>7, <1>9, <1>11
<1>15. bytes_read' \in Nat
  BY <1>2, <1>5
<1> QED
  BY <1>2, <1>4, <1>6, <1>10, <1>11, <1>12, <1>13, <1>14, <1>15

(* Every step keeps the types.                                              *)
LEMMA TypeStep ==
    ASSUME TypeOK, Numbers, Burn
    PROVE  TypeOK'
<1>1. /\ SecSize \in Nat \ {0} /\ MinSecs \in Nat /\ Pregap \in Nat /\ RunIn \in Nat
      /\ Pregap - RunIn \in Nat /\ RunOut \in Nat /\ Link \in Nat \ {0}
      /\ T.spt * SecSize \in Nat /\ InitialPad(T) \in Nat /\ trk \in Nat \ {0}
      /\ Start[trk] \in Int /\ Len(disc) \in Nat /\ Base \in Int /\ Nwa \in Int
  <2>1. /\ SecSize \in Nat \ {0} /\ MinSecs \in Nat /\ Pregap \in Nat /\ RunIn \in Nat
        /\ Pregap - RunIn \in Nat /\ RunOut \in Nat /\ Link \in Nat \ {0}
    BY SizesAssumption
  <2>2. T.spt * SecSize \in Nat /\ InitialPad(T) \in Nat /\ trk \in Nat \ {0}
    BY TrackFacts, TrackNumbers
  <2>3. Start[trk] \in Int
    BY TrackFacts, StartIsSum DEF TypeOK
  <2>4. Len(disc) \in Nat /\ Base \in Int
    BY <2>1, LenProperties DEF TypeOK, Base
  <2> QED
    BY <2>1, <2>2, <2>3, <2>4 DEF Nwa
<1>2. ASSUME NEW content \in Seq(Sector), Accept(content), islast' \in BOOLEAN
      PROVE  /\ disc' \in Seq(Sector) /\ linked' \in BOOLEAN /\ stale' \in Nat
             /\ sealed' \in BOOLEAN /\ last_done' \in BOOLEAN
  BY <1>2, ConcatProperties DEF Accept, TypeOK
<1>3. ASSUME Refuse
      PROVE  /\ disc' \in Seq(Sector) /\ linked' \in BOOLEAN /\ stale' \in Nat
             /\ sealed' \in BOOLEAN /\ last_done' \in BOOLEAN
  BY <1>3 DEF Refuse, TypeOK
<1>4. CASE OpenTrack
  <2>1. Fill("gap", RunIn) \in Seq(Sector)
    BY <1>1, FillIs
  <2>2. disc' \in Seq(Sector)
    BY <1>4, <2>1, ConcatProperties DEF OpenTrack, TypeOK
  <2>3. startsec' \in Int /\ amt' \in Nat /\ bytespt' \in Nat /\ padsecs' \in Nat
    BY <1>1, <1>4 DEF OpenTrack
  <2> QED
    BY <1>4, <2>2, <2>3 DEF TypeOK, OpenTrack
<1>5. CASE OpenFails
  BY <1>5 DEF TypeOK, OpenFails, job, drive, history
<1>6. CASE PadBlock
  <2>1. Block \in Nat /\ Block <= amt
    <3>1. bytespt \in Nat /\ amt \in Nat
      BY DEF TypeOK
    <3>2. bytespt \div SecSize \in Nat
      BY <1>1, <3>1, SMT
    <3> QED
      BY <3>1, <3>2 DEF Block, Least
  <2>2. Fill(pc, Block) \in Seq(Sector)
    <3>1. pc \in {"gap", "pregap", "pad", "dummy"} /\ Block \in Int
      BY <1>6, <2>1 DEF PadBlock
    <3> QED
      BY <1>1, <3>1, FillIs
  <2>3. islast' \in BOOLEAN
    BY <1>6 DEF PadBlock, PadLast
  <2>4. /\ disc' \in Seq(Sector) /\ linked' \in BOOLEAN /\ stale' \in Nat
        /\ sealed' \in BOOLEAN /\ last_done' \in BOOLEAN
    BY <1>2, <1>6, <2>2, <2>3 DEF PadBlock
  <2>5. Block * SecSize \in Nat
    BY <1>1, <2>1, SMT
  <2>6. amt' \in Nat /\ bytespt' \in Nat /\ startsec' \in Int
    BY <1>6, <2>1, <2>5 DEF PadBlock, TypeOK
  <2> QED
    BY <1>6, <2>3, <2>4, <2>6 DEF TypeOK, PadBlock
<1>7. CASE PadRefused
  <2>1. islast' \in BOOLEAN
    BY <1>7 DEF PadRefused, PadLast
  <2>2. errs' \in Nat
    BY <1>7 DEF PadRefused, TypeOK
  <2> QED
    BY <1>3, <1>7, <2>1, <2>2 DEF TypeOK, PadRefused
<1>8. CASE BeginTrack
  <2>1. startsec' \in Int /\ bytespt' \in Nat
    BY <1>1, <1>8 DEF BeginTrack
  <2>2. /\ session' = session /\ trk' = trk /\ errs' = errs /\ outcome' = outcome
        /\ buf' = buf /\ padsecs' = padsecs /\ amt' = amt /\ disc' = disc /\ stale' = stale
        /\ pc' = "read" /\ bytes_read' = 0 /\ bytes' = 0
    BY <1>8 DEF BeginTrack, drive
  <2>3. {islast', retried', last_done', linked', sealed', padlost'} \subseteq BOOLEAN
    BY <1>8 DEF BeginTrack, drive, history, TypeOK
  <2> QED
    BY <2>1, <2>2, <2>3 DEF TypeOK
<1>9. CASE ReadBlock
  <2>1. /\ bytes_read' \in Nat /\ Kept' \in Nat /\ bytespt' = Len(buf') * SecSize
        /\ buf' = Payload(bytes, Sectors(Kept')) \o Fill("pad", Rest')
        /\ Rest' = IF T.pkt = "fixed" THEN T.spt - Sectors(Kept') ELSE 0
    BY <1>9, BlockRead
  <2>2. Sectors(Kept') \in Nat
    BY <2>1, SectorsBound
  <2>3. Rest' \in Int
    BY <2>1, <2>2, TrackFacts DEF TrackOK
  <2>4. Payload(bytes, Sectors(Kept')) \in Seq(Sector)
    BY <1>1, <2>2, PayloadIs DEF TypeOK
  <2>5. buf' \in Seq(Sector)
    BY <1>1, <2>1, <2>3, <2>4, FillIs, ConcatProperties
  <2>6. bytespt' \in Nat
    BY <1>1, <2>1, <2>5, LenProperties
  <2>7. islast' \in BOOLEAN
    BY <1>9 DEF ReadBlock, TypeOK
  <2> QED
    BY <1>9, <2>1, <2>5, <2>6, <2>7 DEF TypeOK, ReadBlock, drive, history
<1>10. CASE InputEnds
  BY <1>10 DEF TypeOK, InputEnds, drive, history, job
<1>11. CASE InputFails
  BY <1>11 DEF TypeOK, InputFails, drive, history, job
<1>12. CASE NextAddress
  <2>1. startsec' \in Int
    BY <1>1, <1>12 DEF NextAddress, TypeOK
  <2> QED
    BY <1>12, <2>1 DEF TypeOK, NextAddress, drive, history
<1>13. CASE NoAddress
  BY <1>13 DEF TypeOK, NoAddress, drive, history, job
<1>14. CASE WriteBlock
  <2> DEFINE content == buf \o (IF T.pkt = "variable" THEN Fill("gap", Link) ELSE <<>>)
  <2>1. content \in Seq(Sector)
    BY <1>1, FillIs, ConcatProperties, EmptySeq DEF TypeOK
  <2>2. Accept(content) /\ islast' \in BOOLEAN
    BY <1>14 DEF WriteBlock, TypeOK
  <2> HIDE DEF content
  <2>3. /\ disc' \in Seq(Sector) /\ linked' \in BOOLEAN /\ stale' \in Nat
        /\ sealed' \in BOOLEAN /\ last_done' \in BOOLEAN
    BY <1>2, <2>1, <2>2
  <2>4. startsec' \in Int /\ bytes' \in Nat
    BY <1>14, LenProperties DEF WriteBlock, TypeOK
  <2> QED
    BY <1>14, <2>2, <2>3, <2>4 DEF TypeOK, WriteBlock
<1>15. CASE WriteRefused
  <2>1. Refuse /\ islast' = islast
    BY <1>15 DEF WriteRefused
  <2>2. errs' \in Nat /\ retried' \in BOOLEAN /\ pc' \in {"address", "abandon"}
    <3>1. errs' \in {errs, errs + 1} /\ pc' \in {"address", "abandon"}
      BY <1>15 DEF WriteRefused
    <3>2. retried' = TRUE \/ retried' = retried
      BY <1>15 DEF WriteRefused
    <3>3. errs \in Nat
      BY DEF TypeOK
    <3>4. retried \in BOOLEAN
      BY DEF TypeOK
    <3>5. retried' \in BOOLEAN
      BY <3>2, <3>4
    <3> QED
      BY <3>1, <3>3, <3>5
  <2> QED
    BY <1>3, <1>15, <2>1, <2>2 DEF TypeOK, WriteRefused
<1>16. CASE PacketTorn
  <2>1. PICK k \in 0 .. Len(buf) - 1 :
           /\ disc' = disc \o SubSeq(buf, 1, k) \o Fill("gap", Link)
           /\ stale' \in {0, IF k = 0 THEN Link ELSE 0}
    BY <1>16 DEF PacketTorn
  <2>2. SubSeq(buf, 1, k) \in Seq(Sector)
    <3>1. \A i \in 1 .. k : buf[i] \in Sector
      BY <2>1, ElementOfSeq, LenProperties DEF TypeOK
    <3> QED
      BY <2>1, <3>1, SubSeqProperties
  <2>3. disc' \in Seq(Sector)
    <3>1. Fill("gap", Link) \in Seq(Sector) /\ disc \in Seq(Sector)
      BY <1>1, FillIs DEF TypeOK
    <3>2. disc \o SubSeq(buf, 1, k) \in Seq(Sector)
      BY <2>2, <3>1, ConcatProperties
    <3> QED
      BY <2>1, <3>1, <3>2, ConcatProperties
  <2>4. stale' \in Nat
    BY <1>1, <2>1
  <2> QED
    BY <1>16, <2>3, <2>4 DEF TypeOK, PacketTorn, history
<1>17. CASE PadTail
  <2>1. bytes \div SecSize \in Nat
    <3>1. bytes \in Nat
      BY DEF TypeOK
    <3> QED
      BY <1>1, <3>1, SMT
  <2>2. padsecs' \in Nat /\ amt' \in Nat /\ bytespt' \in Nat
    BY <1>1, <1>17, <2>1 DEF PadTail, TypeOK, Most
  <2> QED
    BY <1>17, <2>2 DEF TypeOK, PadTail, drive, history
<1>18. disc \o Dummy \o RunOutBlocks \in Seq(Sector)
  <2>1. Dummy \in Seq(Sector) /\ RunOutBlocks \in Seq(Sector)
    BY <1>1, FillIs, EmptySeq DEF Dummy, RunOutBlocks
  <2> QED
    BY <2>1, ConcatProperties DEF TypeOK
<1>19. CASE CloseTrack
  <2>1. trk' \in 1 .. Len(session.tracks)
    BY <1>19, TrackFacts DEF CloseTrack
  <2> QED
    BY <1>18, <1>19, <2>1 DEF TypeOK, CloseTrack, job, history
<1>20. CASE CloseFails
  BY <1>20 DEF TypeOK, CloseFails, drive, history, job
<1>21. CASE AbandonTrack
  BY <1>18, <1>21 DEF TypeOK, AbandonTrack, history, job
<1>22. CASE Fixate
  BY <1>22 DEF TypeOK, Fixate, drive, history, job
<1> QED
  BY <1>4, <1>5, <1>6, <1>7, <1>8, <1>9, <1>10, <1>11, <1>12, <1>13, <1>14, <1>15,
     <1>16, <1>17, <1>19, <1>20, <1>21, <1>22 DEF Burn

(* No step leaves the drive of a TEAC track waiting for another block.      *)
LEMMA LinkStep ==
    ASSUME TypeOK, Numbers, LinkInv, Burn
    PROVE  LinkInv'
<1>1. /\ Teac => Plain
      /\ errs \in Nat
      /\ {islast, last_done, linked, sealed, padlost} \subseteq BOOLEAN
      /\ Fill("dummy", 1) # <<>>
  <2>1. Fill("dummy", 1) # <<>>
    BY TrackFacts, FillIs, EmptySeq
  <2> QED
    BY <2>1, TrackFacts DEF TypeOK, Plain
<1>2. Teac' <=> Teac
  BY DEF Burn, OpenTrack, OpenFails, PadBlock, PadRefused, BeginTrack, ReadBlock, InputEnds,
     InputFails, NextAddress, NoAddress, WriteBlock, WriteRefused, PacketTorn, PadTail,
     CloseTrack, CloseFails, AbandonTrack, Fixate, Teac
<1>3. CASE OpenTrack \/ OpenFails
  BY <1>1, <1>2, <1>3 DEF OpenTrack, OpenFails, LinkInv, InTrack, TrackClosed, drive, history
<1>4. CASE PadBlock
  BY <1>1, <1>2, <1>4 DEF PadBlock, Accept, PadLast, LinkInv, Numbers, InTrack, TrackClosed
<1>5. CASE PadRefused
  BY <1>1, <1>2, <1>5 DEF PadRefused, Refuse, PadLast, LinkInv, InTrack, TrackClosed
<1>6. CASE BeginTrack
  BY <1>1, <1>2, <1>6 DEF BeginTrack, LinkInv, InTrack, TrackClosed, drive, history
<1>7. CASE ReadBlock
  BY <1>1, <1>2, <1>7, BlockRead DEF ReadBlock, LinkInv, InTrack, TrackClosed, drive, history, Going
<1>8. CASE InputEnds \/ InputFails \/ NextAddress \/ NoAddress
  BY <1>1, <1>2, <1>8 DEF InputEnds, InputFails, NextAddress, NoAddress, LinkInv, InTrack,
     TrackClosed, drive, history
<1>9. CASE WriteBlock
  BY <1>1, <1>2, <1>9 DEF WriteBlock, Accept, LinkInv, InTrack, TrackClosed, Numbers, AtBlock
<1>10. CASE WriteRefused
  BY <1>1, <1>2, <1>10 DEF WriteRefused, Refuse, LinkInv, InTrack, TrackClosed, Plain
<1>11. CASE PacketTorn
  BY <1>1, <1>2, <1>11 DEF PacketTorn, LinkInv, InTrack, TrackClosed, Plain, history
<1>12. CASE PadTail
  BY <1>1, <1>2, <1>12 DEF PadTail, LinkInv, InTrack, TrackClosed, drive, history
<1>13. CASE CloseTrack
  <2>1. trk' = Len(session.tracks)' \/ pc' = "open"
    BY <1>13, TrackFacts DEF CloseTrack
  <2>2. pc' \in {"open", "fixate"} /\ outcome' = "running"
    BY <1>13 DEF CloseTrack, LinkInv, TypeOK
  <2> QED
    BY <1>1, <1>2, <1>13, <2>1, <2>2 DEF CloseTrack, LinkInv, InTrack, TrackClosed, Dummy, history
<1>14. CASE CloseFails
  BY <1>1, <1>2, <1>14 DEF CloseFails, LinkInv, InTrack, TrackClosed, drive, history
<1>15. CASE AbandonTrack
  BY <1>1, <1>2, <1>15 DEF AbandonTrack, LinkInv, InTrack, TrackClosed, history
<1>16. CASE Fixate
  BY <1>1, <1>2, <1>16 DEF Fixate, LinkInv, InTrack, TrackClosed, drive, history
<1> QED
  BY <1>3, <1>4, <1>5, <1>6, <1>7, <1>8, <1>9, <1>10, <1>11, <1>12, <1>13, <1>14,
     <1>15, <1>16 DEF Burn

(* A number is a multiple exactly when the rest of its division is zero.    *)
LEMMA Multiples ==
    ASSUME NEW a \in Int, NEW b \in Nat \ {0}
    PROVE  /\ \A m \in Int : a = m * b => a % b = 0
           /\ a % b = 0 => \E m \in Int : a = m * b
<1>1. a = b * (a \div b) + (a % b) /\ a \div b \in Int
  OBVIOUS
<1>2. ASSUME NEW m \in Int, a = m * b
      PROVE  a % b = 0
  BY <1>2
<1>3. ASSUME a % b = 0
      PROVE  a = (a \div b) * b
  BY <1>3
<1> QED
  BY <1>1, <1>2, <1>3

(* A number of whole transfers, and one that lies between two of them.      *)
LEMMA WholeTransfers ==
    ASSUME TypeOK, NEW n \in Nat, Whole(n)
    PROVE  /\ n % Transfer = 0
           /\ Whole(n + Transfer)
           /\ \E m \in Nat : n = m * SecSize
           /\ \A j \in Nat : n < j /\ j < n + Transfer => j % Transfer # 0
<1> DEFINE B == Transfer
<1>1. B \in Nat \ {0} /\ T.spt \in Nat \ {0} /\ SecSize \in Nat \ {0} /\ B = T.spt * SecSize
  BY TrackFacts, TrackNumbers DEF Transfer, TrackOK
<1>2. PICK m \in 0 .. n : n = m * B
  BY DEF Whole
<1>3. m \in Nat /\ m + 1 \in Nat /\ m * B \in Nat /\ (m + 1) * B = m * B + B
  BY <1>1, SMT
<1>4. n % B = 0
  <2> HIDE DEF B
  <2>1. n \in Int /\ m \in Int /\ B \in Nat \ {0} /\ n = m * B
    BY <1>1, <1>2, <1>3
  <2> QED
    BY <2>1, Multiples, Zenon
<1>5. m + 1 \in 0 .. n + B
  <2> HIDE DEF B
  <2>1. m <= n
    BY <1>2
  <2> QED
    BY <1>1, <1>3, <2>1
<1>6. Whole(n + Transfer)
  BY <1>2, <1>3, <1>5 DEF Whole
<1>7. n = (m * T.spt) * SecSize /\ m * T.spt \in Nat
  <2>1. m * (T.spt * SecSize) = (m * T.spt) * SecSize
    BY <1>1, <1>3, SMT
  <2>2. m * T.spt \in Nat
    BY <1>1, <1>3, SMT
  <2> QED
    BY <1>1, <1>2, <2>1, <2>2
<1>8. ASSUME NEW j \in Nat, n < j, j < n + B, j % B = 0
      PROVE  FALSE
  <2> HIDE DEF B
  <2>1. j \in Int /\ B \in Nat \ {0} /\ j % B = 0
    BY <1>1, <1>8
  <2>2. PICK q \in Int : j = q * B
    BY <2>1, Multiples, Zenon
  <2>3. m * B < q * B /\ q * B < (m + 1) * B
    BY <1>1, <1>2, <1>3, <1>8, <2>2
  <2>4. \A a, b \in Int : a <= b => a * B <= b * B
    BY <1>1, SMT
  <2>5. ~(q <= m) /\ ~(m + 1 <= q)
    <3>1. m \in Int /\ m + 1 \in Int /\ m * B \in Int /\ q * B \in Int /\ (m + 1) * B \in Int
      BY <1>1, <1>3, <2>2, SMT
    <3> QED
      BY <2>2, <2>3, <2>4, <3>1
  <2> QED
    BY <1>3, <2>2, <2>5
<1> QED
  BY <1>4, <1>6, <1>7, <1>8

(* As long as the track is the same, so is what is said of it.              *)
LEMMA SameTrack ==
    ASSUME session' = session, trk' = trk
    PROVE  /\ T' = T /\ Plain' = Plain /\ Transfer' = Transfer /\ Teac' = Teac
           /\ InitialPad(T)' = InitialPad(T) /\ Taken(T)' = Taken(T)
           /\ Padded(T)' = Padded(T) /\ EndsMarked' = EndsMarked
           /\ EndsUnmarked(T)' = EndsUnmarked(T)
           /\ \A n : Whole(n)' = Whole(n)
<1>1. T' = T
  BY DEF T
<1> QED
  BY <1>1 DEF Plain, Transfer, Teac, InitialPad, Taken, Padded, EndsMarked, EndsUnmarked,
     Whole, Sectors, Most, Least

(* The end of a track outside packet mode: a padding rules the flag out,    *)
(* and without one the flag is given unless MarksLast's exceptions hold.    *)
LEMMA MarkOrPad ==
    ASSUME TypeOK
    PROVE  /\ EndsMarked => ~Padded(T)
           /\ ~Padded(T) => (EndsMarked <=> ~EndsUnmarked(T))
<1>1. /\ TrackOK(T) /\ Taken(T) \in Nat /\ InitialPad(T) \in Nat /\ T.file \in Nat
      /\ T.spt * SecSize = Transfer /\ MinSecs \in Nat
  BY TrackFacts, TrackNumbers DEF Transfer, TrackOK
<1>2. Taken(T) \div SecSize >= MinSecs => Sectors(Taken(T)) >= MinSecs
  <2>1. Taken(T) \in Int /\ MinSecs \in Int
    BY <1>1
  <2>2. Taken(T) \div SecSize >= MinSecs => Taken(T) >= MinSecs * SecSize
    BY <2>1, SectorsBound
  <2>3. Taken(T) >= MinSecs * SecSize => Taken(T) \div SecSize >= MinSecs
    BY <2>1, SectorsBound
  <2>4. SecSize \in Nat \ {0}
    BY SizesAssumption
  <2>5. Taken(T) >= MinSecs * SecSize => Sectors(Taken(T)) >= MinSecs
    BY <2>1, <2>4, SMT DEF Sectors
  <2> QED
    BY <2>2, <2>5
<1>3. Taken(T) \div SecSize \in Int /\ Sectors(Taken(T)) \in Int
  <2>1. Taken(T) \in Int /\ SecSize \in Nat \ {0}
    BY <1>1, SizesAssumption
  <2>2. Taken(T) \div SecSize \in Int
    BY <2>1, SMT
  <2> QED
    BY <2>1, <2>2, SectorsBound
<1>4. EndsMarked => ~Padded(T)
  BY <1>1, <1>2, <1>3 DEF EndsMarked, Padded
<1>5. ASSUME ~Padded(T)
      PROVE  EndsMarked <=> ~EndsUnmarked(T)
  <2>1. InitialPad(T) = 0
    BY <1>1, <1>5 DEF Padded
  <2>2. T.file > 0 <=> T.file # 0
    BY <1>1
  <2>3. Taken(T) \div SecSize >= MinSecs <=> ~(Taken(T) \div SecSize < MinSecs)
    BY <1>1, <1>3
  <2>4. Transfer = T.spt * SecSize
    BY <1>1
  <2>5. EndsUnmarked(T) <=>
           \/ Taken(T) # T.size /\ Taken(T) % Transfer = 0
           \/ ~T.short /\ Taken(T) \div SecSize < MinSecs
           \/ T.file = 0
    BY <1>5, <2>4, Zenon DEF EndsUnmarked
  <2> QED
    BY <2>1, <2>2, <2>3, <2>5, Zenon DEF EndsMarked
<1> QED
  BY <1>4, <1>5

(* fill_buf() flags the block that ends the input, if it does so at the     *)
(* announced size or within a transfer, and nothing has to follow.          *)
LEMMA FlagRead ==
    ASSUME TypeOK, Numbers, ReadBlock
    PROVE  /\ islast' => T.size = 0 \/ bytes_read' = Taken(T)
           /\ Plain => (islast' <=> (T.size = 0 \/ bytes_read' = Taken(T)) /\ EndsMarked)
<1>1. /\ TrackOK(T) /\ Taken(T) \in Nat /\ Taken(T) <= T.file
      /\ T.size >= 0 => Taken(T) <= T.size
      /\ T.size = 0 => Taken(T) = 0
      /\ Transfer \in Nat \ {0} /\ SecSize \in Nat \ {0} /\ Transfer = T.spt * SecSize
      /\ T.size \in Int /\ T.file \in Nat /\ T.spt \in Nat \ {0} /\ T.size >= -1
      /\ MinSecs \in Nat
      /\ T.size = 0 => T.file = 0 \/ T.spt < MinSecs
  BY TrackFacts, TrackNumbers DEF Transfer, TrackOK
<1>2. /\ Going /\ padsecs = InitialPad(T) /\ T' = T /\ bytes_read' \in Nat
      /\ T.size = 0 => bytes = 0 /\ T.file > 0
      /\ bytes < bytes_read' /\ bytes_read' <= bytes + Transfer
      /\ T.size # 0 => /\ bytes_read' <= Taken(T)
                       /\ bytes_read' < bytes + Transfer => bytes_read' = Taken(T)
      /\ Kept' = IF T.size = 0 THEN 0 ELSE bytes_read' - bytes
      /\ islast' <=> /\ (T.size >= 0 /\ bytes_read' >= T.size) \/ Kept' < Transfer
                     /\ MayBeLast(bytes_read')
      /\ bytes \in Nat /\ padsecs' = padsecs
  BY BlockRead DEF TypeOK, ReadBlock
<1>3. T.size # 0 /\ ((T.size >= 0 /\ bytes_read' >= T.size) \/ Kept' < Transfer)
         => bytes_read' = Taken(T)
  BY <1>1, <1>2
<1>4. ASSUME T.size = 0, Plain
      PROVE  islast' <=> EndsMarked
  <2>1. bytes_read' \div SecSize < MinSecs /\ bytes_read' \div SecSize \in Int
    <3>1. bytes_read' \in Int /\ bytes_read' <= T.spt * SecSize
      BY <1>1, <1>2, <1>4
    <3>2. MinSecs * SecSize > T.spt * SecSize
      <4>1. \A a, b \in Nat : a < b => b * SecSize > a * SecSize
        BY <1>1, SMT
      <4> QED
        BY <1>1, <1>2, <1>4, <4>1
    <3>3. bytes_read' \div SecSize \in Int
      BY <1>1, <3>1, SMT
    <3>4. MinSecs * SecSize \in Int /\ T.spt * SecSize \in Int
      BY <1>1, SMT
    <3>5. bytes_read' \div SecSize >= MinSecs => bytes_read' >= MinSecs * SecSize
      <4>1. bytes_read' \in Int /\ MinSecs \in Int
        BY <1>1, <3>1
      <4> QED
        BY <4>1, SectorsBound
    <3>6. MinSecs \in Int /\ bytes_read' \in Int
      BY <1>1, <1>2
    <3> QED
      BY <3>1, <3>2, <3>3, <3>4, <3>5, <3>6
  <2>2. Taken(T) \div SecSize = 0 /\ MinSecs > 0
    <3>1. 0 \div SecSize = 0
      BY <1>1, SMT
    <3> QED
      BY <1>1, <1>2, <1>4, <3>1
  <2>3. MayBeLast(bytes_read') <=> padsecs = 0 /\ T.short
    BY <1>1, <1>4, <2>1 DEF MayBeLast, Plain
  <2>4. EndsMarked <=> InitialPad(T) = 0 /\ T.short
    BY <1>1, <1>2, <1>4, <2>2 DEF EndsMarked
  <2>5. T.size >= 0 /\ bytes_read' >= T.size
    BY <1>1, <1>2, <1>4
  <2> QED
    BY <1>2, <2>3, <2>4, <2>5
<1>5. ASSUME T.size # 0, Plain
      PROVE  islast' <=> bytes_read' = Taken(T) /\ EndsMarked
  <2>1. ASSUME bytes_read' = Taken(T)
        PROVE  Taken(T) = T.size \/ Taken(T) % Transfer # 0
                  <=> (T.size >= 0 /\ bytes_read' >= T.size) \/ Kept' < Transfer
    <3>1. Whole(bytes)
      BY <1>2 DEF Going
    <3>2. bytes_read' < bytes + Transfer => Taken(T) % Transfer # 0
      BY <1>1, <1>2, <2>1, <3>1, WholeTransfers
    <3>3. bytes_read' = bytes + Transfer => Taken(T) % Transfer = 0
      <4>1. bytes \in Nat /\ bytes + Transfer \in Nat
        BY <1>1, <1>2
      <4>2. Whole(bytes + Transfer)
        BY <3>1, <4>1, WholeTransfers, Zenon
      <4>3. (bytes + Transfer) % Transfer = 0
        BY <4>1, <4>2, WholeTransfers, Zenon
      <4> QED
        BY <2>1, <4>3
    <3>4. Kept' < Transfer <=> bytes_read' < bytes + Transfer
      BY <1>1, <1>2, <1>5
    <3>5. bytes_read' < bytes + Transfer \/ bytes_read' = bytes + Transfer
      <4>1. bytes_read' \in Int /\ bytes \in Int /\ Transfer \in Int
        BY <1>1, <1>2
      <4>2. bytes_read' <= bytes + Transfer
        BY <1>2
      <4> QED
        BY <4>1, <4>2
    <3>6. (T.size >= 0 /\ bytes_read' >= T.size) <=> Taken(T) = T.size
      <4>1. bytes_read' \in Int /\ T.size \in Int /\ Taken(T) \in Nat
        BY <1>1, <1>2
      <4>2. T.size >= 0 => Taken(T) <= T.size
        BY <1>1
      <4> QED
        BY <2>1, <4>1, <4>2
    <3> QED
      BY <3>2, <3>3, <3>4, <3>5, <3>6
  <2>2. bytes_read' = Taken(T) => T.file > 0
    BY <1>1, <1>2
  <2>3. MayBeLast(bytes_read') <=>
           padsecs = 0 /\ (T.short \/ bytes_read' \div SecSize >= MinSecs)
    BY <1>5 DEF MayBeLast, Plain
  <2> QED
    BY <1>2, <1>3, <1>5, <2>1, <2>2, <2>3 DEF EndsMarked
<1> QED
  BY <1>2, <1>3, <1>4, <1>5

(* The block at hand is as long as its input and what fills its packet, and *)
(* a transfer long unless the input ends with it.                           *)
LEMMA BlockLength ==
    ASSUME TypeOK, Numbers, AtBlock
    PROVE  /\ Kept \in Nat /\ Rest \in Nat /\ Len(buf) = Sectors(Kept) + Rest
           /\ bytespt = Len(buf) * SecSize /\ bytespt \in Nat
           /\ Len(Payload(bytes, Sectors(Kept))) = Sectors(Kept) /\ Sectors(Kept) \in Nat
           /\ T.size # 0 => bytespt >= Kept
           /\ T.pkt # "fixed" => bytespt = Sectors(Kept) * SecSize
           /\ Kept = Transfer => bytespt = Transfer
<1>1. /\ TrackOK(T) /\ T.spt \in Nat \ {0} /\ SecSize \in Nat \ {0} /\ Transfer = T.spt * SecSize
      /\ Transfer \in Nat /\ bytes \in Nat /\ bytes_read \in Nat /\ trk \in Nat \ {0}
  BY TrackFacts, TrackNumbers DEF TypeOK, Transfer, TrackOK
<1>2. /\ T.size # 0 => bytes < bytes_read /\ bytes_read <= bytes + Transfer
      /\ buf = Payload(bytes, Sectors(Kept)) \o Fill("pad", Rest)
      /\ bytespt = Len(buf) * SecSize
  BY DEF Numbers
<1>3. Kept \in Nat /\ Kept <= Transfer
  BY <1>1, <1>2 DEF Kept
<1>4. Kept \in Int /\ T.spt \in Int
  BY <1>1, <1>3
<1>5. Sectors(Kept) \in Nat /\ Sectors(Kept) * SecSize >= Kept
  BY <1>3, <1>4, SectorsBound
<1>6. Sectors(Kept) <= T.spt /\ (Kept = Transfer => Sectors(Kept) = T.spt)
  <2>1. Kept <= T.spt * SecSize
    BY <1>1, <1>3
  <2> QED
    BY <1>1, <1>4, <2>1, SectorsSplit
<1>7. Rest \in Nat /\ (T.pkt # "fixed" \/ Kept = Transfer => Rest = 0)
  BY <1>1, <1>5, <1>6 DEF Rest
<1>8. Rest \in Int /\ (Rest > 0 \/ Rest = 0)
  BY <1>7
<1>9. Len(Fill("pad", Rest)) = Rest /\ Fill("pad", Rest) \in Seq(Sector)
  BY <1>1, <1>8, FillIs
<1>10. /\ Payload(bytes, Sectors(Kept)) \in Seq(Sector)
       /\ Len(Payload(bytes, Sectors(Kept))) = Sectors(Kept)
  BY <1>1, <1>5, PayloadIs
<1>11. Len(buf) = Sectors(Kept) + Rest
  BY <1>2, <1>9, <1>10, ConcatProperties
<1>12. T.pkt # "fixed" => bytespt = Sectors(Kept) * SecSize
  BY <1>2, <1>5, <1>7, <1>11
<1>13. Kept = Transfer => bytespt = Transfer
  BY <1>1, <1>2, <1>6, <1>7, <1>11
<1>14. bytespt \in Nat /\ bytespt >= Kept
  <2>1. \A a, b \in Nat : (a + b) * SecSize \in Nat /\ (a + b) * SecSize >= a * SecSize
    BY <1>1, SMT
  <2>2. Sectors(Kept) * SecSize \in Int
    BY <1>1, <1>5, SMT
  <2>3. bytespt = (Sectors(Kept) + Rest) * SecSize
    BY <1>2, <1>11
  <2>4. bytespt \in Nat /\ bytespt >= Sectors(Kept) * SecSize
    BY <1>5, <1>7, <2>1, <2>3
  <2> QED
    BY <1>3, <1>5, <2>2, <2>4
<1> QED
  BY <1>2, <1>3, <1>5, <1>7, <1>10, <1>11, <1>12, <1>13, <1>14

(* The block at hand holds the input behind what was sent, then padding.    *)
LEMMA BlockIs ==
    ASSUME TypeOK, Numbers, AtBlock
    PROVE  \E m \in Nat :
              /\ bytes = m * SecSize /\ Sectors(bytes) = m
              /\ Sectors(bytes + Kept) = m + Sectors(Kept)
              /\ \A r \in 1 .. Sectors(Kept) : buf[r] = Data(trk, (m + r - 1) * SecSize)
              /\ \A r \in 1 .. Len(buf) : r > Sectors(Kept) => buf[r] = <<"pad", trk, 0>>
<1> DEFINE n == Sectors(Kept)
           P == Payload(bytes, n)
           F == Fill("pad", Rest)
<1>1. /\ n \in Nat /\ Kept \in Nat /\ Rest \in Nat /\ Len(buf) = n + Rest /\ Len(P) = n
      /\ bytes \in Nat /\ trk \in Nat \ {0} /\ SecSize \in Nat \ {0} /\ Whole(bytes)
      /\ buf = P \o F
  BY BlockLength, TrackFacts, SizesAssumption DEF TypeOK, Numbers
<1> HIDE DEF n
<1>2. PICK m \in Nat : bytes = m * SecSize
  BY <1>1, WholeTransfers
<1>3. m \in Int /\ Kept \in Int /\ Rest \in Int
  BY <1>1, <1>2
<1>4. Sectors(bytes + Kept) = m + n /\ Sectors(bytes) = m
  BY <1>2, <1>3, SectorsSplit DEF n
<1>5. P \in Seq(Sector) /\ \A k \in 1 .. n : P[k] = Data(trk, bytes + (k - 1) * SecSize)
  BY <1>1, PayloadIs
<1>6. F \in Seq(Sector) /\ Len(F) = Rest /\ \A k \in 1 .. Len(F) : F[k] = <<"pad", trk, 0>>
  <2>1. /\ F \in Seq(Sector) /\ \A k \in 1 .. Len(F) : F[k] = <<"pad", trk, 0>>
        /\ Len(F) = IF Rest > 0 THEN Rest ELSE 0
    BY <1>1, <1>3, FillIs
  <2> QED
    BY <1>1, <2>1
<1> HIDE DEF P, F
<1>7. \A i \in 1 .. n + Rest : buf[i] = IF i <= n THEN P[i] ELSE F[i - n]
  BY <1>1, <1>5, <1>6, ConcatProperties
<1>8. ASSUME NEW r \in 1 .. n
      PROVE  buf[r] = Data(trk, (m + r - 1) * SecSize)
  <2>1. buf[r] = P[r]
    BY <1>1, <1>7
  <2>2. (m + r - 1) * SecSize = m * SecSize + (r - 1) * SecSize
    <3>1. \A a, b \in Int : (a + b) * SecSize = a * SecSize + b * SecSize
      BY <1>1, SMT
    <3>2. m + r - 1 = m + (r - 1) /\ r - 1 \in Int /\ m \in Int
      BY <1>1
    <3> QED
      BY <3>1, <3>2
  <2> QED
    BY <1>2, <1>5, <2>1, <2>2
<1>9. ASSUME NEW r \in 1 .. Len(buf), r > n
      PROVE  buf[r] = <<"pad", trk, 0>>
  <2>1. buf[r] = F[r - n] /\ r - n \in 1 .. Rest
    BY <1>1, <1>7, <1>9
  <2> QED
    BY <1>6, <2>1
<1> QED
  BY <1>2, <1>4, <1>8, <1>9 DEF n

(* What the counters say when the drive has taken the block at hand.        *)
LEMMA WriteCounts ==
    ASSUME TypeOK, Numbers, WriteBlock
    PROVE  /\ pc' = "read" => Going' \/ (T.file > 0 /\ T.file <= bytes_read /\ T.size # 0 /\ Over')
           /\ pc' = "after" => Over'
<1>1. /\ TrackOK(T) /\ Taken(T) \in Nat /\ Taken(T) <= T.file
      /\ Taken(T) = T.file \/ Taken(T) = T.size
      /\ T.size >= 0 => Taken(T) <= T.size
      /\ T.size = 0 => Taken(T) = 0
      /\ T.size \in Int /\ T.size >= -1 /\ T.file \in Nat
      /\ Transfer \in Nat \ {0} /\ SecSize \in Nat \ {0}
      /\ bytes \in Nat /\ bytes_read \in Nat /\ islast \in BOOLEAN
  BY TrackFacts, TrackNumbers DEF TypeOK, Transfer, TrackOK
<1>2. /\ AtBlock /\ Whole(bytes) /\ ~sealed
      /\ T.size = 0 => bytes = 0 /\ T.file > 0
      /\ T.size # 0 => /\ bytes < bytes_read /\ bytes_read <= bytes + Transfer
                       /\ bytes_read <= Taken(T)
                       /\ bytes_read < bytes + Transfer => bytes_read = Taken(T)
      /\ islast => T.size = 0 \/ bytes_read = Taken(T)
      /\ Plain => (islast <=> (T.size = 0 \/ bytes_read = Taken(T)) /\ EndsMarked)
  BY DEF Numbers, WriteBlock, AtBlock
<1>3. /\ bytes_read' = bytes_read /\ bytespt' = bytespt /\ bytes' = bytes + bytespt
      /\ islast' = islast /\ (sealed' <=> islast)
      /\ pc' = IF T.size < 0 \/ bytes_read < T.size THEN "read" ELSE "after"
      /\ session' = session /\ trk' = trk
  BY <1>2, Zenon DEF WriteBlock, Accept
<1>4. /\ bytespt \in Nat /\ Kept \in Nat
      /\ T.size # 0 => bytespt >= Kept
      /\ T.pkt # "fixed" => bytespt = Sectors(Kept) * SecSize
      /\ Kept = Transfer => bytespt = Transfer
      /\ Kept = IF T.size = 0 THEN 0 ELSE bytes_read - bytes
  BY <1>2, BlockLength DEF Kept
<1>5. ASSUME T.size = 0 \/ bytes_read = Taken(T)
      PROVE  Over'
  <2>1. bytes' >= bytes_read' \/ T.size = 0
    BY <1>1, <1>3, <1>4
  <2>2. ASSUME T.pkt # "fixed"
        PROVE  bytes' = Sectors(Taken(T)) * SecSize
    <3>1. PICK m \in Nat : bytes = m * SecSize
      BY <1>1, <1>2, WholeTransfers
    <3>2. Kept \in Int /\ m \in Int /\ Taken(T) = m * SecSize + Kept
      <4>1. Taken(T) = bytes + Kept
        BY <1>1, <1>2, <1>4, <1>5
      <4> QED
        BY <1>4, <3>1, <4>1
    <3>3. Sectors(Taken(T)) = m + Sectors(Kept)
      BY <3>2, SectorsSplit
    <3>4. Sectors(Kept) \in Int
      BY <3>2, SectorsBound
    <3>5. \A a, b \in Int : (a + b) * SecSize = a * SecSize + b * SecSize
      BY <1>1, SMT
    <3> QED
      BY <1>3, <1>4, <2>2, <3>1, <3>2, <3>3, <3>4, <3>5
  <2>3. T.size # 0 => bytes_read' = Taken(T)
    BY <1>3, <1>5
  <2>4. Plain => (sealed' <=> EndsMarked)
    BY <1>2, <1>3, <1>5
  <2>5. T' = T /\ Plain' = Plain /\ EndsMarked' = EndsMarked /\ Taken(T)' = Taken(T)
    BY <1>3, SameTrack
  <2>6. Over' <=> /\ bytes' >= bytes_read' \/ T'.size = 0
                  /\ Counted(bytes)'
                  /\ T'.size # 0 => bytes_read' = Taken(T)'
                  /\ Plain' => (sealed' <=> EndsMarked')
    BY DEF Over
  <2>7. Counted(bytes)'
    BY <2>2, <2>5 DEF Counted, Sectors
  <2> QED
    BY <2>1, <2>3, <2>4, <2>5, <2>6, <2>7
<1>6. ASSUME T.size # 0, bytes_read # Taken(T), T.size < 0 \/ bytes_read < T.size
      PROVE  Going'
  <2>1. bytes_read = bytes + Transfer /\ Kept = Transfer
    BY <1>1, <1>2, <1>4, <1>6
  <2>2. bytes_read' = bytes' /\ bytespt' = Transfer
    BY <1>1, <1>3, <1>4, <2>1
  <2>3. Whole(bytes')
    BY <1>1, <1>2, <1>3, <2>1, <2>2, WholeTransfers
  <2>4. bytes' <= T.file /\ (T.size > 0 => bytes' < T.size)
    BY <1>1, <1>2, <1>3, <1>6, <2>2
  <2>5. ~islast' /\ ~sealed'
    BY <1>2, <1>3, <1>6
  <2>6. T' = T /\ Transfer' = Transfer
    BY <1>3, SameTrack
  <2>7. Whole(bytes)'
    BY <2>3, <2>6 DEF Whole
  <2> QED
    BY <1>6, <2>2, <2>4, <2>5, <2>6, <2>7 DEF Going
<1>7. pc' = "read" => T.size # 0 /\ (T.size < 0 \/ bytes_read < T.size)
  BY <1>1, <1>3
<1>8. pc' = "after" => T.size = 0 \/ bytes_read = Taken(T)
  BY <1>1, <1>2, <1>3
<1>9. ASSUME bytes_read = Taken(T), T.size # 0, T.size < 0 \/ bytes_read < T.size
      PROVE  T.file > 0 /\ T.file <= bytes_read
  BY <1>1, <1>2, <1>9
<1> QED
  BY <1>5, <1>6, <1>7, <1>8, <1>9

(* Every step keeps Numbers: the flag is given at the end of a track's      *)
(* input and nowhere else.                                                  *)
LEMMA NumbersStep ==
    ASSUME TypeOK, Numbers, Burn
    PROVE  Numbers'
<1>1. /\ TrackOK(T) /\ Taken(T) \in Nat /\ Taken(T) <= T.file
      /\ Taken(T) = T.file \/ Taken(T) = T.size
      /\ T.size = 0 => Taken(T) = 0
      /\ T.size \in Int /\ T.size >= -1 /\ T.file \in Nat
      /\ Transfer = T.spt * SecSize /\ Transfer \in Nat \ {0} /\ SecSize \in Nat \ {0}
      /\ bytes \in Nat /\ bytes_read \in Nat
      /\ MinSecs \in Nat /\ InitialPad(T) \in Nat
  BY TrackFacts, TrackNumbers DEF TypeOK, Transfer, TrackOK
<1>2. /\ sealed \in BOOLEAN /\ islast \in BOOLEAN /\ padlost \in BOOLEAN
  BY DEF TypeOK
\* Steps that leave the track, or that do not look at it yet
<1>3. ASSUME OpenTrack \/ OpenFails \/ InputFails \/ CloseTrack \/ CloseFails
             \/ AbandonTrack \/ Fixate
      PROVE  Numbers'
  <2>1. CASE OpenTrack
    <3>1. /\ pc' \in {"pregap", "begin"} /\ ~sealed' /\ padsecs' = InitialPad(T)
          /\ session' = session /\ trk' = trk
      BY <2>1 DEF OpenTrack
    <3> QED
      BY <3>1, SameTrack DEF Numbers, AtBlock
  <2>2. CASE OpenFails \/ InputFails \/ CloseTrack \/ CloseFails \/ AbandonTrack \/ Fixate
    <3>1. pc' \in {"open", "fixate", "done"}
      BY <2>2 DEF OpenFails, InputFails, CloseTrack, CloseFails, AbandonTrack, Fixate
    <3> QED
      BY <3>1 DEF Numbers, AtBlock
  <2> QED
    BY <1>3, <2>1, <2>2
<1>4. ASSUME PadBlock
      PROVE  Numbers'
  <2>1. /\ pc \in {"pregap", "pad"} /\ session' = session /\ trk' = trk
        /\ padsecs' = padsecs /\ (padlost' <=> padlost)
        /\ islast' = PadLast /\ sealed' = (sealed \/ islast')
        /\ pc' = IF amt > Block THEN pc ELSE IF pc = "pad" THEN "close" ELSE "begin"
    BY <1>4 DEF PadBlock, Accept
  <2>2. amt > Block \/ amt <= Block
    <3>1. amt \in Int /\ bytespt \in Int
      BY DEF TypeOK
    <3>2. bytespt \div SecSize \in Int
      BY <1>1, <3>1, SMT
    <3>3. Block \in Int
      BY <3>1, <3>2 DEF Block, Least
    <3> QED
      BY <3>1, <3>3
  <2>3. amt > Block => ~(amt <= Block)
    <3>1. amt \in Int /\ bytespt \in Int
      BY DEF TypeOK
    <3>2. bytespt \div SecSize \in Int
      BY <1>1, <3>1, SMT
    <3>3. Block \in Int
      BY <3>1, <3>2 DEF Block, Least
    <3> QED
      BY <3>1, <3>3
  <2>4. CASE pc = "pregap"
    <3>1. pc' \in {"pregap", "begin"} /\ ~sealed' /\ padsecs' = InitialPad(T)
      BY <1>2, <2>1, <2>4 DEF PadLast, Numbers
    <3> QED
      BY <2>1, <3>1, SameTrack DEF Numbers, AtBlock
  <2>5. CASE pc = "pad"
    <3>1. Plain => ~sealed /\ Padded(T)
      BY <2>5 DEF Numbers
    <3>2. CASE amt > Block
      <4>1. pc' = "pad" /\ (Plain => ~sealed' /\ Padded(T))
        BY <1>2, <2>1, <2>3, <2>5, <3>1, <3>2 DEF PadLast
      <4> QED
        BY <2>1, <4>1, SameTrack DEF Numbers, AtBlock
    <3>3. CASE ~(amt > Block)
      <4>1. pc' = "close" /\ sealed' /\ (Plain => ~EndsUnmarked(T))
        BY <2>1, <2>2, <2>5, <3>1, <3>3 DEF PadLast, EndsUnmarked
      <4>2. sealed' \in BOOLEAN
        BY <1>2, <2>1 DEF PadLast
      <4> QED
        BY <2>1, <4>1, <4>2, SameTrack DEF Numbers, AtBlock
    <3> QED
      BY <3>2, <3>3
  <2> QED
    BY <2>1, <2>4, <2>5
<1>5. ASSUME PadRefused
      PROVE  Numbers'
  <2>1. /\ pc \in {"pregap", "pad"} /\ session' = session /\ trk' = trk
        /\ padsecs' = padsecs /\ padlost' /\ (sealed' <=> sealed)
        /\ pc' = IF pc = "pad" THEN "close" ELSE IF Teac THEN "fixate" ELSE "begin"
    BY <1>5 DEF PadRefused, Refuse
  <2>2. CASE pc = "pregap"
    <3>1. pc' \in {"begin", "fixate"} /\ ~sealed' /\ padsecs' = InitialPad(T)
      BY <2>1, <2>2 DEF Numbers
    <3> QED
      BY <2>1, <3>1, SameTrack DEF Numbers, AtBlock
  <2>3. CASE pc = "pad"
    BY <2>1, <2>3 DEF Numbers, AtBlock
  <2> QED
    BY <2>1, <2>2, <2>3
<1>6. ASSUME BeginTrack
      PROVE  Numbers'
  <2>1. /\ pc = "begin" /\ pc' = "read" /\ session' = session /\ trk' = trk
        /\ padsecs' = padsecs /\ bytes_read' = 0 /\ bytes' = 0
        /\ bytespt' = T.spt * SecSize /\ ~islast' /\ (sealed' <=> sealed)
    BY <1>6 DEF BeginTrack, history
  <2>2. padsecs = InitialPad(T) /\ ~sealed
    BY <2>1 DEF Numbers
  <2>3. T' = T /\ Transfer' = Transfer /\ InitialPad(T)' = InitialPad(T)
    BY <2>1, SameTrack
  <2>4. Whole(0)
    <3>1. 0 = 0 * Transfer /\ 0 \in 0 .. 0
      BY <1>1
    <3> QED
      BY <3>1 DEF Whole
  <2>5. Whole(bytes)'
    BY <2>1, <2>3, <2>4 DEF Whole
  <2>6. Going'
    BY <1>1, <2>1, <2>2, <2>3, <2>5 DEF Going
  <2> QED
    BY <2>1, <2>2, <2>3, <2>6 DEF Numbers, AtBlock
<1>7. ASSUME ReadBlock
      PROVE  Numbers'
  <2>1. /\ pc' \in {"address", "write"} /\ session' = session /\ trk' = trk
        /\ padsecs' = padsecs /\ bytes' = bytes /\ (sealed' <=> sealed)
    BY <1>7 DEF ReadBlock, history
  <2>2. /\ Going /\ padsecs = InitialPad(T)
        /\ T.size = 0 => bytes = 0 /\ T.file > 0
        /\ bytes < bytes_read' /\ bytes_read' <= bytes + Transfer
        /\ T.size # 0 => /\ bytes_read' <= Taken(T)
                         /\ bytes_read' < bytes + Transfer => bytes_read' = Taken(T)
        /\ buf' = Payload(bytes, Sectors(Kept')) \o Fill("pad", Rest')
        /\ bytespt' = Len(buf') * SecSize
    BY <1>7, BlockRead
  <2>3. /\ islast' => T.size = 0 \/ bytes_read' = Taken(T)
        /\ Plain => (islast' <=> (T.size = 0 \/ bytes_read' = Taken(T)) /\ EndsMarked)
    BY <1>7, FlagRead
  <2>4. /\ T' = T /\ Plain' = Plain /\ Transfer' = Transfer /\ Taken(T)' = Taken(T)
        /\ InitialPad(T)' = InitialPad(T) /\ EndsMarked' = EndsMarked
    BY <2>1, SameTrack
  <2>5. Whole(bytes)' /\ ~sealed'
    BY <2>1, <2>2, <2>4 DEF Going, Whole
  <2>6. buf' = (Payload(bytes, Sectors(Kept)) \o Fill("pad", Rest))'
    BY <2>1, <2>2 DEF Payload, Fill, Data, Sectors
  <2>7. AtBlock'
    BY <2>1 DEF AtBlock
  <2> QED
    BY <2>1, <2>2, <2>3, <2>4, <2>5, <2>6, <2>7, Zenon DEF Numbers, AtBlock
<1>8. ASSUME InputEnds
      PROVE  Numbers'
  <2>1. /\ pc = "read" /\ Got = 0 /\ pc' = "after" /\ session' = session /\ trk' = trk
        /\ padsecs' = padsecs /\ bytes' = bytes /\ bytes_read' = bytes_read
        /\ (sealed' <=> sealed)
    BY <1>8 DEF InputEnds, job, history
  <2>2. padsecs = InitialPad(T)
    BY <2>1 DEF Numbers
  <2>3. ASSUME Going
        PROVE  Over
    <3>1. /\ bytes_read = bytes /\ bytespt = Transfer /\ bytes <= T.file
          /\ T.size > 0 => bytes < T.size
          /\ T.size = 0 => bytes = 0
          /\ Whole(bytes) /\ ~sealed
      BY <2>3 DEF Going
    <3>2. bytes = T.file
      BY <1>1, <2>1, <3>1 DEF Got, Want, Least
    <3>3. Taken(T) = bytes
      BY <1>1, <3>1, <3>2 DEF Taken, Least
    <3>4. Counted(bytes)
      <4>1. PICK m \in Nat : bytes = m * SecSize
        BY <1>1, <3>1, WholeTransfers
      <4>2. Sectors(m * SecSize) = m
        BY <4>1, SectorsSplit
      <4> QED
        BY <3>3, <4>1, <4>2 DEF Counted
    <3>5. bytes % Transfer = 0
      BY <1>1, <3>1, WholeTransfers
    <3>6. ~EndsMarked
      BY <1>1, <3>1, <3>2, <3>3, <3>5 DEF EndsMarked
    <3> QED
      BY <1>1, <3>1, <3>3, <3>4, <3>6 DEF Over
  <2>4. Over
    BY <2>1, <2>3 DEF Numbers
  <2>5. Over'
    BY <2>1, <2>4, SameTrack DEF Over, Counted, Sectors
  <2> QED
    BY <2>1, <2>2, <2>5, SameTrack DEF Numbers, AtBlock
<1>9. ASSUME NextAddress \/ NoAddress \/ WriteRefused \/ PacketTorn
      PROVE  Numbers'
  <2>1. /\ AtBlock /\ pc' \in {"address", "write", "abandon"}
        /\ session' = session /\ trk' = trk
        /\ padsecs' = padsecs /\ bytes' = bytes /\ bytes_read' = bytes_read
        /\ buf' = buf /\ bytespt' = bytespt /\ islast' = islast /\ (sealed' <=> sealed)
    <3>1. CASE NextAddress \/ NoAddress
      BY <3>1 DEF NextAddress, NoAddress, AtBlock, job, history
    <3>2. CASE WriteRefused
      BY <3>2 DEF WriteRefused, Refuse, AtBlock
    <3>3. CASE PacketTorn
      BY <3>3 DEF PacketTorn, AtBlock, history
    <3> QED
      BY <1>9, <3>1, <3>2, <3>3
  <2>2. CASE pc' = "abandon"
    BY <2>2 DEF Numbers, AtBlock
  <2>3. CASE pc' # "abandon"
    <3>1. /\ T' = T /\ Plain' = Plain /\ Transfer' = Transfer /\ Taken(T)' = Taken(T)
          /\ InitialPad(T)' = InitialPad(T) /\ EndsMarked' = EndsMarked
      BY <2>1, SameTrack
    <3>2. /\ padsecs = InitialPad(T) /\ Whole(bytes) /\ ~sealed
          /\ T.size = 0 => bytes = 0 /\ T.file > 0
          /\ T.size # 0 => /\ bytes < bytes_read /\ bytes_read <= bytes + Transfer
                           /\ bytes_read <= Taken(T)
                           /\ bytes_read < bytes + Transfer => bytes_read = Taken(T)
          /\ buf = Payload(bytes, Sectors(Kept)) \o Fill("pad", Rest)
          /\ bytespt = Len(buf) * SecSize
          /\ islast => T.size = 0 \/ bytes_read = Taken(T)
          /\ Plain => (islast <=> (T.size = 0 \/ bytes_read = Taken(T)) /\ EndsMarked)
      BY <2>1 DEF Numbers, AtBlock
    <3>3. Whole(bytes)'
      BY <2>1, <3>1, <3>2 DEF Whole
    <3>4. Kept' = Kept /\ Rest' = Rest
      BY <2>1, <3>1 DEF Kept, Rest, Sectors
    <3>5. (Payload(bytes, Sectors(Kept)) \o Fill("pad", Rest))' = buf
      BY <2>1, <3>2, <3>4 DEF Payload, Fill, Data, Sectors
    <3>6. pc' \in {"address", "write"} /\ AtBlock'
      BY <2>1, <2>3 DEF AtBlock
    <3> QED
      BY <2>1, <3>1, <3>2, <3>3, <3>5, <3>6, Zenon DEF Numbers, AtBlock
  <2> QED
    BY <2>2, <2>3
<1>10. ASSUME WriteBlock
       PROVE  Numbers'
  <2>1. /\ pc = "write" /\ pc' \in {"read", "after"} /\ session' = session /\ trk' = trk
        /\ padsecs' = padsecs /\ bytes_read' = bytes_read
    BY <1>10 DEF WriteBlock
  <2>2. /\ pc' = "read" => Going' \/ (T.file > 0 /\ T.file <= bytes_read /\ T.size # 0 /\ Over')
        /\ pc' = "after" => Over'
    BY <1>10, WriteCounts
  <2>3. padsecs = InitialPad(T)
    BY <2>1 DEF Numbers
  <2> QED
    BY <2>1, <2>2, <2>3, SameTrack DEF Numbers, AtBlock
<1>11. ASSUME PadTail
       PROVE  Numbers'
  <2> DEFINE lacks == MinSecs - bytes \div SecSize
  <2>1. /\ pc = "after" /\ session' = session /\ trk' = trk /\ (sealed' <=> sealed)
        /\ padsecs' = IF ~T.short /\ lacks > 0 THEN Most(padsecs, lacks) ELSE padsecs
        /\ pc' = IF padsecs' > 0 THEN "pad" ELSE "close"
    BY <1>11 DEF PadTail, history
  <2>2. padsecs = InitialPad(T) /\ Over
    BY <2>1 DEF Numbers
  <2>3. ASSUME Plain
        PROVE  padsecs' > 0 <=> Padded(T)
    <3>1. bytes = Sectors(Taken(T)) * SecSize
      BY <2>2, <2>3 DEF Over, Counted, Plain
    <3>2. Taken(T) \in Int
      BY <1>1
    <3>3. Sectors(Taken(T)) \in Int
      BY <3>2, SectorsBound
    <3>4. (Sectors(Taken(T)) * SecSize) \div SecSize = Sectors(Taken(T))
      BY <3>3, SectorsSplit
    <3>5. lacks = MinSecs - Sectors(Taken(T))
      BY <3>1, <3>4
    <3> HIDE DEF lacks
    <3> QED
      BY <1>1, <2>1, <2>2, <3>3, <3>5 DEF Padded, Most
  <2>4. Plain => (sealed <=> EndsMarked)
    BY <2>2 DEF Over
  <2>5. /\ EndsMarked => ~Padded(T)
        /\ ~Padded(T) => (EndsMarked <=> ~EndsUnmarked(T))
    BY MarkOrPad
  <2>6. /\ Plain /\ pc' = "pad" => Padded(T) /\ ~sealed'
        /\ Plain /\ pc' = "close" => (sealed' <=> ~EndsUnmarked(T))
    BY <2>1, <2>3, <2>4, <2>5
  <2>7. pc' \in {"pad", "close"}
    BY <2>1
  <2> HIDE DEF lacks
  <2> QED
    BY <2>1, <2>6, <2>7, SameTrack DEF Numbers, AtBlock
<1> QED
  BY <1>3, <1>4, <1>5, <1>6, <1>7, <1>8, <1>9, <1>10, <1>11 DEF Burn
-----------------------------------------------------------------------------
(* What follows is said of the medium: blocks are added at its end.         *)
LEMMA Appended ==
    ASSUME TypeOK, NEW c \in Seq(Sector), disc' = disc \o c
    PROVE  /\ Len(disc) \in Nat /\ Len(c) \in Nat
           /\ Len(disc') = Len(disc) + Len(c)
           /\ \A p \in 1 .. Len(disc) : p \in 1 .. Len(disc') /\ disc'[p] = disc[p]
           /\ \A k \in 1 .. Len(c) : /\ Len(disc) + k \in 1 .. Len(disc')
                                     /\ disc'[Len(disc) + k] = c[k]
           /\ \A p \in 1 .. Len(disc') :
                 p \in 1 .. Len(disc) \/ \E k \in 1 .. Len(c) : p = Len(disc) + k
<1>1. disc \in Seq(Sector)
  BY DEF TypeOK
<1>2. Len(disc) \in Nat /\ Len(c) \in Nat
  BY <1>1, LenProperties
<1>3. /\ Len(disc') = Len(disc) + Len(c)
      /\ \A i \in 1 .. Len(disc) + Len(c) :
            disc'[i] = IF i <= Len(disc) THEN disc[i] ELSE c[i - Len(disc)]
  BY <1>1, ConcatProperties
<1>4. ASSUME NEW p \in 1 .. Len(disc), TRUE
      PROVE  p \in 1 .. Len(disc') /\ disc'[p] = disc[p]
  BY <1>2, <1>3
<1>5. ASSUME NEW k \in 1 .. Len(c)
      PROVE  Len(disc) + k \in 1 .. Len(disc') /\ disc'[Len(disc) + k] = c[k]
  <2>1. /\ Len(disc) + k \in 1 .. Len(disc) + Len(c) /\ ~(Len(disc) + k <= Len(disc))
        /\ (Len(disc) + k) - Len(disc) = k
    BY <1>2
  <2> QED
    BY <1>3, <2>1
<1>6. ASSUME NEW p \in 1 .. Len(disc'), p \notin 1 .. Len(disc)
      PROVE  \E k \in 1 .. Len(c) : p = Len(disc) + k
  <2>1. p - Len(disc) \in 1 .. Len(c) /\ p = Len(disc) + (p - Len(disc))
    BY <1>2, <1>3, <1>6
  <2> QED
    BY <2>1
<1> QED
  BY <1>2, <1>3, <1>4, <1>5, <1>6

(* Sectors of different tracks or places differ.                            *)
LEMMA DataDiffer ==
    \A i, j, k, l \in Int : Data(i, k * SecSize) = Data(j, l * SecSize) => i = j /\ k = l
<1>1. SecSize \in Nat \ {0}
  BY SizesAssumption
<1> SUFFICES ASSUME NEW i \in Int, NEW j \in Int, NEW k \in Int, NEW l \in Int,
                    Data(i, k * SecSize) = Data(j, l * SecSize)
             PROVE  i = j /\ k = l
  OBVIOUS
<1>2. i = j /\ k * SecSize = l * SecSize
  BY DEF Data
<1>3. k = l
  BY <1>1, <1>2, SectorsSplit
<1> QED
  BY <1>2, <1>3

LEMMA SentCounts ==
    ASSUME TypeOK, Numbers
    PROVE  \A i \in 1 .. Len(session.tracks) : Sent(i) \in Nat /\ Cut(i) \in Nat /\ Sent(i) <= Cut(i)
<1> SUFFICES ASSUME NEW i \in 1 .. Len(session.tracks)
             PROVE  Sent(i) \in Nat /\ Cut(i) \in Nat /\ Sent(i) <= Cut(i)
  OBVIOUS
<1>1. Sectors(Taken(session.tracks[i])) \in Nat
  BY TrackFacts, TrackNumbers
<1>2. bytes \in Int /\ bytes >= 0 /\ bytes_read \in Int /\ bytes_read >= 0
  BY DEF TypeOK
<1>3. Sectors(bytes) \in Nat /\ Sectors(bytes_read) \in Nat
  BY <1>2, SectorsBound
<1>4. Sent(i) \in Nat
  BY <1>1, <1>3 DEF Sent
<1>5. ASSUME i = trk, AtBlock, T.pkt = "variable"
      PROVE  Cut(i) \in Nat /\ Sent(i) <= Cut(i)
  <2>1. Cut(i) = Sectors(bytes + Kept) /\ Sent(i) = Sectors(bytes)
    BY <1>5 DEF Cut, Sent, Behind, AtInput, AtBlock
  <2>2. Kept \in Nat
    BY <1>5, BlockLength
  <2>3. PICK m \in Nat : bytes = m * SecSize
    <3>1. Whole(bytes) /\ bytes \in Nat
      BY <1>5 DEF Numbers, TypeOK
    <3> QED
      BY <3>1, WholeTransfers
  <2>4. m \in Int /\ Kept \in Int
    BY <2>2, <2>3
  <2>5. Sectors(bytes + Kept) = m + Sectors(Kept) /\ Sectors(bytes) = m
    BY <2>3, <2>4, SectorsSplit
  <2>6. Sectors(Kept) \in Nat
    BY <2>2, SectorsBound
  <2> QED
    BY <2>1, <2>3, <2>5, <2>6
<1>6. ~(i = trk /\ AtBlock /\ T.pkt = "variable") => Cut(i) = Sent(i)
  BY DEF Cut
<1> QED
  BY <1>4, <1>5, <1>6

(* Blocks without input leave what is said of the input on the medium.      *)
LEMMA NoDataAdded ==
    ASSUME TypeOK, DataInv, NEW c \in Seq(Sector), disc' = disc \o c,
           \A k \in 1 .. Len(c) : c[k][1] # "data",
           session' = session, trk' \in Nat, trk <= trk', Sound' => Sound,
           \A i \in 1 .. trk : /\ Sent(i) \in Int /\ Cut(i) \in Int /\ Cut(i)' \in Int
                               /\ Sent(i)' = Sent(i) /\ Cut(i)' >= Cut(i),
           \A i \in 1 .. trk' : i > trk => Sent(i)' = 0
    PROVE  DataInv'
<1> SUFFICES ASSUME Sound'
             PROVE  /\ \A p \in 1 .. Len(disc') : disc'[p][1] = "data" =>
                          \E i \in 1 .. trk' : \E k \in 0 .. Cut(i)' - 1 :
                             disc'[p] = Data(i, k * SecSize)
                    /\ \A i \in 1 .. trk' : \A k \in 0 .. Sent(i)' - 1 :
                          \E p \in At(Data(i, k * SecSize))' :
                             \A j \in 0 .. k - 1 : \A q \in At(Data(i, j * SecSize))' : q < p
                    /\ \A p, q \in 1 .. Len(disc') :
                          /\ disc'[p] = disc'[q] /\ disc'[p][1] = "data"
                          /\ session.tracks[disc'[p][2]].pkt # "variable"
                          => p = q
  BY DEF DataInv, Data
<1>1. /\ \A p \in 1 .. Len(disc) : disc[p][1] = "data" =>
            \E i \in 1 .. trk : \E k \in 0 .. Cut(i) - 1 : disc[p] = Data(i, k * SecSize)
      /\ \A i \in 1 .. trk : \A k \in 0 .. Sent(i) - 1 :
            \E p \in At(Data(i, k * SecSize)) :
               \A j \in 0 .. k - 1 : \A q \in At(Data(i, j * SecSize)) : q < p
      /\ \A p, q \in 1 .. Len(disc) :
            /\ disc[p] = disc[q] /\ disc[p][1] = "data"
            /\ session.tracks[disc[p][2]].pkt # "variable"
            => p = q
  BY DEF DataInv
<1>2. /\ \A p \in 1 .. Len(disc) : p \in 1 .. Len(disc') /\ disc'[p] = disc[p]
      /\ \A p \in 1 .. Len(disc') : disc'[p][1] = "data" => p \in 1 .. Len(disc)
  <2>1. /\ \A p \in 1 .. Len(disc) : p \in 1 .. Len(disc') /\ disc'[p] = disc[p]
        /\ \A k \in 1 .. Len(c) : disc'[Len(disc) + k] = c[k]
        /\ \A p \in 1 .. Len(disc') :
              p \in 1 .. Len(disc) \/ \E k \in 1 .. Len(c) : p = Len(disc) + k
    BY Appended
  <2>2. ASSUME NEW p \in 1 .. Len(disc'), disc'[p][1] = "data"
        PROVE  p \in 1 .. Len(disc)
    <3>1. ASSUME NEW k \in 1 .. Len(c), p = Len(disc) + k
          PROVE  FALSE
      <4>1. disc'[p] = c[k]
        BY <2>1, <3>1
      <4> QED
        BY <2>2, <4>1
    <3> QED
      BY <2>1, <3>1
  <2> QED
    BY <2>1, <2>2
<1>3. \A i, u : At(Data(i, u))' = At(Data(i, u))
  <2> SUFFICES ASSUME NEW i, NEW u
               PROVE  At(Data(i, u))' = At(Data(i, u))
    OBVIOUS
  <2>1. Data(i, u)[1] = "data"
    BY DEF Data
  <2>2. At(Data(i, u))' = {p \in 1 .. Len(disc') : disc'[p] = Data(i, u)}
    BY DEF At, Data
  <2>3. At(Data(i, u)) = {p \in 1 .. Len(disc) : disc[p] = Data(i, u)}
    BY DEF At
  <2>4. \A p : p \in 1 .. Len(disc') /\ disc'[p] = Data(i, u)
                 <=> p \in 1 .. Len(disc) /\ disc[p] = Data(i, u)
    BY <1>2, <2>1, Zenon
  <2>5. \A p : p \in At(Data(i, u))' <=> p \in At(Data(i, u))
    BY <2>2, <2>3, <2>4, Zenon
  <2> QED
    BY <2>5
<1>4. 1 .. trk \subseteq 1 .. trk' /\ trk \in Nat
  BY TrackFacts
<1>5. ASSUME NEW p \in 1 .. Len(disc'), disc'[p][1] = "data"
      PROVE  \E i \in 1 .. trk' : \E k \in 0 .. Cut(i)' - 1 : disc'[p] = Data(i, k * SecSize)
  <2>1. p \in 1 .. Len(disc) /\ disc'[p] = disc[p]
    BY <1>2, <1>5
  <2>2. PICK i \in 1 .. trk : \E k \in 0 .. Cut(i) - 1 : disc[p] = Data(i, k * SecSize)
    BY <1>1, <1>5, <2>1, Zenon
  <2>3. PICK k \in 0 .. Cut(i) - 1 : disc[p] = Data(i, k * SecSize)
    BY <2>2
  <2>4. k \in 0 .. Cut(i)' - 1
    OBVIOUS
  <2> QED
    BY <1>4, <2>1, <2>3, <2>4
<1>6. ASSUME NEW i \in 1 .. trk', NEW k \in 0 .. Sent(i)' - 1
      PROVE  \E p \in At(Data(i, k * SecSize))' :
                \A j \in 0 .. k - 1 : \A q \in At(Data(i, j * SecSize))' : q < p
  <2>1. i \in 1 .. trk
    BY <1>4
  <2>2. k \in 0 .. Sent(i) - 1
    BY <2>1
  <2>3. PICK p \in At(Data(i, k * SecSize)) :
               \A j \in 0 .. k - 1 : \A q \in At(Data(i, j * SecSize)) : q < p
    BY <1>1, <2>1, <2>2, Zenon
  <2> QED
    BY <1>3, <2>3
<1>7. ASSUME NEW p \in 1 .. Len(disc'), NEW q \in 1 .. Len(disc'),
             disc'[p] = disc'[q], disc'[p][1] = "data",
             session.tracks[disc'[p][2]].pkt # "variable"
      PROVE  p = q
  <2>1. disc'[q][1] = "data"
    BY <1>7
  <2>2. /\ p \in 1 .. Len(disc) /\ q \in 1 .. Len(disc)
        /\ disc'[p] = disc[p] /\ disc'[q] = disc[q]
    BY <1>2, <1>7, <2>1
  <2>3. /\ disc[p] = disc[q] /\ disc[p][1] = "data"
        /\ session.tracks[disc[p][2]].pkt # "variable"
    BY <1>7, <2>2
  <2> QED
    BY <1>1, <2>2, <2>3, Zenon
<1> QED
  BY <1>5, <1>6, <1>7

(* The input of a block, all of it or what a torn packet has of it, goes    *)
(* behind everything that was sent before.                                  *)
LEMMA InputAdded ==
    ASSUME TypeOK, Numbers, DataInv, AtBlock, Sound,
           NEW m \in Nat, bytes = m * SecSize,
           NEW n \in Nat, NEW c \in Seq(Sector), disc' = disc \o c, n <= Len(c),
           \A r \in 1 .. n : c[r] = Data(trk, (m + r - 1) * SecSize),
           \A r \in 1 .. Len(c) : r > n => c[r][1] # "data",
           session' = session, trk' = trk,
           \A i \in 1 .. trk : /\ Cut(i)' \in Int /\ Cut(i)' >= Cut(i)
                               /\ i # trk => Sent(i)' = Sent(i),
           Sent(trk)' \in {m, m + n}, Cut(trk)' >= m + n
    PROVE  DataInv'
<1> SUFFICES /\ \A p \in 1 .. Len(disc') : disc'[p][1] = "data" =>
                   \E i \in 1 .. trk : \E k \in 0 .. Cut(i)' - 1 :
                      disc'[p] = Data(i, k * SecSize)
             /\ \A i \in 1 .. trk : \A k \in 0 .. Sent(i)' - 1 :
                   \E p \in At(Data(i, k * SecSize))' :
                      \A j \in 0 .. k - 1 : \A q \in At(Data(i, j * SecSize))' : q < p
             /\ \A p, q \in 1 .. Len(disc') :
                   /\ disc'[p] = disc'[q] /\ disc'[p][1] = "data"
                   /\ session.tracks[disc'[p][2]].pkt # "variable"
                   => p = q
  BY DEF DataInv, Data
<1>1. /\ \A p \in 1 .. Len(disc) : disc[p][1] = "data" =>
            \E i \in 1 .. trk : \E k \in 0 .. Cut(i) - 1 : disc[p] = Data(i, k * SecSize)
      /\ \A i \in 1 .. trk : \A k \in 0 .. Sent(i) - 1 :
            \E p \in At(Data(i, k * SecSize)) :
               \A j \in 0 .. k - 1 : \A q \in At(Data(i, j * SecSize)) : q < p
      /\ \A p, q \in 1 .. Len(disc) :
            /\ disc[p] = disc[q] /\ disc[p][1] = "data"
            /\ session.tracks[disc[p][2]].pkt # "variable"
            => p = q
  BY DEF DataInv
<1>2. /\ Len(disc) \in Nat /\ Len(c) \in Nat
      /\ \A p \in 1 .. Len(disc) : p \in 1 .. Len(disc') /\ disc'[p] = disc[p]
      /\ \A k \in 1 .. Len(c) : /\ Len(disc) + k \in 1 .. Len(disc')
                                /\ disc'[Len(disc) + k] = c[k]
      /\ \A p \in 1 .. Len(disc') :
            p \in 1 .. Len(disc) \/ \E k \in 1 .. Len(c) : p = Len(disc) + k
  BY Appended
<1>3. /\ trk \in Nat \ {0} /\ trk \in 1 .. trk
      /\ Sent(trk) = m /\ (T.pkt # "variable" => Cut(trk) = m)
      /\ \A i \in 1 .. trk : Sent(i) \in Nat /\ Cut(i) \in Nat /\ Sent(i) <= Cut(i)
  <2>1. m \in Int /\ Sectors(m * SecSize) = m
    <3>1. m \in Int
      OBVIOUS
    <3> QED
      BY <3>1, SectorsSplit
  <2>2. Sent(trk) = Sectors(bytes)
    BY TrackFacts DEF Sent, Behind, AtInput, AtBlock
  <2>3. T.pkt # "variable" => Cut(trk) = Sent(trk)
    BY DEF Cut
  <2>4. trk \in Nat \ {0} /\ trk <= Len(session.tracks) /\ Len(session.tracks) \in Nat
    BY TrackFacts
  <2>5. 1 .. trk \subseteq 1 .. Len(session.tracks)
    BY <2>4
  <2> QED
    BY <2>1, <2>2, <2>3, <2>4, <2>5, SentCounts
\* Where input is on the medium afterwards: where it was, and in the block
<1>4. ASSUME NEW p \in 1 .. Len(disc'), disc'[p][1] = "data", p \notin 1 .. Len(disc)
      PROVE  \E r \in 1 .. n : p = Len(disc) + r /\ disc'[p] = Data(trk, (m + r - 1) * SecSize)
  <2>1. PICK r \in 1 .. Len(c) : p = Len(disc) + r
    BY <1>2, <1>4
  <2>2. disc'[p] = c[r]
    BY <1>2, <2>1
  <2>3. r <= n
    BY <1>2, <1>4, <2>1, <2>2
  <2>4. r \in 1 .. n
    BY <2>1, <2>3
  <2> QED
    BY <2>1, <2>2, <2>4
<1>5. ASSUME NEW i \in 1 .. trk, NEW j \in Int, NEW q \in At(Data(i, j * SecSize))'
      PROVE  \/ q \in At(Data(i, j * SecSize))
             \/ i = trk /\ \E r \in 1 .. n : q = Len(disc) + r /\ j = m + r - 1
  <2>1. q \in 1 .. Len(disc') /\ disc'[q] = Data(i, j * SecSize)
    BY DEF At, Data
  <2>2. disc'[q][1] = "data"
    BY <2>1 DEF Data
  <2>3. CASE q \in 1 .. Len(disc)
    BY <1>2, <2>1, <2>3 DEF At
  <2>4. CASE q \notin 1 .. Len(disc)
    <3>1. PICK r \in 1 .. n : q = Len(disc) + r /\ disc'[q] = Data(trk, (m + r - 1) * SecSize)
      BY <1>4, <2>1, <2>2, <2>4
    <3>2. i \in Int /\ trk \in Int /\ m + r - 1 \in Int
      BY <1>3
    <3>3. Data(i, j * SecSize) = Data(trk, (m + r - 1) * SecSize)
      BY <2>1, <3>1
    <3> DEFINE x == m + r - 1
    <3> HIDE DEF x
    <3>4. i \in Int /\ trk \in Int /\ x \in Int
      BY <3>2 DEF x
    <3>5. Data(i, j * SecSize) = Data(trk, x * SecSize)
      BY <3>3 DEF x
    <3>6. i = trk /\ j = x
      BY <3>4, <3>5, DataDiffer
    <3>7. i = trk /\ j = m + r - 1
      BY <3>6 DEF x
    <3> QED
      BY <3>1, <3>7
  <2> QED
    BY <2>3, <2>4
<1>6. ASSUME NEW i, NEW u, NEW p \in At(Data(i, u))
      PROVE  p \in At(Data(i, u))' /\ p \in 1 .. Len(disc)
  BY <1>2 DEF At, Data
<1>7. ASSUME NEW p \in 1 .. Len(disc'), disc'[p][1] = "data"
      PROVE  \E i \in 1 .. trk : \E k \in 0 .. Cut(i)' - 1 : disc'[p] = Data(i, k * SecSize)
  <2>1. CASE p \in 1 .. Len(disc)
    <3>1. disc'[p] = disc[p]
      BY <1>2, <2>1
    <3>2. PICK i \in 1 .. trk : \E k \in 0 .. Cut(i) - 1 : disc[p] = Data(i, k * SecSize)
      BY <1>1, <1>7, <2>1, <3>1, Zenon
    <3>3. PICK k \in 0 .. Cut(i) - 1 : disc[p] = Data(i, k * SecSize)
      BY <3>2
    <3>4. k \in 0 .. Cut(i)' - 1
      BY <1>3
    <3> QED
      BY <3>1, <3>3, <3>4
  <2>2. CASE p \notin 1 .. Len(disc)
    <3>1. PICK r \in 1 .. n : disc'[p] = Data(trk, (m + r - 1) * SecSize)
      BY <1>4, <1>7, <2>2
    <3>2. m + r - 1 \in 0 .. Cut(trk)' - 1
      BY <1>3
    <3> QED
      BY <1>3, <3>1, <3>2
  <2> QED
    BY <2>1, <2>2
<1>8. ASSUME NEW i \in 1 .. trk, NEW k \in 0 .. Sent(i)' - 1
      PROVE  \E p \in At(Data(i, k * SecSize))' :
                \A j \in 0 .. k - 1 : \A q \in At(Data(i, j * SecSize))' : q < p
  <2>1. CASE k <= Sent(i) - 1
    <3>1. k \in 0 .. Sent(i) - 1
      BY <2>1, <1>3
    <3>2. PICK p \in At(Data(i, k * SecSize)) :
             \A j \in 0 .. k - 1 : \A q \in At(Data(i, j * SecSize)) : q < p
      BY <1>1, <3>1
    <3>3. ASSUME NEW j \in 0 .. k - 1, NEW q \in At(Data(i, j * SecSize))'
          PROVE  q < p
      <4>1. j \in Int
        OBVIOUS
      <4>2. i = trk => k < m
        BY <1>3, <2>1
      <4>3. ~(i = trk /\ \E r \in 1 .. n : q = Len(disc) + r /\ j = m + r - 1)
        BY <4>2
      <4>4. q \in At(Data(i, j * SecSize))
        BY <1>5, <4>1, <4>3
      <4> QED
        BY <3>2, <4>4
    <3> QED
      BY <1>6, <3>2, <3>3
  <2>2. CASE ~(k <= Sent(i) - 1)
    <3>1. i = trk /\ k >= m /\ k < m + n
      <4>1. i = trk
        BY <1>3, <2>2
      <4> QED
        BY <1>3, <2>2, <4>1
    <3>2. PICK r \in 1 .. n : k = m + r - 1
      <4>1. k - m + 1 \in 1 .. n /\ k = m + (k - m + 1) - 1
        BY <3>1
      <4> QED
        BY <4>1
    <3>3. r \in 1 .. Len(c)
      BY <1>2, <3>2
    <3> DEFINE p == Len(disc) + r
    <3>4. p \in 1 .. Len(disc') /\ disc'[p] = Data(i, k * SecSize)
      BY <1>2, <3>1, <3>2, <3>3
    <3>5. p \in At(Data(i, k * SecSize))'
      BY <3>4 DEF At, Data
    <3>6. ASSUME NEW j \in 0 .. k - 1, NEW q \in At(Data(i, j * SecSize))'
          PROVE  q < p
      <4>1. j \in Int
        OBVIOUS
      <4>2. CASE q \in At(Data(i, j * SecSize))
        <5>1. q \in 1 .. Len(disc)
          BY <1>6, <4>2
        <5> QED
          BY <1>2, <3>2, <5>1
      <4>3. CASE \E s \in 1 .. n : q = Len(disc) + s /\ j = m + s - 1
        <5>1. PICK s \in 1 .. n : q = Len(disc) + s /\ j = m + s - 1
          BY <4>3
        <5>2. s < r
          BY <3>2, <5>1
        <5> QED
          BY <1>2, <3>2, <5>1, <5>2
      <4> QED
        BY <1>5, <4>1, <4>2, <4>3
    <3> HIDE DEF p
    <3> QED
      BY <3>5, <3>6
  <2> QED
    BY <2>1, <2>2
<1>9. ASSUME NEW p \in 1 .. Len(disc'), NEW q \in 1 .. Len(disc'),
             disc'[p] = disc'[q], disc'[p][1] = "data",
             session.tracks[disc'[p][2]].pkt # "variable"
      PROVE  p = q
  \* A sector that was there and one of the block
  <2>1. ASSUME NEW x \in 1 .. Len(disc), NEW y \in 1 .. Len(disc'), y \notin 1 .. Len(disc),
               disc'[x] = disc'[y], disc'[x][1] = "data",
               session.tracks[disc'[x][2]].pkt # "variable"
        PROVE  FALSE
    <3>1. disc'[y][1] = "data"
      BY <2>1
    <3>2. PICK r \in 1 .. n : y = Len(disc) + r /\ disc'[y] = Data(trk, (m + r - 1) * SecSize)
      BY <1>4, <2>1, <3>1
    <3>3. disc'[x] = disc[x]
      BY <1>2, <2>1
    <3>4. PICK i \in 1 .. trk : \E k \in 0 .. Cut(i) - 1 : disc[x] = Data(i, k * SecSize)
      BY <1>1, <2>1, <3>3, Zenon
    <3>5. PICK k \in 0 .. Cut(i) - 1 : disc[x] = Data(i, k * SecSize)
      BY <3>4
    <3>6. Data(i, k * SecSize) = Data(trk, (m + r - 1) * SecSize)
      BY <2>1, <3>2, <3>3, <3>5
    <3>7. i \in Int /\ trk \in Int /\ k \in Int /\ m + r - 1 \in Int
      BY <1>3
    <3> DEFINE z == m + r - 1
    <3> HIDE DEF z
    <3>11. i \in Int /\ trk \in Int /\ k \in Int /\ z \in Int
      BY <3>7 DEF z
    <3>12. Data(i, k * SecSize) = Data(trk, z * SecSize)
      BY <3>6 DEF z
    <3>13. i = trk /\ k = z
      BY <3>11, <3>12, DataDiffer
    <3>8. i = trk /\ k = m + r - 1
      BY <3>13 DEF z
    <3>9. disc'[x][2] = trk
      BY <2>1, <3>2 DEF Data
    <3>10. T.pkt # "variable"
      BY <2>1, <3>9 DEF T
    <3> QED
      BY <1>3, <3>5, <3>8, <3>10
  <2>2. CASE p \in 1 .. Len(disc) /\ q \in 1 .. Len(disc)
    <3>1. disc'[p] = disc[p] /\ disc'[q] = disc[q]
      BY <1>2, <2>2
    <3>2. /\ disc[p] = disc[q] /\ disc[p][1] = "data"
          /\ session.tracks[disc[p][2]].pkt # "variable"
      BY <1>9, <3>1
    <3> QED
      BY <1>1, <2>2, <3>2, Zenon
  <2>3. CASE p \notin 1 .. Len(disc) /\ q \notin 1 .. Len(disc)
    <3>1. disc'[q][1] = "data"
      BY <1>9
    <3>2. PICK r \in 1 .. n : p = Len(disc) + r /\ disc'[p] = Data(trk, (m + r - 1) * SecSize)
      BY <1>4, <1>9, <2>3
    <3>3. PICK s \in 1 .. n : q = Len(disc) + s /\ disc'[q] = Data(trk, (m + s - 1) * SecSize)
      BY <1>4, <2>3, <3>1
    <3>4. trk \in Int /\ m + r - 1 \in Int /\ m + s - 1 \in Int
      BY <1>3
    <3>5. Data(trk, (m + r - 1) * SecSize) = Data(trk, (m + s - 1) * SecSize)
      BY <1>9, <3>2, <3>3
    <3>6. m + r - 1 = m + s - 1
      BY <3>4, <3>5, DataDiffer, Zenon
    <3>7. r = s
      BY <3>6
    <3> QED
      BY <3>2, <3>3, <3>7
  <2>4. ASSUME p \in 1 .. Len(disc), q \notin 1 .. Len(disc)
        PROVE  FALSE
    BY <1>9, <2>1, <2>4
  <2>5. ASSUME q \in 1 .. Len(disc), p \notin 1 .. Len(disc)
        PROVE  FALSE
    BY <1>9, <2>1, <2>5
  <2> QED
    BY <2>2, <2>3, <2>4, <2>5
<1> QED
  BY <1>7, <1>8, <1>9

(* read_buf() has nothing more: the announced size or the file was reached. *)
LEMMA AllTaken ==
    ASSUME TypeOK, Numbers, InputEnds
    PROVE  bytes_read = Taken(T)
<1>1. InputEnds => Burn
  BY DEF Burn
<1>2. Numbers'
  BY <1>1, NumbersStep
<1>3. /\ pc = "read" /\ pc' = "after" /\ session' = session /\ trk' = trk
      /\ bytes_read' = bytes_read
  BY DEF InputEnds, job
<1>4. T.size # 0 => bytes_read = Taken(T)
  BY <1>2, <1>3, SameTrack DEF Numbers, Over
<1>5. T.size = 0 => bytes_read = 0 /\ Taken(T) = 0
  BY <1>3, TrackFacts, TrackNumbers DEF Numbers, Going
<1> QED
  BY <1>4, <1>5

(* Every step keeps the input that was sent on the medium, in its order.    *)
LEMMA DataStep ==
    ASSUME TypeOK, Numbers, LinkInv, DataInv, Burn
    PROVE  DataInv'
<1>1. /\ trk \in Nat \ {0} /\ errs \in Nat /\ disc \in Seq(Sector) /\ <<>> \in Seq(Sector)
      /\ Len(<<>>) = 0 /\ disc \o <<>> = disc /\ 1 .. trk \subseteq 1 .. Len(session.tracks)
      /\ SecSize \in Nat \ {0} /\ bytes \in Nat /\ bytes_read \in Nat
      /\ Pregap - RunIn \in Nat /\ RunIn \in Nat /\ Link \in Nat \ {0} /\ RunOut \in Nat
  BY TrackFacts, ConcatEmptySeq, EmptySeq, SizesAssumption DEF TypeOK
<1>2. \A i \in 1 .. trk : Sent(i) \in Nat /\ Cut(i) \in Nat /\ Sent(i) <= Cut(i)
  BY <1>1, SentCounts
<1>3. pc # "done" => outcome = "running"
  BY DEF LinkInv
\* Steps that leave what was sent as it is
<1>4. ASSUME NEW c \in Seq(Sector), disc' = disc \o c,
             \A k \in 1 .. Len(c) : c[k][1] # "data",
             session' = session, trk' = trk, Sound' => Sound,
             \A i \in 1 .. trk : Sent(i)' = Sent(i) /\ Cut(i)' = Cut(i)
      PROVE  DataInv'
  <2>1. \A i \in 1 .. trk : /\ Sent(i) \in Int /\ Cut(i) \in Int /\ Cut(i)' \in Int
                            /\ Sent(i)' = Sent(i) /\ Cut(i)' >= Cut(i)
    BY <1>2, <1>4
  <2>2. trk' \in Nat /\ trk <= trk' /\ \A i \in 1 .. trk' : ~(i > trk)
    BY <1>1, <1>4
  <2> QED
    BY <1>4, <2>1, <2>2, NoDataAdded
<1>5. ASSUME session' = session, trk' = trk,
             \/ pc \in {"open", "pregap", "begin"} /\ pc' \in {"open", "pregap", "begin"}
             \/ /\ pc \in {"after", "pad", "close", "fixate", "done"}
                /\ pc' \in {"after", "pad", "close", "fixate", "done"}
             \/ /\ pc \in {"address", "write"} /\ pc' \in {"address", "write"}
                /\ bytes' = bytes /\ bytes_read' = bytes_read
      PROVE  \A i \in 1 .. trk : Sent(i)' = Sent(i) /\ Cut(i)' = Cut(i)
  <2>1. CASE pc \in {"open", "pregap", "begin"} /\ pc' \in {"open", "pregap", "begin"}
    BY <1>1, <1>5, <2>1 DEF Sent, Cut, Behind, AtInput, AtBlock, Sectors, Taken, Least
  <2>2. CASE /\ pc \in {"after", "pad", "close", "fixate", "done"}
             /\ pc' \in {"after", "pad", "close", "fixate", "done"}
    BY <1>1, <1>5, <2>2 DEF Sent, Cut, Behind, AtInput, AtBlock, Sectors, Taken, Least
  <2>3. CASE /\ pc \in {"address", "write"} /\ pc' \in {"address", "write"}
             /\ bytes' = bytes /\ bytes_read' = bytes_read
    <3>1. T' = T /\ Kept' = Kept
      BY <1>5, <2>3, SameTrack DEF Kept
    <3>2. \A i \in 1 .. trk : Sent(i)' = Sent(i)
      BY <1>1, <1>5, <2>3 DEF Sent, Behind, AtInput, AtBlock, Sectors, Taken, Least
    <3> QED
      BY <1>5, <2>3, <3>1, <3>2 DEF Cut, AtBlock, Sectors
  <2> QED
    BY <1>5, <2>1, <2>2, <2>3
<1>6. ASSUME NEW kind \in {"gap", "pregap", "pad", "dummy"}, NEW n \in Int
      PROVE  /\ Fill(kind, n) \in Seq(Sector)
             /\ \A k \in 1 .. Len(Fill(kind, n)) : Fill(kind, n)[k][1] # "data"
  <2>1. /\ Fill(kind, n) \in Seq(Sector)
        /\ \A k \in 1 .. Len(Fill(kind, n)) : Fill(kind, n)[k] = <<kind, trk, 0>>
    BY <1>1, FillIs
  <2> QED
    BY <2>1
<1>7. ASSUME NEW c \in Seq(Sector), NEW d \in Seq(Sector),
             \A k \in 1 .. Len(c) : c[k][1] # "data", \A k \in 1 .. Len(d) : d[k][1] # "data"
      PROVE  c \o d \in Seq(Sector) /\ \A k \in 1 .. Len(c \o d) : (c \o d)[k][1] # "data"
  <2>1. /\ c \o d \in Seq(Sector) /\ Len(c \o d) = Len(c) + Len(d)
        /\ \A k \in 1 .. Len(c) + Len(d) :
              (c \o d)[k] = IF k <= Len(c) THEN c[k] ELSE d[k - Len(c)]
    BY ConcatProperties
  <2>2. Len(c) \in Nat /\ Len(d) \in Nat
    BY LenProperties
  <2>3. ASSUME NEW k \in 1 .. Len(c) + Len(d)
        PROVE  (c \o d)[k][1] # "data"
    <3>1. CASE k <= Len(c)
      <4>1. k \in 1 .. Len(c) /\ (c \o d)[k] = c[k]
        BY <2>1, <2>2, <3>1
      <4> QED
        BY <1>7, <4>1
    <3>2. CASE ~(k <= Len(c))
      <4>1. k - Len(c) \in 1 .. Len(d) /\ (c \o d)[k] = d[k - Len(c)]
        BY <2>1, <2>2, <3>2
      <4> QED
        BY <1>7, <4>1
    <3> QED
      BY <3>1, <3>2
  <2> QED
    BY <2>1, <2>3
<1>8. ASSUME OpenTrack
      PROVE  DataInv'
  <2>1. /\ pc = "open" /\ pc' \in {"pregap", "begin"} /\ session' = session /\ trk' = trk
        /\ errs' = errs /\ outcome' = outcome
        /\ disc' = IF Teac THEN disc \o Fill("gap", RunIn) ELSE disc
    BY <1>8 DEF OpenTrack
  <2>2. RunIn \in Int
    BY <1>1
  <2>3. Fill("gap", RunIn) \in Seq(Sector)
        /\ \A k \in 1 .. Len(Fill("gap", RunIn)) : Fill("gap", RunIn)[k][1] # "data"
    BY <1>6, <2>2
  <2>4. Sound' => Sound
    BY <2>1 DEF Sound
  <2>5. \A i \in 1 .. trk : Sent(i)' = Sent(i) /\ Cut(i)' = Cut(i)
    BY <1>5, <2>1
  <2>6. CASE Teac
    BY <1>4, <2>1, <2>3, <2>4, <2>5, <2>6
  <2>7. CASE ~Teac
    <3>1. disc' = disc \o <<>> /\ \A k \in 1 .. Len(<<>>) : <<>>[k][1] # "data"
      BY <1>1, <2>1, <2>7
    <3> QED
      BY <1>1, <1>4, <2>1, <2>4, <2>5, <3>1
  <2> QED
    BY <2>6, <2>7
\* Steps that leave the medium as it is
<1>9. ASSUME disc' = disc, session' = session, trk' = trk, Sound' => Sound,
             \A i \in 1 .. trk : Sent(i)' = Sent(i) /\ Cut(i)' = Cut(i)
      PROVE  DataInv'
  <2>1. disc' = disc \o <<>> /\ \A k \in 1 .. Len(<<>>) : <<>>[k][1] # "data"
    BY <1>1, <1>9
  <2> QED
    BY <1>1, <1>4, <1>9, <2>1
<1>10. ASSUME OpenFails \/ InputFails \/ CloseFails \/ AbandonTrack
       PROVE  DataInv'
  <2>1. ~Sound'
    <3>1. CASE OpenFails \/ CloseFails
      BY <1>1, <3>1 DEF OpenFails, CloseFails, Sound
    <3>2. CASE InputFails
      BY <3>2 DEF InputFails, Sound
    <3>3. CASE AbandonTrack
      BY <1>1, <3>3 DEF AbandonTrack, LinkInv, Sound
    <3> QED
      BY <1>10, <3>1, <3>2, <3>3
  <2> QED
    BY <2>1 DEF DataInv
<1>11. ASSUME PadBlock
       PROVE  DataInv'
  <2>1. /\ pc \in {"pregap", "pad"} /\ session' = session /\ trk' = trk
        /\ errs' = errs /\ outcome' = outcome
        /\ disc' = disc \o Fill(pc, Block)
        /\ pc' \in {pc, IF pc = "pad" THEN "close" ELSE "begin"}
    BY <1>11 DEF PadBlock, Accept
  <2>2. Block \in Int
    <3>1. amt \in Int /\ bytespt \in Int
      BY DEF TypeOK
    <3>2. bytespt \div SecSize \in Int
      BY <1>1, <3>1, SMT
    <3> QED
      BY <3>1, <3>2 DEF Block, Least
  <2>3. pc \in {"gap", "pregap", "pad", "dummy"}
    BY <2>1
  <2>4. /\ Fill(pc, Block) \in Seq(Sector)
        /\ \A k \in 1 .. Len(Fill(pc, Block)) : Fill(pc, Block)[k][1] # "data"
    BY <1>6, <2>2, <2>3
  <2>5. Sound' => Sound
    BY <2>1 DEF Sound
  <2>6. \A i \in 1 .. trk : Sent(i)' = Sent(i) /\ Cut(i)' = Cut(i)
    <3>1. \/ pc \in {"open", "pregap", "begin"} /\ pc' \in {"open", "pregap", "begin"}
          \/ /\ pc \in {"after", "pad", "close", "fixate", "done"}
             /\ pc' \in {"after", "pad", "close", "fixate", "done"}
      BY <2>1
    <3> QED
      BY <1>5, <2>1, <3>1
  <2> QED
    BY <1>4, <2>1, <2>4, <2>5, <2>6
<1>12. ASSUME PadRefused
       PROVE  DataInv'
  <2>1. /\ pc \in {"pregap", "pad"} /\ session' = session /\ trk' = trk /\ disc' = disc
        /\ errs' = (IF pc = "pregap" /\ Teac THEN errs + 1 ELSE errs) /\ outcome' = outcome
        /\ pc' = IF pc = "pad" THEN "close" ELSE IF Teac THEN "fixate" ELSE "begin"
    BY <1>12 DEF PadRefused, Refuse
  <2>2. CASE pc = "pregap" /\ Teac
    <3>1. ~Sound'
      BY <1>1, <2>1, <2>2 DEF Sound
    <3> QED
      BY <3>1 DEF DataInv
  <2>3. CASE ~(pc = "pregap" /\ Teac)
    <3>1. Sound' => Sound
      BY <2>1, <2>3 DEF Sound
    <3>2. \/ pc \in {"open", "pregap", "begin"} /\ pc' \in {"open", "pregap", "begin"}
          \/ /\ pc \in {"after", "pad", "close", "fixate", "done"}
             /\ pc' \in {"after", "pad", "close", "fixate", "done"}
      BY <2>1, <2>3
    <3> QED
      BY <1>5, <1>9, <2>1, <3>1, <3>2
  <2> QED
    BY <2>2, <2>3
<1>13. ASSUME BeginTrack
       PROVE  DataInv'
  <2>1. /\ pc = "begin" /\ pc' = "read" /\ session' = session /\ trk' = trk /\ disc' = disc
        /\ errs' = errs /\ outcome' = outcome /\ bytes_read' = 0
    BY <1>13 DEF BeginTrack, drive
  <2>2. Sectors(0) = 0
    <3>1. 0 \in Int /\ 0 * SecSize = 0
      BY <1>1
    <3> QED
      BY <3>1, SectorsSplit
  <2>3. \A i \in 1 .. trk : Sent(i)' = Sent(i) /\ Cut(i)' = Cut(i)
    BY <1>1, <2>1, <2>2 DEF Sent, Cut, Behind, AtInput, AtBlock, Sectors, Taken, Least
  <2> QED
    BY <1>9, <2>1, <2>3 DEF Sound
<1>14. ASSUME ReadBlock
       PROVE  DataInv'
  <2>1. /\ pc = "read" /\ pc' \in {"address", "write"} /\ session' = session /\ trk' = trk
        /\ disc' = disc /\ errs' = errs /\ outcome' = outcome /\ bytes' = bytes
    BY <1>14 DEF ReadBlock, drive
  <2>2. bytes_read = bytes /\ Whole(bytes) /\ Kept' \in Nat
    BY <1>14, BlockRead DEF Going
  <2>3. T' = T
    BY <2>1, SameTrack
  <2>4. \A i \in 1 .. trk : Sent(i)' = Sent(i)
    BY <1>1, <2>1, <2>2 DEF Sent, Behind, AtInput, AtBlock, Sectors, Taken, Least
  <2>5. \A i \in 1 .. trk : i # trk => Cut(i)' = Cut(i)
    BY <1>1, <2>1, <2>4 DEF Cut
  <2>6. Cut(trk)' \in Nat /\ Cut(trk)' >= Cut(trk)
    <3>1. Cut(trk) = Sectors(bytes)
      BY <1>1, <2>1, <2>2 DEF Cut, Sent, Behind, AtInput, AtBlock
    <3>2. Cut(trk)' = IF T.pkt = "variable" THEN Sectors(bytes + Kept') ELSE Sectors(bytes)
      BY <1>1, <2>1, <2>2, <2>3 DEF Cut, Sent, Behind, AtInput, AtBlock, Sectors
    <3>3. PICK m \in Nat : bytes = m * SecSize
      BY <1>1, <2>2, WholeTransfers
    <3>4. m \in Int /\ Kept' \in Int /\ Kept' >= 0
      BY <2>2, <3>3
    <3>5. Sectors(bytes + Kept') = m + Sectors(Kept') /\ Sectors(bytes) = m
      BY <3>3, <3>4, SectorsSplit
    <3>6. Sectors(Kept') \in Int /\ Sectors(Kept') >= 0
      BY <3>4, SectorsBound
    <3> QED
      BY <3>1, <3>2, <3>3, <3>5, <3>6
  <2>7. \A i \in 1 .. trk : /\ Sent(i) \in Int /\ Cut(i) \in Int /\ Cut(i)' \in Int
                            /\ Sent(i)' = Sent(i) /\ Cut(i)' >= Cut(i)
    <3>1. ASSUME NEW i \in 1 .. trk
          PROVE  Cut(i)' \in Int /\ Cut(i)' >= Cut(i)
      <4>1. CASE i = trk
        BY <2>1, <2>6, <4>1
      <4>2. CASE i # trk
        BY <1>2, <2>5, <4>2
      <4> QED
        BY <4>1, <4>2
    <3> QED
      BY <1>2, <2>4, <3>1
  <2>8. disc' = disc \o <<>> /\ \A k \in 1 .. Len(<<>>) : <<>>[k][1] # "data"
    BY <1>1, <2>1
  <2>9. trk' \in Nat /\ trk <= trk' /\ (Sound' => Sound) /\ \A i \in 1 .. trk' : ~(i > trk)
    BY <1>1, <2>1 DEF Sound
  <2> QED
    BY <1>1, <2>1, <2>7, <2>8, <2>9, NoDataAdded
<1>15. ASSUME InputEnds
       PROVE  DataInv'
  <2>1. /\ pc = "read" /\ pc' = "after" /\ session' = session /\ trk' = trk
        /\ disc' = disc /\ errs' = errs /\ outcome' = outcome
    BY <1>15 DEF InputEnds, drive
  <2>2. bytes_read = Taken(session.tracks[trk])
    BY <1>15, AllTaken DEF T
  <2>3. \A i \in 1 .. trk : Sent(i)' = Sent(i) /\ Cut(i)' = Cut(i)
    BY <1>1, <2>1, <2>2 DEF Sent, Cut, Behind, AtInput, AtBlock, Sectors, Taken, Least
  <2> QED
    BY <1>9, <2>1, <2>3 DEF Sound
<1>16. ASSUME NextAddress \/ NoAddress \/ WriteRefused
       PROVE  DataInv'
  <2>1. /\ AtBlock /\ session' = session /\ trk' = trk /\ disc' = disc
        /\ outcome' = outcome /\ bytes_read' = bytes_read /\ bytes' = bytes
        /\ (pc' \in {"address", "write"} /\ errs' = errs) \/ errs' = errs + 1
    <3>1. CASE NextAddress \/ NoAddress
      BY <3>1 DEF NextAddress, NoAddress, AtBlock, drive, job
    <3>2. CASE WriteRefused
      BY <3>2 DEF WriteRefused, Refuse, AtBlock
    <3> QED
      BY <1>16, <3>1, <3>2
  <2>2. CASE errs' = errs + 1
    <3>1. ~Sound'
      BY <1>1, <2>2 DEF Sound
    <3> QED
      BY <3>1 DEF DataInv
  <2>3. CASE pc' \in {"address", "write"} /\ errs' = errs
    <3>1. \A i \in 1 .. trk : Sent(i)' = Sent(i) /\ Cut(i)' = Cut(i)
      BY <1>5, <2>1, <2>3 DEF AtBlock
    <3> QED
      BY <1>9, <2>1, <2>3, <3>1 DEF Sound
  <2> QED
    BY <2>1, <2>2, <2>3
<1>17. ASSUME WriteBlock
       PROVE  DataInv'
  <2> DEFINE gap == IF T.pkt = "variable" THEN Fill("gap", Link) ELSE <<>>
             c == buf \o gap
             n == Sectors(Kept)
  <2>1. /\ pc = "write" /\ session' = session /\ trk' = trk /\ disc' = disc \o c
        /\ errs' = errs /\ outcome' = outcome /\ bytes_read' = bytes_read
        /\ pc' = IF T.size < 0 \/ bytes_read < T.size THEN "read" ELSE "after"
    BY <1>17 DEF WriteBlock, Accept
  <2>2. AtBlock
    BY <2>1 DEF AtBlock
  <2>3. PICK m \in Nat :
           /\ bytes = m * SecSize /\ Sectors(bytes) = m /\ Sectors(bytes + Kept) = m + Sectors(Kept)
           /\ \A r \in 1 .. Sectors(Kept) : buf[r] = Data(trk, (m + r - 1) * SecSize)
           /\ \A r \in 1 .. Len(buf) : r > Sectors(Kept) => buf[r] = <<"pad", trk, 0>>
    BY <2>2, BlockIs
  <2>4. /\ n \in Nat /\ Kept \in Nat /\ Len(buf) \in Nat /\ n <= Len(buf) /\ buf \in Seq(Sector)
    BY <2>2, BlockLength, LenProperties DEF TypeOK
  <2>5. gap \in Seq(Sector) /\ Len(gap) \in Nat /\ \A r \in 1 .. Len(gap) : gap[r][1] # "data"
    <3>1. Link \in Int
      BY <1>1
    <3>2. /\ Fill("gap", Link) \in Seq(Sector)
          /\ \A k \in 1 .. Len(Fill("gap", Link)) : Fill("gap", Link)[k][1] # "data"
      BY <1>6, <3>1
    <3>4. \A k \in 1 .. Len(<<>>) : <<>>[k][1] # "data"
      BY <1>1
    <3>3. gap \in Seq(Sector) /\ \A r \in 1 .. Len(gap) : gap[r][1] # "data"
      BY <1>1, <3>2, <3>4, Zenon
    <3> HIDE DEF gap
    <3> QED
      BY <3>3, LenProperties
  <2> HIDE DEF gap
  <2>6. /\ c \in Seq(Sector) /\ Len(c) = Len(buf) + Len(gap)
        /\ \A r \in 1 .. Len(buf) + Len(gap) :
              c[r] = IF r <= Len(buf) THEN buf[r] ELSE gap[r - Len(buf)]
    BY <2>4, <2>5, ConcatProperties
  <2>7. \A r \in 1 .. n : c[r] = Data(trk, (m + r - 1) * SecSize)
    <3> SUFFICES ASSUME NEW r \in 1 .. n
                 PROVE  c[r] = Data(trk, (m + r - 1) * SecSize)
      OBVIOUS
    <3>1. buf[r] = Data(trk, (m + r - 1) * SecSize)
      BY <2>3
    <3> HIDE DEF c, n
    <3>2. c[r] = buf[r]
      BY <2>4, <2>5, <2>6
    <3> QED
      BY <3>1, <3>2
  <2>8. \A r \in 1 .. Len(c) : r > n => c[r][1] # "data"
    <3> SUFFICES ASSUME NEW r \in 1 .. Len(c), r > n
                 PROVE  c[r][1] # "data"
      OBVIOUS
    <3> HIDE DEF c, n
    <3>1. CASE r <= Len(buf)
      <4>1. r \in 1 .. Len(buf) /\ c[r] = buf[r]
        BY <2>4, <2>5, <2>6, <3>1
      <4>2. buf[r] = <<"pad", trk, 0>>
        BY <2>3, <4>1 DEF n
      <4> QED
        BY <4>1, <4>2
    <3>2. CASE ~(r <= Len(buf))
      <4>1. r - Len(buf) \in 1 .. Len(gap) /\ c[r] = gap[r - Len(buf)]
        BY <2>4, <2>5, <2>6, <3>2
      <4> QED
        BY <2>5, <4>1
    <3> QED
      BY <3>1, <3>2
  <2>9. Sent(trk)' = m + n /\ Cut(trk)' = m + n
    <3>1. /\ T.size = 0 => bytes = 0
          /\ T.size # 0 => bytes < bytes_read /\ bytes_read <= Taken(T)
      BY <2>2 DEF Numbers
    <3>2. /\ T.size \in Int /\ T.size >= -1 /\ Taken(T) \in Nat
          /\ T.size >= 0 => Taken(T) <= T.size
          /\ T.size = 0 => Taken(T) = 0
      BY TrackFacts, TrackNumbers DEF TrackOK
    <3>3. bytes + Kept = IF pc' = "read" THEN bytes_read ELSE Taken(T)
      <4>1. pc' = "read" => T.size # 0
        BY <1>1, <2>1, <3>2
      <4>2. pc' # "read" => T.size >= 0 /\ T.size <= bytes_read
        BY <1>1, <2>1, <3>2
      <4>3. T.size # 0 => bytes + Kept = bytes_read
        BY <1>1, <3>1 DEF Kept
      <4>4. T.size = 0 => bytes + Kept = 0
        BY <3>1 DEF Kept
      <4>5. pc' # "read" /\ T.size # 0 => bytes_read = Taken(T)
        BY <1>1, <3>1, <3>2, <4>2
      <4> QED
        BY <3>2, <4>1, <4>3, <4>4, <4>5
    <3>4. pc' \in {"read", "after"}
      BY <2>1
    <3>5. Sent(trk)' = IF pc' = "read" THEN Sectors(bytes_read) ELSE Sectors(Taken(T))
      BY <1>1, <2>1, <3>4 DEF Sent, Behind, AtInput, AtBlock, Sectors, Taken, Least, T
    <3>6. Cut(trk)' = Sent(trk)'
      BY <3>4 DEF Cut, AtBlock
    <3> HIDE DEF n
    <3> QED
      BY <2>3, <3>3, <3>5, <3>6 DEF n
  <2>10. \A i \in 1 .. trk : i # trk => Sent(i)' = Sent(i) /\ Cut(i)' = Cut(i)
    BY <1>1, <2>1 DEF Sent, Cut, Behind, Sectors, Taken, Least
  <2>11. Cut(trk) <= m + n
    <3>1. Sent(trk) = Sectors(bytes)
      BY <1>1, <2>1 DEF Sent, Behind, AtInput, AtBlock
    <3>2. Cut(trk) = m \/ Cut(trk) = m + n
      BY <2>3, <3>1 DEF Cut
    <3> HIDE DEF n
    <3> QED
      BY <2>4, <3>2
  <2> HIDE DEF c, n
  <2>12. \A i \in 1 .. trk : /\ Cut(i)' \in Int /\ Cut(i)' >= Cut(i)
                             /\ i # trk => Sent(i)' = Sent(i)
    <3>1. ASSUME NEW i \in 1 .. trk
          PROVE  Cut(i)' \in Int /\ Cut(i)' >= Cut(i)
      <4>1. CASE i = trk
        BY <1>2, <2>1, <2>4, <2>9, <2>11, <4>1
      <4>2. CASE i # trk
        BY <1>2, <2>10, <4>2
      <4> QED
        BY <4>1, <4>2
    <3> QED
      BY <2>10, <3>1
  <2>13. n <= Len(c)
    BY <2>4, <2>5, <2>6
  <2>14. Sent(trk)' \in {m, m + n} /\ Cut(trk)' >= m + n
    BY <2>4, <2>9
  <2>15. CASE Sound
    BY <2>1, <2>2, <2>3, <2>4, <2>6, <2>7, <2>8, <2>12, <2>13, <2>14, <2>15, InputAdded
  <2>16. CASE ~Sound
    <3>1. ~Sound'
      BY <2>1, <2>16 DEF Sound
    <3> QED
      BY <3>1 DEF DataInv
  <2> QED
    BY <2>15, <2>16
<1>18. ASSUME PacketTorn
       PROVE  DataInv'
  <2> DEFINE n == Sectors(Kept)
             gap == Fill("gap", Link)
  <2>1. /\ pc = "write" /\ pc' = "address" /\ T.pkt = "variable" /\ session' = session
        /\ trk' = trk /\ errs' = errs /\ outcome' = outcome
        /\ bytes_read' = bytes_read /\ bytes' = bytes
    BY <1>18 DEF PacketTorn
  <2>2. AtBlock
    BY <2>1 DEF AtBlock
  <2>3. PICK m \in Nat :
           /\ bytes = m * SecSize /\ Sectors(bytes) = m /\ Sectors(bytes + Kept) = m + Sectors(Kept)
           /\ \A r \in 1 .. Sectors(Kept) : buf[r] = Data(trk, (m + r - 1) * SecSize)
           /\ \A r \in 1 .. Len(buf) : r > Sectors(Kept) => buf[r] = <<"pad", trk, 0>>
    BY <2>2, BlockIs
  <2>4. n \in Nat /\ Kept \in Nat /\ Len(buf) = n /\ buf \in Seq(Sector)
    BY <2>1, <2>2, BlockLength DEF TypeOK, Rest
  <2>5. PICK k \in 0 .. Len(buf) - 1 : disc' = disc \o SubSeq(buf, 1, k) \o gap
    BY <1>18 DEF PacketTorn
  <2> DEFINE part == SubSeq(buf, 1, k)
             c == part \o gap
  <2>6. gap \in Seq(Sector) /\ \A r \in 1 .. Len(gap) : gap[r][1] # "data"
    <3>1. Link \in Int
      BY <1>1
    <3> QED
      BY <1>6, <3>1
  <2> HIDE DEF gap, n
  <2>7. part \in Seq(Sector) /\ Len(part) = k /\ \A r \in 1 .. k : part[r] = buf[r]
    <3>1. k \in Int /\ \A i \in 1 .. k : buf[i] \in Sector
      BY <2>4, <2>5, ElementOfSeq
    <3>2. /\ SubSeq(buf, 1, k) \in Seq(Sector)
          /\ Len(SubSeq(buf, 1, k)) = IF 1 <= k THEN k - 1 + 1 ELSE 0
          /\ \A i \in 1 .. k - 1 + 1 : SubSeq(buf, 1, k)[i] = buf[1 + i - 1]
      BY <3>1, SubSeqProperties
    <3> QED
      BY <2>4, <2>5, <3>2
  <2> HIDE DEF part
  <2>8. disc' = disc \o c
    <3>1. disc' = (disc \o part) \o gap
      BY <2>5 DEF part
    <3>2. (disc \o part) \o gap = disc \o (part \o gap)
      BY <1>1, <2>6, <2>7, ConcatAssociative
    <3> QED
      BY <3>1, <3>2
  <2>9. Len(gap) \in Nat
    BY <2>6, LenProperties
  <2>10. /\ c \in Seq(Sector) /\ Len(c) = k + Len(gap)
         /\ \A r \in 1 .. k + Len(gap) : c[r] = IF r <= k THEN part[r] ELSE gap[r - k]
    BY <2>6, <2>7, ConcatProperties
  <2> HIDE DEF c
  <2>11. k \in Nat /\ k <= n /\ k <= Len(c)
    BY <2>4, <2>5, <2>9, <2>10
  <2>12. \A r \in 1 .. k : c[r] = Data(trk, (m + r - 1) * SecSize)
    <3> SUFFICES ASSUME NEW r \in 1 .. k
                 PROVE  c[r] = Data(trk, (m + r - 1) * SecSize)
      OBVIOUS
    <3>1. r \in 1 .. n /\ c[r] = buf[r]
      BY <2>4, <2>7, <2>9, <2>10, <2>11
    <3> QED
      BY <2>3, <3>1 DEF n
  <2>13. \A r \in 1 .. Len(c) : r > k => c[r][1] # "data"
    <3> SUFFICES ASSUME NEW r \in 1 .. Len(c), r > k
                 PROVE  c[r][1] # "data"
      OBVIOUS
    <3>1. r - k \in 1 .. Len(gap) /\ c[r] = gap[r - k]
      BY <2>9, <2>10, <2>11
    <3> QED
      BY <2>6, <3>1
  <2>14. \A i \in 1 .. trk : Sent(i)' = Sent(i) /\ Cut(i)' = Cut(i)
    BY <1>5, <2>1
  <2>15. Sent(trk) = m /\ Cut(trk) = m + n
    BY <1>1, <2>1, <2>3 DEF Sent, Cut, Behind, AtInput, AtBlock, n
  <2>16. \A i \in 1 .. trk : /\ Cut(i)' \in Int /\ Cut(i)' >= Cut(i)
                             /\ i # trk => Sent(i)' = Sent(i)
    BY <1>2, <2>14
  <2>17. Sent(trk)' \in {m, m + k} /\ Cut(trk)' >= m + k
    BY <1>1, <2>1, <2>4, <2>11, <2>14, <2>15
  <2>18. CASE Sound
    BY <2>1, <2>2, <2>3, <2>8, <2>10, <2>11, <2>12, <2>13, <2>16, <2>17, <2>18, InputAdded
  <2>19. CASE ~Sound
    <3>1. ~Sound'
      BY <2>1, <2>19 DEF Sound
    <3> QED
      BY <3>1 DEF DataInv
  <2> QED
    BY <2>18, <2>19
<1>19. ASSUME PadTail \/ Fixate
       PROVE  DataInv'
  <2>1. /\ pc \in {"after", "fixate"} /\ pc' \in {"pad", "close", "done"}
        /\ session' = session /\ trk' = trk /\ disc' = disc
        /\ errs' = errs \/ errs' = errs + 1
    BY <1>19 DEF PadTail, Fixate, drive
  <2>2. Sound' => Sound
    BY <1>1, <1>3, <2>1 DEF Sound
  <2> QED
    BY <1>5, <1>9, <2>1, <2>2
<1>20. ASSUME CloseTrack
       PROVE  DataInv'
  <2> DEFINE c == Dummy \o RunOutBlocks
  <2>1. /\ pc = "close" /\ session' = session /\ errs' = errs /\ outcome' = outcome
        /\ disc' = disc \o Dummy \o RunOutBlocks
        /\ (trk' = trk + 1 /\ pc' = "open") \/ (trk' = trk /\ pc' = "fixate")
    BY <1>20 DEF CloseTrack
  <2>2. /\ Dummy \in Seq(Sector) /\ \A k \in 1 .. Len(Dummy) : Dummy[k][1] # "data"
        /\ RunOutBlocks \in Seq(Sector)
        /\ \A k \in 1 .. Len(RunOutBlocks) : RunOutBlocks[k][1] # "data"
    <3>1. RunOut \in Int /\ 1 \in Int
      BY <1>1
    <3>2. /\ Fill("dummy", 1) \in Seq(Sector)
          /\ \A k \in 1 .. Len(Fill("dummy", 1)) : Fill("dummy", 1)[k][1] # "data"
      BY <1>6, <3>1
    <3>3. /\ Fill("gap", RunOut) \in Seq(Sector)
          /\ \A k \in 1 .. Len(Fill("gap", RunOut)) : Fill("gap", RunOut)[k][1] # "data"
      BY <1>6, <3>1
    <3>4. \A k \in 1 .. Len(<<>>) : <<>>[k][1] # "data"
      BY <1>1
    <3>5. Dummy \in Seq(Sector) /\ \A k \in 1 .. Len(Dummy) : Dummy[k][1] # "data"
      BY <1>1, <3>2, <3>4, Zenon DEF Dummy
    <3>6. /\ RunOutBlocks \in Seq(Sector)
          /\ \A k \in 1 .. Len(RunOutBlocks) : RunOutBlocks[k][1] # "data"
      BY <1>1, <3>3, <3>4, Zenon DEF RunOutBlocks
    <3> QED
      BY <3>5, <3>6
  <2>3. c \in Seq(Sector) /\ \A k \in 1 .. Len(c) : c[k][1] # "data"
    BY <1>7, <2>2
  <2>4. disc' = disc \o c
    BY <1>1, <2>1, <2>2, ConcatAssociative
  <2> HIDE DEF c
  <2>5. \A i \in 1 .. trk : Sent(i)' = Sent(i) /\ Cut(i)' = Cut(i)
    BY <1>1, <2>1 DEF Sent, Cut, Behind, AtInput, AtBlock, Sectors, Taken, Least
  <2>6. \A i \in 1 .. trk' : i > trk => Sent(i)' = 0
    BY <1>1, <2>1 DEF Sent, Behind, AtInput
  <2>7. \A i \in 1 .. trk : /\ Sent(i) \in Int /\ Cut(i) \in Int /\ Cut(i)' \in Int
                            /\ Sent(i)' = Sent(i) /\ Cut(i)' >= Cut(i)
    BY <1>2, <2>5
  <2>8. trk' \in Nat /\ trk <= trk' /\ (Sound' => Sound)
    BY <1>1, <2>1 DEF Sound
  <2> QED
    BY <2>1, <2>3, <2>4, <2>6, <2>7, <2>8, NoDataAdded
<1> QED
  BY <1>8, <1>10, <1>11, <1>12, <1>13, <1>14, <1>15, <1>16, <1>17, <1>18, <1>19, <1>20
  DEF Burn
-----------------------------------------------------------------------------
(* Sectors of data and padding are counted as they are added.               *)
LEMMA BodyAdded ==
    ASSUME TypeOK, NEW c \in Seq(Sector), disc' = disc \o c, NEW n \in Nat, n <= Len(c),
           \A r \in 1 .. n : c[r][1] \in {"data", "pad"} /\ c[r][2] = trk,
           \A r \in 1 .. Len(c) : r > n => c[r][1] \notin {"data", "pad"}
    PROVE  /\ \A i : IsFiniteSet(Body(i)) /\ Cardinality(Body(i)) \in Nat
           /\ \A i : i # trk \/ n = 0 => Body(i)' = Body(i)
           /\ \A i : i = trk => Cardinality(Body(i))' = Cardinality(Body(i)) + n
<1>1. /\ Len(disc) \in Nat /\ Len(c) \in Nat
      /\ \A p \in 1 .. Len(disc) : p \in 1 .. Len(disc') /\ disc'[p] = disc[p]
      /\ \A k \in 1 .. Len(c) : /\ Len(disc) + k \in 1 .. Len(disc')
                                /\ disc'[Len(disc) + k] = c[k]
      /\ \A p \in 1 .. Len(disc') :
            p \in 1 .. Len(disc) \/ \E k \in 1 .. Len(c) : p = Len(disc) + k
  BY Appended
<1> DEFINE New == (Len(disc) + 1) .. (Len(disc) + n)
<1>2. ASSUME NEW i, TRUE
      PROVE  /\ IsFiniteSet(Body(i)) /\ Cardinality(Body(i)) \in Nat
             /\ Body(i) \subseteq 1 .. Len(disc)
  <2>1. Body(i) \subseteq 1 .. Len(disc)
    BY DEF Body
  <2>2. IsFiniteSet(1 .. Len(disc))
    <3>1. 1 \in Int /\ Len(disc) \in Int
      BY <1>1
    <3> QED
      BY <3>1, FS_Interval
  <2>3. IsFiniteSet(Body(i))
    <3>1. Body(i) \in SUBSET (1 .. Len(disc))
      BY <2>1
    <3> QED
      BY <2>2, <3>1, FS_Subset
  <2> QED
    BY <2>1, <2>3, FS_CardinalityType
<1>3. ASSUME NEW i, TRUE
      PROVE  Body(i)' = IF i = trk THEN Body(i) \union New ELSE Body(i)
  <2>1. Body(i)' = {p \in 1 .. Len(disc') : disc'[p][1] \in {"data", "pad"} /\ disc'[p][2] = i}
    BY DEF Body
  <2>2. Body(i) = {p \in 1 .. Len(disc) : disc[p][1] \in {"data", "pad"} /\ disc[p][2] = i}
    BY DEF Body
  <2>3. ASSUME NEW p \in Body(i), TRUE
        PROVE  p \in Body(i)'
    BY <1>1, <2>1, <2>2
  <2>4. ASSUME NEW p \in New, i = trk
        PROVE  p \in Body(i)'
    <3>1. PICK r \in 1 .. n : p = Len(disc) + r
      <4>1. p - Len(disc) \in 1 .. n /\ p = Len(disc) + (p - Len(disc))
        BY <1>1
      <4> QED
        BY <4>1
    <3>2. r \in 1 .. Len(c)
      BY <1>1
    <3>3. p \in 1 .. Len(disc') /\ disc'[p] = c[r]
      BY <1>1, <3>1, <3>2
    <3> QED
      BY <2>1, <2>4, <3>3
  <2>5. ASSUME NEW p \in Body(i)'
        PROVE  p \in Body(i) \/ (i = trk /\ p \in New)
    <3>1. p \in 1 .. Len(disc') /\ disc'[p][1] \in {"data", "pad"} /\ disc'[p][2] = i
      BY <2>1
    <3>2. CASE p \in 1 .. Len(disc)
      BY <1>1, <2>2, <3>1, <3>2
    <3>3. ASSUME NEW k \in 1 .. Len(c), p = Len(disc) + k
          PROVE  i = trk /\ p \in New
      <4>1. disc'[p] = c[k]
        BY <1>1, <3>3
      <4>2. k <= n
        BY <1>1, <3>1, <4>1
      <4>3. k \in 1 .. n
        BY <4>2
      <4> QED
        BY <1>1, <3>1, <3>3, <4>1, <4>3
    <3> QED
      BY <1>1, <3>1, <3>2, <3>3
  <2> HIDE DEF New
  <2>6. CASE i = trk
    <3>1. \A p : p \in Body(i)' <=> p \in Body(i) \union New
      BY <2>3, <2>4, <2>5, <2>6
    <3>2. Body(i)' = Body(i) \union New
      BY <2>1, <3>1
    <3> QED
      BY <2>6, <3>2
  <2>7. CASE i # trk
    <3>1. \A p : p \in Body(i)' <=> p \in Body(i)
      BY <2>3, <2>5, <2>7
    <3>2. Body(i)' = Body(i)
      BY <2>1, <2>2, <3>1
    <3> QED
      BY <2>7, <3>2
  <2> QED
    BY <2>6, <2>7
<1>4. n = 0 => New = {}
  BY <1>1
<1>5. ASSUME NEW i, i = trk
      PROVE  Cardinality(Body(i))' = Cardinality(Body(i)) + n
  <2>1. IsFiniteSet(New) /\ Cardinality(New) = n
    <3>1. Len(disc) + 1 \in Int /\ Len(disc) + n \in Int
      BY <1>1
    <3>2. /\ IsFiniteSet(New)
          /\ Cardinality(New) = IF Len(disc) + 1 > Len(disc) + n THEN 0
                                ELSE (Len(disc) + n) - (Len(disc) + 1) + 1
      BY <3>1, FS_Interval
    <3> QED
      BY <1>1, <3>2
  <2>2. Body(i) \intersect New = {}
    BY <1>1, <1>2
  <2> HIDE DEF New
  <2>3. Cardinality(Body(i) \union New)
           = Cardinality(Body(i)) + Cardinality(New) - Cardinality(Body(i) \intersect New)
    BY <1>2, <2>1, FS_Union
  <2>4. Cardinality(Body(i) \intersect New) = 0
    BY <2>2, FS_EmptySet
  <2>5. Cardinality(Body(i))' = Cardinality(Body(i) \union New)
    BY <1>3, <1>5
  <2>6. Cardinality(Body(i)) \in Nat
    BY <1>2
  <2> QED
    BY <2>1, <2>3, <2>4, <2>5, <2>6
<1> HIDE DEF New
<1>6. ASSUME NEW i, n = 0
      PROVE  Body(i)' = Body(i)
  BY <1>3, <1>4, <1>6
<1> QED
  BY <1>2, <1>3, <1>5, <1>6

(* The padding behind the input makes up what was announced, and the        *)
(* minimum length.                                                          *)
LEMMA PadMakesLength ==
    ASSUME TypeOK, Numbers, PadTail, NEW C \in Nat, C * SecSize >= bytes,
           T.pkt # "variable" => C * SecSize = bytes
    PROVE  RightLength(T, C + padsecs') /\ padsecs' \in Nat
<1> DEFINE sent == bytes \div SecSize
           lacks == MinSecs - sent
<1>1. /\ pc = "after" /\ padsecs = InitialPad(T) /\ Over
      /\ padsecs' = IF ~T.short /\ lacks > 0 THEN Most(padsecs, lacks) ELSE padsecs
  BY DEF PadTail, Numbers
<1>2. /\ SecSize \in Nat \ {0} /\ MinSecs \in Nat /\ InitialPad(T) \in Nat /\ bytes \in Nat
      /\ T.size \in Int /\ T.file \in Nat
      /\ Sectors(Taken(T)) \in Nat
  BY TrackFacts, TrackNumbers, SizesAssumption DEF TypeOK, TrackOK
<1>3. sent \in Int
  BY <1>2, SMT
<1>4. sent <= C /\ (T.pkt # "variable" => sent = C)
  <2>1. C \in Int /\ (C * SecSize) \div SecSize = C
    <3>1. C \in Int
      OBVIOUS
    <3> QED
      BY <3>1, SectorsSplit
  <2>2. T.pkt # "variable" => sent = C
    BY <2>1
  <2>3. sent * SecSize <= bytes
    <3>1. bytes \in Int /\ sent \in Int /\ sent >= sent
      BY <1>2, <1>3
    <3> QED
      BY <3>1, SectorsBound
  <2>4. ASSUME sent > C
        PROVE  FALSE
    <3> HIDE DEF sent
    <3>1. \A a, b \in Int : a >= b + 1 => a * SecSize >= b * SecSize + SecSize
      <4>1. \A a, b \in Int : a >= b + 1 => a * SecSize >= (b + 1) * SecSize
        BY <1>2, SMT
      <4>2. \A b \in Int : (b + 1) * SecSize = b * SecSize + SecSize
        BY <1>2, SMT
      <4> QED
        BY <4>1, <4>2
    <3>2. sent * SecSize \in Int /\ C * SecSize \in Int
      BY <1>2, <1>3, SMT
    <3>3. sent * SecSize >= C * SecSize + SecSize
      BY <1>3, <2>1, <2>4, <3>1
    <3> QED
      BY <1>2, <2>3, <3>2, <3>3
  <2> HIDE DEF sent
  <2> QED
    BY <1>3, <2>2, <2>4
<1> HIDE DEF sent
<1>5. padsecs' \in Nat
  BY <1>1, <1>2, <1>3 DEF Most
<1>6. T.short \/ C + padsecs' >= MinSecs
  BY <1>1, <1>2, <1>3, <1>4 DEF Most
<1>7. ASSUME T.size >= 0, T.file >= T.size, T.pkt = "none"
      PROVE  C + padsecs' = Announced(T)
  <2>1. Taken(T) = T.size
    BY <1>2, <1>7 DEF Taken, Least
  <2>2. C = Sectors(T.size)
    <3>1. C * SecSize = Sectors(T.size) * SecSize
      BY <1>1, <1>7, <2>1 DEF Over, Counted
    <3>2. C \in Int /\ Sectors(T.size) \in Int
      BY <1>2, <2>1
    <3> QED
      BY <3>1, <3>2, SectorsSplit
  <2>3. sent = C
    BY <1>4, <1>7
  <2> QED
    BY <1>1, <1>2, <2>2, <2>3 DEF Announced, Most
<1> QED
  BY <1>5, <1>6, <1>7 DEF RightLength

(* Every step keeps the tracks at their length.                             *)
LEMMA LengthStep ==
    ASSUME TypeOK, Numbers, LinkInv, LengthInv, Burn
    PROVE  LengthInv'
<1> DEFINE C(i) == Cardinality(Body(i))
<1>1. /\ trk \in Nat \ {0} /\ errs \in Nat /\ disc \in Seq(Sector) /\ <<>> \in Seq(Sector)
      /\ Len(<<>>) = 0 /\ disc \o <<>> = disc /\ trk <= Len(session.tracks)
      /\ Len(session.tracks) \in Nat
      /\ SecSize \in Nat \ {0} /\ bytes \in Nat /\ amt \in Nat /\ bytespt \in Nat
      /\ Pregap - RunIn \in Nat /\ RunIn \in Nat /\ Link \in Nat \ {0} /\ RunOut \in Nat
  BY TrackFacts, ConcatEmptySeq, EmptySeq, SizesAssumption DEF TypeOK
<1>2. pc # "done" => outcome = "running"
  BY DEF LinkInv
<1>3. ASSUME Sound, ~padlost
      PROVE  /\ \A i \in 1 .. Len(session.tracks) :
                   i > trk \/ (i = trk /\ pc \in {"open", "pregap", "begin"}) => Body(i) = {}
             /\ AtInput \/ pc = "after" =>
                   C(trk) * SecSize >= bytes /\ (T.pkt # "variable" => C(trk) * SecSize = bytes)
             /\ pc = "pad" => RightLength(T, C(trk) + amt)
             /\ \A i \in 1 .. trk :
                   i < trk \/ pc \in {"close", "fixate", "done"} =>
                      RightLength(session.tracks[i], C(i))
  BY <1>3 DEF LengthInv
\* Blocks that are not of the track itself, or none
<1>4. ASSUME NEW c \in Seq(Sector), disc' = disc \o c,
             \A k \in 1 .. Len(c) : c[k][1] \notin {"data", "pad"}
      PROVE  \A i : Body(i)' = Body(i) /\ C(i) \in Nat /\ IsFiniteSet(Body(i))
  <2>1. Len(c) \in Nat
    BY LenProperties
  <2>2. 0 \in Nat /\ 0 <= Len(c) /\ \A r \in 1 .. 0 : c[r][1] \in {"data", "pad"} /\ c[r][2] = trk
    BY <2>1
  <2>3. /\ \A i : IsFiniteSet(Body(i)) /\ C(i) \in Nat
        /\ \A i : i # trk \/ 0 = 0 => Body(i)' = Body(i)
    BY <1>4, <2>2, BodyAdded
  <2> QED
    BY <2>3
<1>5. ASSUME disc' = disc
      PROVE  \A i : Body(i)' = Body(i) /\ C(i) \in Nat /\ IsFiniteSet(Body(i))
  <2>1. disc' = disc \o <<>> /\ \A k \in 1 .. Len(<<>>) : <<>>[k][1] \notin {"data", "pad"}
    BY <1>1, <1>5
  <2> QED
    BY <1>1, <1>4, <2>1
<1>6. ASSUME NEW kind \in {"gap", "pregap", "pad", "dummy"}, NEW n \in Int
      PROVE  /\ Fill(kind, n) \in Seq(Sector)
             /\ Len(Fill(kind, n)) = IF n > 0 THEN n ELSE 0
             /\ \A k \in 1 .. Len(Fill(kind, n)) : Fill(kind, n)[k] = <<kind, trk, 0>>
             /\ kind # "pad" => \A k \in 1 .. Len(Fill(kind, n)) :
                                   Fill(kind, n)[k][1] \notin {"data", "pad"}
  <2>1. /\ Fill(kind, n) \in Seq(Sector)
        /\ Len(Fill(kind, n)) = IF n > 0 THEN n ELSE 0
        /\ \A k \in 1 .. Len(Fill(kind, n)) : Fill(kind, n)[k] = <<kind, trk, 0>>
    BY <1>1, FillIs
  <2> QED
    BY <2>1
<1>7. ASSUME NEW c \in Seq(Sector), NEW d \in Seq(Sector),
             \A k \in 1 .. Len(c) : c[k][1] \notin {"data", "pad"},
             \A k \in 1 .. Len(d) : d[k][1] \notin {"data", "pad"}
      PROVE  /\ c \o d \in Seq(Sector)
             /\ \A k \in 1 .. Len(c \o d) : (c \o d)[k][1] \notin {"data", "pad"}
  <2>1. /\ c \o d \in Seq(Sector) /\ Len(c \o d) = Len(c) + Len(d)
        /\ \A k \in 1 .. Len(c) + Len(d) :
              (c \o d)[k] = IF k <= Len(c) THEN c[k] ELSE d[k - Len(c)]
    BY ConcatProperties
  <2>2. Len(c) \in Nat /\ Len(d) \in Nat
    BY LenProperties
  <2>3. ASSUME NEW k \in 1 .. Len(c) + Len(d)
        PROVE  (c \o d)[k][1] \notin {"data", "pad"}
    <3>1. CASE k <= Len(c)
      <4>1. k \in 1 .. Len(c) /\ (c \o d)[k] = c[k]
        BY <2>1, <2>2, <3>1
      <4> QED
        BY <1>7, <4>1
    <3>2. CASE ~(k <= Len(c))
      <4>1. k - Len(c) \in 1 .. Len(d) /\ (c \o d)[k] = d[k - Len(c)]
        BY <2>1, <2>2, <3>2
      <4> QED
        BY <1>7, <4>1
    <3> QED
      BY <3>1, <3>2
  <2> QED
    BY <2>1, <2>3
\* A step on the current track: what there is to show
<1>8. ASSUME session' = session, trk' = trk, T' = T, Sound' /\ ~padlost' => Sound /\ ~padlost,
             Sound /\ ~padlost =>
                /\ \A i \in 1 .. Len(session.tracks) : i # trk => Body(i)' = Body(i)
                /\ pc' \in {"open", "pregap", "begin"} =>
                      /\ pc \in {"open", "pregap", "begin"}
                      /\ \A i : i = trk => Body(i)' = Body(i)
                /\ pc' \in {"read", "address", "write", "after"} => \A i : i = trk =>
                      /\ C(i)' * SecSize >= bytes'
                      /\ T.pkt # "variable" => C(i)' * SecSize = bytes'
                /\ pc' = "pad" => \A i : i = trk => RightLength(T, C(i)' + amt')
                /\ pc' \in {"close", "fixate", "done"} =>
                      \A i : i = trk => RightLength(T, C(i)')
      PROVE  LengthInv'
  <2> SUFFICES ASSUME Sound', ~padlost'
               PROVE  /\ \A i \in 1 .. Len(session.tracks) :
                            i > trk \/ (i = trk /\ pc' \in {"open", "pregap", "begin"})
                               => Body(i)' = {}
                      /\ pc' \in {"read", "address", "write", "after"} =>
                            /\ C(trk)' * SecSize >= bytes'
                            /\ T.pkt # "variable" => C(trk)' * SecSize = bytes'
                      /\ pc' = "pad" => RightLength(T, C(trk)' + amt')
                      /\ \A i \in 1 .. trk :
                            i < trk \/ pc' \in {"close", "fixate", "done"} =>
                               RightLength(session.tracks[i], C(i)')
    BY <1>8 DEF LengthInv, AtInput, RightLength, Announced, InitialPad, Sectors, Most
  <2>1. Sound /\ ~padlost
    BY <1>8
  <2>2. ASSUME NEW i \in 1 .. Len(session.tracks),
               i > trk \/ (i = trk /\ pc' \in {"open", "pregap", "begin"})
        PROVE  Body(i)' = {}
    BY <1>1, <1>3, <1>8, <2>1, <2>2
  <2>3. ASSUME NEW i \in 1 .. trk, i < trk
        PROVE  RightLength(session.tracks[i], C(i)')
    <3>1. i \in 1 .. Len(session.tracks) /\ i # trk
      BY <1>1, <2>3
    <3>2. Body(i)' = Body(i)
      BY <1>8, <2>1, <3>1
    <3>3. RightLength(session.tracks[i], C(i))
      BY <1>3, <2>1, <2>3
    <3> QED
      BY <3>2, <3>3
  <2>4. pc' \in {"close", "fixate", "done"} => RightLength(session.tracks[trk], C(trk)')
    BY <1>8, <2>1 DEF T
  <2>5. ASSUME NEW i \in 1 .. trk, pc' \in {"close", "fixate", "done"}
        PROVE  RightLength(session.tracks[i], C(i)')
    <3>1. CASE i < trk
      BY <2>3, <3>1
    <3>2. CASE ~(i < trk)
      <4>1. i = trk
        BY <1>1, <3>2
      <4> QED
        BY <1>8, <2>1, <2>5, <4>1 DEF T
    <3> QED
      BY <3>1, <3>2
  <2>6. pc' \in {"read", "address", "write", "after"} =>
           /\ C(trk)' * SecSize >= bytes'
           /\ T.pkt # "variable" => C(trk)' * SecSize = bytes'
    BY <1>8, <2>1
  <2>7. pc' = "pad" => RightLength(T, C(trk)' + amt')
    BY <1>8, <2>1
  <2> QED
    BY <2>2, <2>3, <2>5, <2>6, <2>7
<1>9. ASSUME OpenFails \/ InputFails \/ CloseFails \/ AbandonTrack
      PROVE  LengthInv'
  <2>1. ~Sound'
    <3>1. CASE OpenFails \/ CloseFails
      BY <1>1, <3>1 DEF OpenFails, CloseFails, Sound
    <3>2. CASE InputFails
      BY <3>2 DEF InputFails, Sound
    <3>3. CASE AbandonTrack
      BY <1>1, <3>3 DEF AbandonTrack, LinkInv, Sound
    <3> QED
      BY <1>9, <3>1, <3>2, <3>3
  <2> QED
    BY <2>1 DEF LengthInv
<1>10. ASSUME PadRefused
       PROVE  LengthInv'
  <2>1. padlost'
    BY <1>10 DEF PadRefused
  <2> QED
    BY <2>1 DEF LengthInv
<1>11. ASSUME OpenTrack
       PROVE  LengthInv'
  <2>1. /\ pc = "open" /\ pc' \in {"pregap", "begin"} /\ session' = session /\ trk' = trk
        /\ errs' = errs /\ outcome' = outcome /\ padlost' = padlost
        /\ disc' = IF Teac THEN disc \o Fill("gap", RunIn) ELSE disc
    BY <1>11 DEF OpenTrack
  <2>2. RunIn \in Int
    BY <1>1
  <2>3. \A i : Body(i)' = Body(i)
    <3>1. CASE Teac
      <4>1. /\ Fill("gap", RunIn) \in Seq(Sector)
            /\ \A k \in 1 .. Len(Fill("gap", RunIn)) :
                  Fill("gap", RunIn)[k][1] \notin {"data", "pad"}
        BY <1>6, <2>2
      <4> QED
        BY <1>4, <2>1, <3>1, <4>1
    <3>2. CASE ~Teac
      BY <1>5, <2>1, <3>2
    <3> QED
      BY <3>1, <3>2
  <2>4. T' = T
    BY <2>1, SameTrack
  <2> HIDE DEF C
  <2> QED
    BY <1>8, <2>1, <2>3, <2>4 DEF Sound
<1>12. ASSUME PadBlock
       PROVE  LengthInv'
  <2>1. /\ pc \in {"pregap", "pad"} /\ session' = session /\ trk' = trk
        /\ errs' = errs /\ outcome' = outcome /\ padlost' = padlost
        /\ disc' = disc \o Fill(pc, Block) /\ amt' = amt - Block
        /\ pc' = IF amt > Block THEN pc ELSE IF pc = "pad" THEN "close" ELSE "begin"
    BY <1>12 DEF PadBlock, Accept
  <2>2. Block \in Nat /\ Block <= amt
    <3>1. bytespt \div SecSize \in Nat
      BY <1>1, SMT
    <3> QED
      BY <1>1, <3>1 DEF Block, Least
  <2>3. pc \in {"gap", "pregap", "pad", "dummy"} /\ Block \in Int
    BY <2>1, <2>2
  <2>4. /\ Fill(pc, Block) \in Seq(Sector) /\ Len(Fill(pc, Block)) = Block
        /\ \A k \in 1 .. Len(Fill(pc, Block)) : Fill(pc, Block)[k] = <<pc, trk, 0>>
    <3>1. Len(Fill(pc, Block)) = IF Block > 0 THEN Block ELSE 0
      BY <1>6, <2>3
    <3>2. Block > 0 \/ Block = 0
      BY <2>2
    <3> QED
      BY <1>6, <2>3, <3>1, <3>2
  <2>5. T' = T
    BY <2>1, SameTrack
  <2>6. CASE pc = "pregap"
    <3>1. \A k \in 1 .. Len(Fill(pc, Block)) : Fill(pc, Block)[k][1] \notin {"data", "pad"}
      BY <2>4, <2>6
    <3>2. \A i : Body(i)' = Body(i)
      BY <1>4, <2>1, <2>4, <3>1
    <3> HIDE DEF C
    <3> QED
      BY <1>8, <2>1, <2>5, <2>6, <3>2 DEF Sound
  <2>7. CASE pc = "pad"
    <3>1. \A k \in 1 .. Block :
             Fill(pc, Block)[k][1] \in {"data", "pad"} /\ Fill(pc, Block)[k][2] = trk
      BY <2>4, <2>7
    <3>2. \A r \in 1 .. Len(Fill(pc, Block)) :
             r > Block => Fill(pc, Block)[r][1] \notin {"data", "pad"}
      BY <2>2, <2>4
    <3>3. Block <= Len(Fill(pc, Block))
      BY <2>2, <2>4
    <3>4. /\ \A i : C(i) \in Nat
          /\ \A i : i # trk \/ Block = 0 => Body(i)' = Body(i)
          /\ \A i : i = trk => C(i)' = C(i) + Block
      BY <2>1, <2>2, <2>4, <3>1, <3>2, <3>3, BodyAdded
    <3> HIDE DEF C
    <3>5. \A i : i = trk => C(i)' + amt' = C(i) + amt
      BY <1>1, <2>1, <2>2, <3>4
    <3>6. ~(amt > Block) => amt' = 0
      BY <1>1, <2>1, <2>2
    <3>7. Sound /\ ~padlost => RightLength(T, C(trk) + amt)
      BY <1>3, <2>7 DEF C
    <3>8. ASSUME Sound /\ ~padlost, ~(amt > Block)
          PROVE  \A i : i = trk => RightLength(T, C(i)')
      <4>1. \A i : i = trk => C(i)' = C(trk) + amt
        BY <1>1, <2>2, <3>4, <3>8
      <4> QED
        BY <3>7, <3>8, <4>1
    <3>9. ASSUME Sound /\ ~padlost, amt > Block
          PROVE  \A i : i = trk => RightLength(T, C(i)' + amt')
      BY <3>5, <3>7, <3>9
    <3>10. Sound' /\ ~padlost' => Sound /\ ~padlost
      BY <2>1 DEF Sound
    <3>11. pc' = IF amt > Block THEN "pad" ELSE "close"
      BY <2>1, <2>7
    <3> QED
      BY <1>8, <2>1, <2>5, <3>4, <3>8, <3>9, <3>10, <3>11
  <2> QED
    BY <2>1, <2>6, <2>7
<1>13. ASSUME BeginTrack
       PROVE  LengthInv'
  <2>1. /\ pc = "begin" /\ pc' = "read" /\ session' = session /\ trk' = trk /\ disc' = disc
        /\ errs' = errs /\ outcome' = outcome /\ padlost' = padlost /\ bytes' = 0
    BY <1>13 DEF BeginTrack, drive, history
  <2>2. \A i : Body(i)' = Body(i)
    BY <1>5, <2>1
  <2>3. ASSUME Sound /\ ~padlost
        PROVE  \A i : i = trk => C(i)' = 0
    <3>1. trk \in 1 .. Len(session.tracks)
      BY <1>1
    <3>2. Body(trk) = {}
      BY <1>3, <2>1, <2>3, <3>1
    <3> QED
      BY <2>2, <3>2, FS_EmptySet
  <2>4. 0 * SecSize = 0
    BY <1>1, SMT
  <2>5. T' = T
    BY <2>1, SameTrack
  <2> HIDE DEF C
  <2> QED
    BY <1>8, <2>1, <2>2, <2>3, <2>4, <2>5 DEF Sound
<1>14. ASSUME ReadBlock \/ InputEnds \/ NextAddress \/ NoAddress \/ WriteRefused
       PROVE  LengthInv'
  <2>1. /\ AtInput /\ session' = session /\ trk' = trk /\ disc' = disc
        /\ outcome' = outcome /\ bytes' = bytes /\ padlost' = padlost
        /\ (pc' \in {"address", "write", "after"} /\ errs' = errs) \/ errs' = errs + 1
    <3>1. CASE NextAddress \/ NoAddress \/ ReadBlock \/ InputEnds
      BY <3>1 DEF NextAddress, NoAddress, ReadBlock, InputEnds, AtInput, drive, job, history
    <3>2. CASE WriteRefused
      BY <3>2 DEF WriteRefused, Refuse, AtInput
    <3> QED
      BY <1>14, <3>1, <3>2
  <2>2. CASE errs' = errs + 1
    <3>1. ~Sound'
      BY <1>1, <2>2 DEF Sound
    <3> QED
      BY <3>1 DEF LengthInv
  <2>3. CASE pc' \in {"address", "write", "after"} /\ errs' = errs
    <3>1. \A i : Body(i)' = Body(i)
      BY <1>5, <2>1
    <3>2. Sound /\ ~padlost =>
             C(trk) * SecSize >= bytes /\ (T.pkt # "variable" => C(trk) * SecSize = bytes)
      BY <1>3, <2>1
    <3>3. \A i : C(i)' = C(i)
      BY <3>1
    <3>4. T' = T
      BY <2>1, SameTrack
    <3> HIDE DEF C
    <3> QED
      BY <1>8, <2>1, <2>3, <3>1, <3>2, <3>3, <3>4 DEF Sound
  <2> QED
    BY <2>1, <2>2, <2>3
<1>15. ASSUME PadTail
       PROVE  LengthInv'
  <2>1. /\ pc = "after" /\ session' = session /\ trk' = trk /\ disc' = disc
        /\ errs' = errs /\ outcome' = outcome /\ padlost' = padlost /\ amt' = padsecs'
        /\ pc' = IF padsecs' > 0 THEN "pad" ELSE "close"
    BY <1>15 DEF PadTail, drive, history
  <2>2. \A i : Body(i)' = Body(i) /\ C(i) \in Nat /\ C(i)' = C(i)
    BY <1>5, <2>1
  <2>3. T' = T
    BY <2>1, SameTrack
  <2> HIDE DEF C
  <2>4. ASSUME Sound /\ ~padlost
        PROVE  RightLength(T, C(trk) + padsecs') /\ padsecs' \in Nat
    <3>1. /\ C(trk) \in Nat /\ C(trk) * SecSize >= bytes
          /\ T.pkt # "variable" => C(trk) * SecSize = bytes
      BY <1>3, <2>1, <2>2, <2>4 DEF C
    <3> QED
      BY <1>15, <3>1, PadMakesLength
  <2>5. ASSUME Sound /\ ~padlost, ~(padsecs' > 0)
        PROVE  RightLength(T, C(trk))
    <3>1. C(trk) + padsecs' = C(trk)
      BY <2>2, <2>4, <2>5
    <3> QED
      BY <2>4, <2>5, <3>1
  <2>6. Sound /\ ~padlost =>
           /\ pc' = "pad" => \A i : i = trk => RightLength(T, C(i)' + amt')
           /\ pc' = "close" => \A i : i = trk => RightLength(T, C(i)')
    BY <2>1, <2>2, <2>4, <2>5
  <2>7. pc' \in {"pad", "close"} /\ (Sound' /\ ~padlost' => Sound /\ ~padlost)
    BY <2>1 DEF Sound
  <2> QED
    BY <1>8, <2>1, <2>2, <2>3, <2>6, <2>7
<1>16. ASSUME WriteBlock
       PROVE  LengthInv'
  <2> DEFINE gap == IF T.pkt = "variable" THEN Fill("gap", Link) ELSE <<>>
             c == buf \o gap
  <2>1. /\ pc = "write" /\ session' = session /\ trk' = trk /\ disc' = disc \o c
        /\ errs' = errs /\ outcome' = outcome /\ padlost' = padlost
        /\ bytes' = bytes + bytespt /\ pc' \in {"read", "after"}
    BY <1>16 DEF WriteBlock, Accept
  <2>2. AtBlock /\ AtInput
    BY <2>1 DEF AtBlock, AtInput
  <2>3. PICK m \in Nat :
           /\ \A r \in 1 .. Sectors(Kept) : buf[r] = Data(trk, (m + r - 1) * SecSize)
           /\ \A r \in 1 .. Len(buf) : r > Sectors(Kept) => buf[r] = <<"pad", trk, 0>>
    BY <2>2, BlockIs
  <2>4. /\ Sectors(Kept) \in Nat /\ Len(buf) \in Nat /\ buf \in Seq(Sector)
        /\ bytespt = Len(buf) * SecSize
    BY <2>2, BlockLength, LenProperties DEF TypeOK
  <2>5. \A r \in 1 .. Len(buf) : buf[r][1] \in {"data", "pad"} /\ buf[r][2] = trk
    <3> SUFFICES ASSUME NEW r \in 1 .. Len(buf)
                 PROVE  buf[r][1] \in {"data", "pad"} /\ buf[r][2] = trk
      OBVIOUS
    <3>1. r \in 1 .. Sectors(Kept) \/ r > Sectors(Kept)
      BY <2>4
    <3> QED
      BY <2>3, <3>1 DEF Data
  <2>6. /\ gap \in Seq(Sector) /\ Len(gap) \in Nat
        /\ \A r \in 1 .. Len(gap) : gap[r][1] \notin {"data", "pad"}
    <3>1. Link \in Int
      BY <1>1
    <3>2. /\ Fill("gap", Link) \in Seq(Sector)
          /\ \A k \in 1 .. Len(Fill("gap", Link)) : Fill("gap", Link)[k][1] \notin {"data", "pad"}
      BY <1>6, <3>1
    <3>3. \A k \in 1 .. Len(<<>>) : <<>>[k][1] \notin {"data", "pad"}
      BY <1>1
    <3>4. gap \in Seq(Sector) /\ \A r \in 1 .. Len(gap) : gap[r][1] \notin {"data", "pad"}
      BY <1>1, <3>2, <3>3, Zenon
    <3> HIDE DEF gap
    <3> QED
      BY <3>4, LenProperties
  <2> HIDE DEF gap
  <2>7. /\ c \in Seq(Sector) /\ Len(c) = Len(buf) + Len(gap)
        /\ \A r \in 1 .. Len(buf) + Len(gap) :
              c[r] = IF r <= Len(buf) THEN buf[r] ELSE gap[r - Len(buf)]
    BY <2>4, <2>6, ConcatProperties
  <2> HIDE DEF c
  <2>8. \A r \in 1 .. Len(buf) : c[r][1] \in {"data", "pad"} /\ c[r][2] = trk
    <3> SUFFICES ASSUME NEW r \in 1 .. Len(buf)
                 PROVE  c[r][1] \in {"data", "pad"} /\ c[r][2] = trk
      OBVIOUS
    <3>1. r <= Len(buf) /\ r \in 1 .. Len(buf) + Len(gap)
      BY <2>4, <2>6
    <3>3. c[r] = buf[r]
      BY <2>7, <3>1
    <3> QED
      BY <2>5, <3>3
  <2>9. \A r \in 1 .. Len(c) : r > Len(buf) => c[r][1] \notin {"data", "pad"}
    <3> SUFFICES ASSUME NEW r \in 1 .. Len(c), r > Len(buf)
                 PROVE  c[r][1] \notin {"data", "pad"}
      OBVIOUS
    <3>1. r - Len(buf) \in 1 .. Len(gap) /\ c[r] = gap[r - Len(buf)]
      BY <2>4, <2>6, <2>7
    <3> QED
      BY <2>6, <3>1
  <2>10. Len(buf) <= Len(c)
    BY <2>4, <2>6, <2>7
  <2>11. /\ \A i : C(i) \in Nat
         /\ \A i : i # trk \/ Len(buf) = 0 => Body(i)' = Body(i)
         /\ \A i : i = trk => C(i)' = C(i) + Len(buf)
    BY <2>1, <2>4, <2>7, <2>8, <2>9, <2>10, BodyAdded
  <2>12. Sound /\ ~padlost =>
            C(trk) * SecSize >= bytes /\ (T.pkt # "variable" => C(trk) * SecSize = bytes)
    BY <1>3, <2>2
  <2> HIDE DEF C
  <2>13. (C(trk) + Len(buf)) * SecSize = C(trk) * SecSize + bytespt
    <3>1. C(trk) \in Nat
      BY <2>11
    <3>2. (C(trk) + Len(buf)) * SecSize = C(trk) * SecSize + Len(buf) * SecSize
      BY <1>1, <2>4, <3>1, SMT
    <3> QED
      BY <2>4, <3>2
  <2>14. Sound /\ ~padlost => \A i : i = trk =>
            /\ C(i)' * SecSize >= bytes'
            /\ T.pkt # "variable" => C(i)' * SecSize = bytes'
    <3>1. C(trk) * SecSize \in Int
      BY <1>1, <2>11, SMT
    <3>2. bytespt \in Int /\ bytes \in Int /\ bytes' = bytes + bytespt
      BY <1>1, <2>1
    <3>3. \A i : i = trk => C(i)' * SecSize = C(trk) * SecSize + bytespt
      BY <2>11, <2>13
    <3> QED
      BY <2>12, <3>1, <3>2, <3>3
  <2>15. T' = T /\ (Sound' /\ ~padlost' => Sound /\ ~padlost)
    BY <2>1, SameTrack DEF Sound
  <2> QED
    BY <1>8, <2>1, <2>11, <2>14, <2>15
<1>17. ASSUME PacketTorn
       PROVE  LengthInv'
  <2> DEFINE gap == Fill("gap", Link)
  <2>1. /\ pc = "write" /\ pc' = "address" /\ T.pkt = "variable" /\ session' = session
        /\ trk' = trk /\ errs' = errs /\ outcome' = outcome
        /\ padlost' = padlost /\ bytes' = bytes
    BY <1>17 DEF PacketTorn, history
  <2>2. AtBlock /\ AtInput
    BY <2>1 DEF AtBlock, AtInput
  <2>3. PICK m \in Nat :
           \A r \in 1 .. Sectors(Kept) : buf[r] = Data(trk, (m + r - 1) * SecSize)
    BY <2>2, BlockIs
  <2>4. Sectors(Kept) \in Nat /\ Len(buf) = Sectors(Kept) /\ buf \in Seq(Sector)
    BY <2>1, <2>2, BlockLength DEF TypeOK, Rest
  <2>5. PICK k \in 0 .. Len(buf) - 1 : disc' = disc \o SubSeq(buf, 1, k) \o gap
    BY <1>17 DEF PacketTorn
  <2> DEFINE part == SubSeq(buf, 1, k)
             c == part \o gap
  <2>6. gap \in Seq(Sector) /\ \A r \in 1 .. Len(gap) : gap[r] = <<"gap", trk, 0>>
    <3>1. Link \in Int
      BY <1>1
    <3> QED
      BY <1>6, <3>1
  <2> HIDE DEF gap
  <2>7. part \in Seq(Sector) /\ Len(part) = k /\ \A r \in 1 .. k : part[r] = buf[r]
    <3>1. k \in Int /\ \A i \in 1 .. k : buf[i] \in Sector
      BY <2>4, <2>5, ElementOfSeq
    <3>2. /\ SubSeq(buf, 1, k) \in Seq(Sector)
          /\ Len(SubSeq(buf, 1, k)) = IF 1 <= k THEN k - 1 + 1 ELSE 0
          /\ \A i \in 1 .. k - 1 + 1 : SubSeq(buf, 1, k)[i] = buf[1 + i - 1]
      BY <3>1, SubSeqProperties
    <3> QED
      BY <2>4, <2>5, <3>2
  <2> HIDE DEF part
  <2>8. disc' = disc \o c
    <3>1. disc' = (disc \o part) \o gap
      BY <2>5 DEF part
    <3>2. disc \in Seq(Sector) /\ part \in Seq(Sector) /\ gap \in Seq(Sector)
      BY <1>1, <2>6, <2>7
    <3>3. (disc \o part) \o gap = disc \o (part \o gap)
      BY <3>2, ConcatAssociative
    <3> QED
      BY <3>1, <3>3
  <2>9. Len(gap) \in Nat
    BY <2>6, LenProperties
  <2>10. /\ c \in Seq(Sector) /\ Len(c) = k + Len(gap)
         /\ \A r \in 1 .. k + Len(gap) : c[r] = IF r <= k THEN part[r] ELSE gap[r - k]
    BY <2>6, <2>7, ConcatProperties
  <2> HIDE DEF c
  <2>11. k \in Nat /\ k <= Len(c)
    BY <2>4, <2>5, <2>9, <2>10
  <2>12. \A r \in 1 .. k : c[r][1] \in {"data", "pad"} /\ c[r][2] = trk
    <3> SUFFICES ASSUME NEW r \in 1 .. k
                 PROVE  c[r][1] \in {"data", "pad"} /\ c[r][2] = trk
      OBVIOUS
    <3>1. r \in 1 .. Sectors(Kept) /\ c[r] = buf[r]
      BY <2>4, <2>7, <2>9, <2>10, <2>11
    <3> QED
      BY <2>3, <3>1 DEF Data
  <2>13. \A r \in 1 .. Len(c) : r > k => c[r][1] \notin {"data", "pad"}
    <3> SUFFICES ASSUME NEW r \in 1 .. Len(c), r > k
                 PROVE  c[r][1] \notin {"data", "pad"}
      OBVIOUS
    <3>1. r - k \in 1 .. Len(gap) /\ c[r] = gap[r - k]
      BY <2>9, <2>10, <2>11
    <3> QED
      BY <2>6, <3>1
  <2>14. /\ \A i : C(i) \in Nat
         /\ \A i : i # trk \/ k = 0 => Body(i)' = Body(i)
         /\ \A i : i = trk => C(i)' = C(i) + k
    BY <2>8, <2>10, <2>11, <2>12, <2>13, BodyAdded
  <2>15. Sound /\ ~padlost => C(trk) * SecSize >= bytes
    BY <1>3, <2>2
  <2> HIDE DEF C
  <2>16. Sound /\ ~padlost => \A i : i = trk => C(i)' * SecSize >= bytes'
    <3>1. \A a, b \in Nat : (a + b) * SecSize >= a * SecSize /\ a * SecSize \in Int
                               /\ (a + b) * SecSize \in Int
      BY <1>1, SMT
    <3> QED
      BY <1>1, <2>1, <2>11, <2>14, <2>15, <3>1
  <2>17. T' = T /\ (Sound' /\ ~padlost' => Sound /\ ~padlost)
    BY <2>1, SameTrack DEF Sound
  <2> QED
    BY <1>8, <2>1, <2>14, <2>16, <2>17
<1>18. ASSUME Fixate
       PROVE  LengthInv'
  <2>1. /\ pc = "fixate" /\ pc' = "done" /\ session' = session /\ trk' = trk /\ disc' = disc
        /\ errs' \in {errs, errs + 1} /\ padlost' = padlost
    BY <1>18 DEF Fixate, drive, history
  <2>2. \A i : Body(i)' = Body(i) /\ C(i)' = C(i)
    BY <1>5, <2>1
  <2>3. Sound' /\ ~padlost' => Sound /\ ~padlost
    BY <1>1, <1>2, <2>1 DEF Sound
  <2>4. Sound /\ ~padlost => RightLength(T, C(trk))
    BY <1>1, <1>3, <2>1 DEF T
  <2>5. T' = T
    BY <2>1, SameTrack
  <2> HIDE DEF C
  <2> QED
    BY <1>8, <2>1, <2>2, <2>3, <2>4, <2>5
<1>19. ASSUME CloseTrack
       PROVE  LengthInv'
  <2> DEFINE c == Dummy \o RunOutBlocks
  <2>1. /\ pc = "close" /\ session' = session /\ errs' = errs /\ outcome' = outcome
        /\ padlost' = padlost /\ disc' = disc \o Dummy \o RunOutBlocks
        /\ (trk' = trk + 1 /\ pc' = "open") \/ (trk' = trk /\ pc' = "fixate")
    BY <1>19 DEF CloseTrack, history
  <2>2. /\ Dummy \in Seq(Sector)
        /\ \A k \in 1 .. Len(Dummy) : Dummy[k][1] \notin {"data", "pad"}
        /\ RunOutBlocks \in Seq(Sector)
        /\ \A k \in 1 .. Len(RunOutBlocks) : RunOutBlocks[k][1] \notin {"data", "pad"}
    <3>1. RunOut \in Int /\ 1 \in Int
      BY <1>1
    <3>2. /\ Fill("dummy", 1) \in Seq(Sector)
          /\ \A k \in 1 .. Len(Fill("dummy", 1)) : Fill("dummy", 1)[k][1] \notin {"data", "pad"}
      BY <1>6, <3>1
    <3>3. /\ Fill("gap", RunOut) \in Seq(Sector)
          /\ \A k \in 1 .. Len(Fill("gap", RunOut)) :
                Fill("gap", RunOut)[k][1] \notin {"data", "pad"}
      BY <1>6, <3>1
    <3>4. \A k \in 1 .. Len(<<>>) : <<>>[k][1] \notin {"data", "pad"}
      BY <1>1
    <3>5. /\ Dummy \in Seq(Sector)
          /\ \A k \in 1 .. Len(Dummy) : Dummy[k][1] \notin {"data", "pad"}
      BY <1>1, <3>2, <3>4, Zenon DEF Dummy
    <3>6. /\ RunOutBlocks \in Seq(Sector)
          /\ \A k \in 1 .. Len(RunOutBlocks) : RunOutBlocks[k][1] \notin {"data", "pad"}
      BY <1>1, <3>3, <3>4, Zenon DEF RunOutBlocks
    <3> QED
      BY <3>5, <3>6
  <2>3. c \in Seq(Sector) /\ \A k \in 1 .. Len(c) : c[k][1] \notin {"data", "pad"}
    BY <1>7, <2>2
  <2>4. disc' = disc \o c
    BY <1>1, <2>1, <2>2, ConcatAssociative
  <2> HIDE DEF c
  <2>5. \A i : Body(i)' = Body(i) /\ C(i)' = C(i)
    BY <1>4, <2>3, <2>4
  <2>6. Sound' /\ ~padlost' => Sound /\ ~padlost
    BY <2>1 DEF Sound
  <2>7. CASE trk' = trk
    <3>1. pc' = "fixate" /\ T' = T
      BY <1>1, <2>1, <2>7, SameTrack
    <3>2. Sound /\ ~padlost => RightLength(T, C(trk))
      BY <1>1, <1>3, <2>1 DEF T
    <3> HIDE DEF C
    <3> QED
      BY <1>8, <2>1, <2>5, <2>6, <2>7, <3>1, <3>2
  <2>8. CASE trk' = trk + 1
    <3>1. pc' = "open"
      BY <1>1, <2>1, <2>8
    <3>2. SUFFICES ASSUME Sound', ~padlost'
                   PROVE  /\ \A i \in 1 .. Len(session.tracks) : i > trk => Body(i)' = {}
                          /\ \A i \in 1 .. trk : RightLength(session.tracks[i], C(i)')
      <4>1. \A i \in 1 .. Len(session.tracks) : i > trk' \/ i = trk' => i > trk
        BY <1>1, <2>8
      <4>2. \A i \in 1 .. trk' : i < trk' => i \in 1 .. trk
        BY <1>1, <2>8
      <4> QED
        BY <2>1, <3>1, <3>2, <4>1, <4>2
        DEF LengthInv, AtInput, RightLength, Announced, InitialPad, Sectors, Most
    <3>3. /\ \A i \in 1 .. Len(session.tracks) : i > trk => Body(i) = {}
          /\ \A i \in 1 .. trk : RightLength(session.tracks[i], C(i))
      BY <1>3, <2>1, <2>6, <3>2
    <3> HIDE DEF C
    <3> QED
      BY <2>5, <3>3
  <2> QED
    BY <2>1, <2>7, <2>8
<1> QED
  BY <1>9, <1>10, <1>11, <1>12, <1>13, <1>14, <1>15, <1>16, <1>17, <1>18, <1>19 DEF Burn
-----------------------------------------------------------------------------
(* A block without sectors of some kind leaves those that there are.        *)
LEMMA KindAdded ==
    ASSUME TypeOK, NEW c \in Seq(Sector), disc' = disc \o c, NEW kind,
           \A k \in 1 .. Len(c) : c[k][1] # kind
    PROVE  \A p \in 1 .. Len(disc') :
              disc'[p][1] = kind => p \in 1 .. Len(disc) /\ disc[p][1] = kind
<1>1. /\ \A p \in 1 .. Len(disc) : p \in 1 .. Len(disc') /\ disc'[p] = disc[p]
      /\ \A k \in 1 .. Len(c) : disc'[Len(disc) + k] = c[k]
      /\ \A p \in 1 .. Len(disc') :
            p \in 1 .. Len(disc) \/ \E k \in 1 .. Len(c) : p = Len(disc) + k
  BY Appended
<1> SUFFICES ASSUME NEW p \in 1 .. Len(disc'), disc'[p][1] = kind
             PROVE  p \in 1 .. Len(disc) /\ disc[p][1] = kind
  OBVIOUS
<1>2. ASSUME NEW k \in 1 .. Len(c), p = Len(disc) + k
      PROVE  FALSE
  <2>1. disc'[p] = c[k]
    BY <1>1, <1>2
  <2> QED
    BY <2>1
<1>3. p \in 1 .. Len(disc)
  BY <1>1, <1>2
<1>4. disc'[p] = disc[p]
  BY <1>1, <1>3
<1> QED
  BY <1>3, <1>4

(* What each step adds to the medium, by the kind of its sectors.           *)
LEMMA WhatIsAdded ==
    ASSUME TypeOK, Numbers, Burn
    PROVE  \E c \in Seq(Sector) :
              /\ disc' = disc \o c
              /\ \/ OpenTrack /\ (IF Teac THEN c = Fill("gap", RunIn) ELSE c = <<>>)
                 \/ PadBlock /\ c = Fill(pc, Block)
                 \/ /\ WriteBlock \/ PacketTorn
                    /\ T.pkt # "variable" =>
                          /\ WriteBlock
                          /\ \A k \in 1 .. Len(c) : c[k][1] # "gap"
                 \/ /\ CloseTrack \/ AbandonTrack
                    /\ c = Dummy \o RunOutBlocks \/ (AbandonTrack /\ c = <<>>)
                 \/ c = <<>>
<1>1. /\ trk \in Nat \ {0} /\ disc \in Seq(Sector) /\ <<>> \in Seq(Sector) /\ disc \o <<>> = disc
      /\ RunIn \in Int /\ RunOut \in Int /\ Link \in Int /\ 1 \in Int /\ SecSize \in Nat \ {0}
      /\ buf \in Seq(Sector) /\ amt \in Int /\ bytespt \in Int
  BY TrackFacts, ConcatEmptySeq, EmptySeq, SizesAssumption DEF TypeOK
<1>2. CASE OpenTrack
  <2>1. Fill("gap", RunIn) \in Seq(Sector)
    BY <1>1, FillIs
  <2>2. disc' = IF Teac THEN disc \o Fill("gap", RunIn) ELSE disc
    BY <1>2 DEF OpenTrack
  <2> QED
    BY <1>1, <1>2, <2>1, <2>2
<1>3. CASE PadBlock
  <2>1. Block \in Int
    <3>1. bytespt \div SecSize \in Int
      BY <1>1, SMT
    <3> QED
      BY <1>1, <3>1 DEF Block, Least
  <2>2. pc \in {"gap", "pregap", "pad", "dummy"} /\ disc' = disc \o Fill(pc, Block)
    BY <1>3 DEF PadBlock, Accept
  <2>3. Fill(pc, Block) \in Seq(Sector)
    BY <1>1, <2>1, <2>2, FillIs
  <2> QED
    BY <1>3, <2>2, <2>3
<1>4. CASE WriteBlock
  <2> DEFINE gap == IF T.pkt = "variable" THEN Fill("gap", Link) ELSE <<>>
  <2>1. disc' = disc \o (buf \o gap) /\ AtBlock
    BY <1>4 DEF WriteBlock, Accept, AtBlock
  <2>2. gap \in Seq(Sector)
    <3>1. Fill("gap", Link) \in Seq(Sector)
      BY <1>1, FillIs
    <3> QED
      BY <1>1, <3>1
  <2>3. buf \o gap \in Seq(Sector)
    BY <1>1, <2>2, ConcatProperties
  <2>4. ASSUME T.pkt # "variable"
        PROVE  \A k \in 1 .. Len(buf \o gap) : (buf \o gap)[k][1] # "gap"
    <3>1. buf \o gap = buf
      BY <1>1, <2>4, ConcatEmptySeq
    <3>2. PICK m \in Nat :
             /\ \A r \in 1 .. Sectors(Kept) : buf[r] = Data(trk, (m + r - 1) * SecSize)
             /\ \A r \in 1 .. Len(buf) : r > Sectors(Kept) => buf[r] = <<"pad", trk, 0>>
      BY <2>1, BlockIs
    <3>3. Sectors(Kept) \in Nat /\ Len(buf) \in Nat
      BY <2>1, BlockLength, LenProperties DEF TypeOK
    <3>4. ASSUME NEW k \in 1 .. Len(buf)
          PROVE  buf[k][1] # "gap"
      <4>1. k \in 1 .. Sectors(Kept) \/ k > Sectors(Kept)
        BY <3>3
      <4> QED
        BY <3>2, <4>1 DEF Data
    <3> QED
      BY <3>1, <3>4
  <2> HIDE DEF gap
  <2> QED
    BY <1>4, <2>1, <2>3, <2>4
<1>5. CASE PacketTorn
  <2>1. T.pkt = "variable"
    BY <1>5 DEF PacketTorn
  <2>2. PICK k \in 0 .. Len(buf) - 1 : disc' = disc \o SubSeq(buf, 1, k) \o Fill("gap", Link)
    BY <1>5 DEF PacketTorn
  <2>3. SubSeq(buf, 1, k) \in Seq(Sector)
    <3>1. Len(buf) \in Nat
      BY <1>1, LenProperties
    <3>2. k \in Int /\ \A i \in 1 .. k : buf[i] \in Sector
      BY <1>1, <2>2, <3>1, ElementOfSeq
    <3> QED
      BY <3>2, SubSeqProperties
  <2> DEFINE part == SubSeq(buf, 1, k)
             gap == Fill("gap", Link)
  <2>4. gap \in Seq(Sector)
    BY <1>1, FillIs
  <2>5. disc' = (disc \o part) \o gap /\ part \in Seq(Sector)
    BY <2>2, <2>3
  <2> HIDE DEF part, gap
  <2>6. (disc \o part) \o gap = disc \o (part \o gap) /\ part \o gap \in Seq(Sector)
    BY <1>1, <2>4, <2>5, ConcatAssociative, ConcatProperties
  <2> QED
    BY <1>5, <2>1, <2>5, <2>6
<1>6. CASE CloseTrack \/ AbandonTrack
  <2>1. Fill("dummy", 1) \in Seq(Sector) /\ Fill("gap", RunOut) \in Seq(Sector)
    BY <1>1, FillIs
  <2>2. Dummy \in Seq(Sector) /\ RunOutBlocks \in Seq(Sector)
    BY <1>1, <2>1 DEF Dummy, RunOutBlocks
  <2>3. disc \o Dummy \o RunOutBlocks = disc \o (Dummy \o RunOutBlocks)
        /\ Dummy \o RunOutBlocks \in Seq(Sector)
    BY <1>1, <2>2, ConcatAssociative, ConcatProperties
  <2>4. disc' = disc \o Dummy \o RunOutBlocks \/ (AbandonTrack /\ disc' = disc)
    BY <1>6 DEF CloseTrack, AbandonTrack
  <2> QED
    BY <1>1, <1>6, <2>3, <2>4
<1>7. CASE ~(OpenTrack \/ PadBlock \/ WriteBlock \/ PacketTorn \/ CloseTrack \/ AbandonTrack)
  <2>1. disc' = disc
    <3>1. CASE PadRefused \/ WriteRefused
      BY <3>1 DEF PadRefused, WriteRefused, Refuse
    <3>2. CASE OpenFails \/ BeginTrack \/ ReadBlock \/ InputEnds \/ InputFails \/ NextAddress
               \/ NoAddress \/ PadTail \/ CloseFails \/ Fixate
      BY <3>2 DEF OpenFails, BeginTrack, ReadBlock, InputEnds, InputFails, NextAddress,
         NoAddress, PadTail, CloseFails, Fixate, drive
    <3> QED
      BY <1>7, <3>1, <3>2 DEF Burn
  <2> QED
    BY <1>1, <2>1
<1> QED
  BY <1>2, <1>3, <1>4, <1>5, <1>6, <1>7
-----------------------------------------------------------------------------
LEMMA SessionKept ==
    ASSUME Burn
    PROVE  session' = session
BY DEF Burn, OpenTrack, OpenFails, PadBlock, PadRefused, BeginTrack, ReadBlock, InputEnds,
   InputFails, NextAddress, NoAddress, WriteBlock, WriteRefused, PacketTorn, PadTail,
   CloseTrack, CloseFails, AbandonTrack, Fixate

(* One step of cdrecord keeps TailInv.                                      *)
LEMMA TailStep ==
    ASSUME TypeOK, Numbers, LinkInv, TailInv, Burn
    PROVE  TailInv'
<1>1. /\ trk \in Nat \ {0} /\ errs \in Nat /\ disc \in Seq(Sector) /\ Len(disc) \in Nat
      /\ amt \in Nat /\ bytespt \in Nat /\ padsecs \in Nat /\ SecSize \in Nat \ {0}
      /\ RunIn \in Nat /\ RunOut \in Nat /\ RunIn < Pregap /\ Pregap \in Nat /\ Base \in Int
      /\ trk <= Len(session.tracks) /\ Len(session.tracks) \in Nat
      /\ Teac => ~session.sao
      /\ session.sao => T.pkt # "variable"
  BY TrackFacts, SizesAssumption, LenProperties DEF TypeOK, Base
<1>2. session' = session /\ Base' = Base
  BY SessionKept DEF Base, Teac
<1>3. ASSUME Single'
      PROVE  trk' = trk /\ T' = T /\ Single
  <2>1. trk' \in 1 .. Len(session'.tracks) /\ Len(session'.tracks) = 1
    BY <1>3, TypeStep DEF TypeOK, Single
  <2>2. trk' = trk
    BY <1>1, <1>2, <2>1
  <2> QED
    BY <1>2, <1>3, <2>2, SameTrack DEF Single
<1>4. \A kind \in {"gap", "pregap", "pad", "dummy"}, n \in Int :
         /\ Fill(kind, n) \in Seq(Sector)
         /\ Len(Fill(kind, n)) = IF n > 0 THEN n ELSE 0
         /\ \A k \in 1 .. Len(Fill(kind, n)) : Fill(kind, n)[k] = <<kind, trk, 0>>
  BY <1>1, FillIs
<1>5. <<>> \in Seq(Sector) /\ \A kind : \A k \in 1 .. Len(<<>>) : <<>>[k][1] # kind
  BY EmptySeq
<1>6. Block \in Nat /\ Block <= amt
  <2>1. bytespt \div SecSize \in Nat
    BY <1>1, SMT
  <2> QED
    BY <1>1, <2>1 DEF Block, Least
<1>7. PICK c \in Seq(Sector) :
         /\ disc' = disc \o c
         /\ \/ OpenTrack /\ (IF Teac THEN c = Fill("gap", RunIn) ELSE c = <<>>)
            \/ PadBlock /\ c = Fill(pc, Block)
            \/ /\ WriteBlock \/ PacketTorn
               /\ T.pkt # "variable" => WriteBlock /\ \A k \in 1 .. Len(c) : c[k][1] # "gap"
            \/ /\ CloseTrack \/ AbandonTrack
               /\ c = Dummy \o RunOutBlocks \/ (AbandonTrack /\ c = <<>>)
            \/ c = <<>>
  BY WhatIsAdded
<1>8. /\ Len(c) \in Nat /\ Len(disc') = Len(disc) + Len(c)
      /\ \A p \in 1 .. Len(disc) : p \in 1 .. Len(disc') /\ disc'[p] = disc[p]
      /\ \A p \in 1 .. Len(disc') :
            p \in 1 .. Len(disc) \/ \E k \in 1 .. Len(c) : p = Len(disc) + k
  BY <1>7, Appended
<1>9. ASSUME NEW kind, \A k \in 1 .. Len(c) : c[k][1] # kind
      PROVE  \A p \in 1 .. Len(disc') :
                disc'[p][1] = kind => p \in 1 .. Len(disc) /\ disc[p][1] = kind
  BY <1>7, <1>9, KindAdded
<1>10. ASSUME NEW d \in Seq(Sector), disc' = disc \o d
       PROVE  c = d
  BY <1>1, <1>7, <1>10, ConcatSimplifications
<1>11. ASSUME PadBlock
       PROVE  /\ pc \in {"pregap", "pad"} /\ c = Fill(pc, Block) /\ Len(c) = Block
              /\ \A k \in 1 .. Len(c) : c[k][1] = pc
  <2>1. pc \in {"pregap", "pad"} /\ disc' = disc \o Fill(pc, Block)
    BY <1>11 DEF PadBlock, Accept
  <2>2. pc \in {"gap", "pregap", "pad", "dummy"} /\ Block \in Int
    BY <1>6, <2>1
  <2>3. /\ Fill(pc, Block) \in Seq(Sector) /\ Len(Fill(pc, Block)) = IF Block > 0 THEN Block ELSE 0
        /\ \A k \in 1 .. Len(Fill(pc, Block)) : Fill(pc, Block)[k] = <<pc, trk, 0>>
    BY <1>4, <2>2
  <2>4. c = Fill(pc, Block)
    BY <1>10, <2>1, <2>3
  <2>5. Len(Fill(pc, Block)) = Block
    BY <1>6, <2>3
  <2> QED
    BY <2>1, <2>3, <2>4, <2>5
<1>12. ASSUME WriteBlock, T.pkt # "variable"
       PROVE  \A k \in 1 .. Len(c) : c[k][1] # "gap"
  <2>1. pc = "write"
    BY <1>12 DEF WriteBlock
  <2>2. ~OpenTrack /\ ~PadBlock /\ ~CloseTrack /\ ~AbandonTrack
    BY <2>1 DEF OpenTrack, PadBlock, CloseTrack, AbandonTrack
  <2> QED
    BY <1>5, <1>7, <1>12, <2>2
<1>13. ASSUME CloseTrack
       PROVE  \A k \in 1 .. Len(c) : c[k][1] # "data"
  <2>1. disc' = disc \o Dummy \o RunOutBlocks
    BY <1>13 DEF CloseTrack
  <2>2. /\ Dummy \in Seq(Sector) /\ \A k \in 1 .. Len(Dummy) : Dummy[k][1] # "data"
        /\ RunOutBlocks \in Seq(Sector)
        /\ \A k \in 1 .. Len(RunOutBlocks) : RunOutBlocks[k][1] # "data"
    <3>1. 1 \in Int /\ RunOut \in Int
      BY <1>1
    <3>2. ASSUME NEW kind \in {"gap", "dummy"}, NEW n \in Int
          PROVE  /\ Fill(kind, n) \in Seq(Sector)
                 /\ \A k \in 1 .. Len(Fill(kind, n)) : Fill(kind, n)[k][1] # "data"
      <4>1. kind \in {"gap", "pregap", "pad", "dummy"} /\ kind # "data"
        OBVIOUS
      <4>2. /\ Fill(kind, n) \in Seq(Sector)
            /\ \A k \in 1 .. Len(Fill(kind, n)) : Fill(kind, n)[k] = <<kind, trk, 0>>
        BY <1>4, <4>1
      <4> QED
        BY <4>1, <4>2
    <3>3. /\ Fill("dummy", 1) \in Seq(Sector) /\ Fill("gap", RunOut) \in Seq(Sector)
          /\ \A k \in 1 .. Len(Fill("dummy", 1)) : Fill("dummy", 1)[k][1] # "data"
          /\ \A k \in 1 .. Len(Fill("gap", RunOut)) : Fill("gap", RunOut)[k][1] # "data"
      BY <3>1, <3>2
    <3>4. <<>> \in Seq(Sector) /\ \A k \in 1 .. Len(<<>>) : <<>>[k][1] # "data"
      BY <1>5
    <3> QED
      BY <3>3, <3>4, Zenon DEF Dummy, RunOutBlocks
  <2> DEFINE d == Dummy \o RunOutBlocks
  <2>3. /\ d \in Seq(Sector) /\ Len(d) = Len(Dummy) + Len(RunOutBlocks)
        /\ \A k \in 1 .. Len(Dummy) + Len(RunOutBlocks) :
              d[k] = IF k <= Len(Dummy) THEN Dummy[k] ELSE RunOutBlocks[k - Len(Dummy)]
    BY <2>2, ConcatProperties
  <2>4. disc' = disc \o d
    BY <1>1, <2>1, <2>2, ConcatAssociative
  <2> HIDE DEF d
  <2>5. c = d
    BY <1>10, <2>3, <2>4
  <2>6. Len(Dummy) \in Nat /\ Len(RunOutBlocks) \in Nat
    BY <2>2, LenProperties
  <2> SUFFICES ASSUME NEW k \in 1 .. Len(d)
               PROVE  d[k][1] # "data"
    BY <2>5
  <2>7. CASE k <= Len(Dummy)
    <3>1. k \in 1 .. Len(Dummy) /\ d[k] = Dummy[k]
      BY <2>3, <2>6, <2>7
    <3> QED
      BY <2>2, <3>1
  <2>8. CASE ~(k <= Len(Dummy))
    <3>1. k - Len(Dummy) \in 1 .. Len(RunOutBlocks) /\ d[k] = RunOutBlocks[k - Len(Dummy)]
      BY <2>3, <2>6, <2>8
    <3> QED
      BY <2>2, <3>1
  <2> QED
    BY <2>7, <2>8
<1>14. session.sao => \A g \in 1 .. Len(disc') : disc'[g][1] # "gap"
  <2> SUFFICES ASSUME session.sao
               PROVE  \A g \in 1 .. Len(disc') : disc'[g][1] # "gap"
    OBVIOUS
  <2>1. /\ ~Teac /\ T.pkt # "variable"
        /\ \A g \in 1 .. Len(disc) : disc[g][1] # "gap"
    BY <1>1 DEF TailInv
  <2>2. \A k \in 1 .. Len(c) : c[k][1] # "gap"
    <3>1. CASE PadBlock
      BY <1>11, <3>1
    <3>2. CASE WriteBlock
      BY <1>12, <2>1, <3>2
    <3>3. CASE c = Dummy \o RunOutBlocks
      <4>1. Dummy = <<>> \o <<>> /\ RunOutBlocks = <<>>
        BY <2>1, <1>5, ConcatEmptySeq DEF Dummy, RunOutBlocks
      <4> QED
        BY <1>5, <3>3, <4>1, ConcatEmptySeq
    <3> QED
      BY <1>5, <1>7, <2>1, <3>1, <3>2, <3>3
  <2> QED
    BY <1>9, <2>1, <2>2
<1>15. Single' => pc' # "open"
  <2> SUFFICES ASSUME Single', pc' = "open"
               PROVE  FALSE
    OBVIOUS
  <2>1. CloseTrack
    BY DEF Burn, OpenTrack, OpenFails, PadBlock, PadRefused, BeginTrack, ReadBlock, InputEnds,
       InputFails, NextAddress, NoAddress, WriteBlock, WriteRefused, PacketTorn, PadTail,
       CloseFails, AbandonTrack, Fixate
  <2>2. trk < Len(session.tracks)
    BY <1>1, <2>1, <1>2 DEF CloseTrack
  <2>3. Len(session.tracks) = 1
    BY <1>3 DEF Single
  <2> QED
    BY <1>1, <2>2, <2>3
\* A disc with one track, as long as nothing went wrong
<1>16. ASSUME Single', Sound', ~padlost'
       PROVE  /\ Single /\ Sound /\ ~padlost /\ trk' = trk /\ T' = T
              /\ ~OpenFails /\ ~InputFails /\ ~CloseFails /\ ~AbandonTrack /\ ~PadRefused
              /\ ~PacketTorn /\ ~WriteRefused
  <2>1. /\ Single /\ trk' = trk /\ T' = T /\ T.pkt # "variable"
        /\ errs' = 0 /\ outcome' # "input"
    BY <1>3, <1>16 DEF Single, Sound
  <2>2. ~OpenFails /\ ~CloseFails
    BY <1>1, <2>1 DEF OpenFails, CloseFails
  <2>3. ~InputFails /\ ~PadRefused /\ ~PacketTorn
    BY <1>16, <2>1 DEF InputFails, PadRefused, PacketTorn
  <2>4. ~WriteRefused
    BY <1>1, <2>1 DEF WriteRefused
  <2>5. ~AbandonTrack
    BY <1>1, <2>1 DEF AbandonTrack, LinkInv
  <2>6. OpenTrack \/ PadBlock \/ BeginTrack \/ ReadBlock \/ InputEnds \/ NextAddress \/ NoAddress
           \/ WriteBlock \/ PadTail \/ CloseTrack
        => errs' = errs /\ outcome' = outcome /\ padlost' = padlost
    BY DEF OpenTrack, PadBlock, BeginTrack, ReadBlock, InputEnds, NextAddress, NoAddress,
       WriteBlock, PadTail, CloseTrack, history
  <2>7. Fixate => errs' \in {errs, errs + 1} /\ pc = "fixate" /\ padlost' = padlost
    BY DEF Fixate, history
  <2>8. pc # "done" => outcome = "running"
    BY DEF LinkInv
  <2>9. Sound /\ ~padlost
    BY <1>1, <1>16, <2>1, <2>2, <2>3, <2>4, <2>5, <2>6, <2>7, <2>8 DEF Sound, Burn
  <2> QED
    BY <2>1, <2>2, <2>3, <2>4, <2>5, <2>9
<1>17. ASSUME Single, Sound, ~padlost
       PROVE  /\ pc \in {"pregap", "begin"} \/ InTrack =>
                    \A g \in 1 .. Len(disc) : disc[g][1] = "gap" => g <= -Base
              /\ pc \in {"pad", "close"} => padsecs >= T.pad
              /\ pc = "pad" =>
                    \A p \in 1 .. Len(disc) :
                       disc[p][1] = "data" => p + padsecs - amt <= Len(disc)
              /\ pc = "close" =>
                    \A p \in 1 .. Len(disc) : disc[p][1] = "data" => p + padsecs <= Len(disc)
              /\ pc \in {"fixate", "done"} =>
                    \A p, g \in 1 .. Len(disc) :
                       disc[p][1] = "data" /\ disc[g][1] = "gap" /\ g > -Base => p + T.pad < g
  BY <1>17 DEF TailInv
<1>18. T.pad \in Nat /\ InitialPad(T) >= T.pad
  BY TrackFacts, TrackNumbers DEF TrackOK
<1>19. ASSUME Single', Sound', ~padlost'
       PROVE  /\ pc' \in {"pregap", "begin", "read", "address", "write", "after", "pad", "close"} =>
                    \A g \in 1 .. Len(disc') : disc'[g][1] = "gap" => g <= -Base
              /\ pc' \in {"pad", "close"} => padsecs' >= T.pad
              /\ pc' = "pad" =>
                    \A p \in 1 .. Len(disc') :
                       disc'[p][1] = "data" => p + padsecs' - amt' <= Len(disc')
              /\ pc' = "close" =>
                    \A p \in 1 .. Len(disc') : disc'[p][1] = "data" => p + padsecs' <= Len(disc')
              /\ pc' \in {"fixate", "done"} =>
                    \A p, g \in 1 .. Len(disc') :
                       disc'[p][1] = "data" /\ disc'[g][1] = "gap" /\ g > -Base => p + T.pad < g
  <2>1. /\ Single /\ Sound /\ ~padlost /\ trk' = trk
        /\ ~OpenFails /\ ~InputFails /\ ~CloseFails /\ ~AbandonTrack /\ ~PadRefused
        /\ ~PacketTorn /\ ~WriteRefused /\ T.pkt # "variable"
    BY <1>16, <1>19 DEF Single
  <2>2. CASE OpenTrack
    <3>1. pc = "open" /\ pc' \in {"pregap", "begin"} /\ disc = <<>>
          /\ disc' = IF Teac THEN disc \o Fill("gap", RunIn) ELSE disc
      BY <2>1, <2>2 DEF OpenTrack, TailInv
    <3>2. Len(disc) = 0
      BY <3>1, EmptySeq
    <3>3. CASE Teac
      <4>1. RunIn \in Int
        BY <1>1
      <4>2. /\ Fill("gap", RunIn) \in Seq(Sector)
            /\ Len(Fill("gap", RunIn)) = IF RunIn > 0 THEN RunIn ELSE 0
        BY <1>4, <4>1
      <4>3. Len(disc') = RunIn
        BY <1>1, <1>8, <1>10, <3>1, <3>2, <3>3, <4>2
      <4>4. Base = -Pregap
        BY <3>3 DEF Base
      <4>5. \A g \in 1 .. Len(disc') : g <= -Base
        BY <1>1, <4>3, <4>4
      <4> QED
        BY <3>1, <4>5
    <3>4. CASE ~Teac
      BY <3>1, <3>2, <3>4
    <3> QED
      BY <3>3, <3>4
  <2>3. CASE PadBlock
    <3>1. /\ pc \in {"pregap", "pad"} /\ Len(c) = Block /\ \A k \in 1 .. Len(c) : c[k][1] = pc
          /\ padsecs' = padsecs /\ amt' = amt - Block
          /\ pc' = IF amt > Block THEN pc ELSE IF pc = "pad" THEN "close" ELSE "begin"
      BY <1>11, <2>3 DEF PadBlock
    <3>2. \A k \in 1 .. Len(c) : c[k][1] # "gap" /\ c[k][1] # "data"
      BY <3>1
    <3>3. \A g \in 1 .. Len(disc') : disc'[g][1] = "gap" => g <= -Base
      BY <1>9, <1>17, <2>1, <3>1, <3>2 DEF InTrack
    <3>4. CASE pc = "pregap"
      BY <3>1, <3>3, <3>4
    <3>5. CASE pc = "pad"
      <4>1. \A p \in 1 .. Len(disc') : disc'[p][1] = "data" => p \in 1 .. Len(disc) /\ disc[p][1] = "data"
        BY <1>9, <3>2
      <4>2. padsecs >= T.pad /\ \A p \in 1 .. Len(disc) :
               disc[p][1] = "data" => p + padsecs - amt <= Len(disc)
        BY <1>17, <2>1, <3>5
      <4>3. Len(disc') = Len(disc) + Block /\ amt' = amt - Block /\ (~(amt > Block) => amt' = 0)
        BY <1>1, <1>6, <1>8, <3>1
      <4>4. ASSUME NEW p \in 1 .. Len(disc'), disc'[p][1] = "data"
            PROVE  p + padsecs - amt' <= Len(disc') /\ (amt' = 0 => p + padsecs <= Len(disc'))
        <5>1. p + padsecs - amt <= Len(disc) /\ p \in Int
          BY <4>1, <4>2, <4>4
        <5> QED
          BY <1>1, <1>6, <4>3, <5>1
      <4>5. pc' = IF amt > Block THEN "pad" ELSE "close"
        BY <3>1, <3>5
      <4> QED
        BY <3>1, <3>3, <4>2, <4>3, <4>4, <4>5
    <3> QED
      BY <3>1, <3>4, <3>5
  <2>4. CASE BeginTrack \/ ReadBlock \/ InputEnds \/ NextAddress \/ NoAddress
    <3>1. /\ disc' = disc /\ pc \in {"begin", "read", "address"}
          /\ pc' \in {"read", "address", "write", "after"}
      BY <2>4 DEF BeginTrack, ReadBlock, InputEnds, NextAddress, NoAddress, drive
    <3>2. \A g \in 1 .. Len(disc) : disc[g][1] = "gap" => g <= -Base
      BY <1>17, <2>1, <3>1 DEF InTrack
    <3> QED
      BY <3>1, <3>2
  <2>5. CASE WriteBlock
    <3>1. pc = "write" /\ pc' \in {"read", "after"}
      BY <2>5 DEF WriteBlock
    <3>2. \A g \in 1 .. Len(disc') : disc'[g][1] = "gap" => g <= -Base
      BY <1>9, <1>12, <1>17, <2>1, <2>5, <3>1 DEF InTrack
    <3> QED
      BY <3>1, <3>2
  <2>6. CASE PadTail
    <3>1. /\ pc = "after" /\ disc' = disc /\ amt' = padsecs'
          /\ pc' = IF padsecs' > 0 THEN "pad" ELSE "close"
      BY <2>6 DEF PadTail, drive
    <3>2. padsecs' \in Nat /\ padsecs' >= padsecs
      <4>1. bytes \div SecSize \in Int /\ MinSecs \in Int
        BY <1>1, SizesAssumption, SMT DEF TypeOK
      <4> QED
        BY <1>1, <2>6, <4>1 DEF PadTail, Most
    <3>3. padsecs = InitialPad(T)
      BY <3>1 DEF Numbers
    <3>4. padsecs' >= T.pad
      BY <1>1, <1>18, <3>2, <3>3
    <3>5. \A g \in 1 .. Len(disc) : disc[g][1] = "gap" => g <= -Base
      BY <1>17, <2>1, <3>1 DEF InTrack
    <3>6. ASSUME NEW p \in 1 .. Len(disc)
          PROVE  p + padsecs' - amt' <= Len(disc) /\ (~(padsecs' > 0) => p + padsecs' <= Len(disc))
      BY <1>1, <3>1, <3>2
    <3> QED
      BY <3>1, <3>4, <3>5, <3>6
  <2>7. CASE CloseTrack
    <3>1. pc = "close" /\ pc' \in {"open", "fixate"}
      BY <2>7 DEF CloseTrack
    <3>2. \A p \in 1 .. Len(disc') : disc'[p][1] = "data" => p \in 1 .. Len(disc) /\ disc[p][1] = "data"
      BY <1>9, <1>13, <2>7
    <3>3. /\ \A g \in 1 .. Len(disc) : disc[g][1] = "gap" => g <= -Base
          /\ padsecs >= T.pad
          /\ \A p \in 1 .. Len(disc) : disc[p][1] = "data" => p + padsecs <= Len(disc)
      BY <1>17, <2>1, <3>1 DEF InTrack
    <3>4. ASSUME NEW p \in 1 .. Len(disc'), NEW g \in 1 .. Len(disc'),
                 disc'[p][1] = "data", disc'[g][1] = "gap", g > -Base
          PROVE  p + T.pad < g
      <4>1. p + padsecs <= Len(disc) /\ p \in Int /\ g \in Int
        BY <3>2, <3>3, <3>4
      <4>2. g \notin 1 .. Len(disc)
        <5>1. SUFFICES ASSUME g \in 1 .. Len(disc)
                       PROVE  FALSE
          OBVIOUS
        <5>2. disc[g][1] = "gap"
          BY <1>8, <3>4, <5>1
        <5> QED
          BY <1>1, <3>3, <3>4, <4>1, <5>1, <5>2
      <4>3. g > Len(disc)
        BY <1>1, <4>2, <3>4
      <4> QED
        BY <1>1, <1>18, <3>3, <4>1, <4>3
    <3> QED
      BY <3>1, <3>4
  <2>8. CASE Fixate
    <3>1. pc = "fixate" /\ pc' = "done" /\ disc' = disc
      BY <2>8 DEF Fixate, drive
    <3> QED
      BY <1>17, <2>1, <3>1
  <2> QED
    BY <2>1, <2>2, <2>3, <2>4, <2>5, <2>6, <2>7, <2>8 DEF Burn
<1> QED
  <2> SUFFICES ASSUME Single', Sound', ~padlost'
               PROVE  /\ pc' \in {"pregap", "begin", "read", "address", "write", "after", "pad", "close"} =>
                            \A g \in 1 .. Len(disc') : disc'[g][1] = "gap" => g <= -Base'
                      /\ pc' \in {"pad", "close"} => padsecs' >= T'.pad
                      /\ pc' = "pad" =>
                            \A p \in 1 .. Len(disc') :
                               disc'[p][1] = "data" => p + padsecs' - amt' <= Len(disc')
                      /\ pc' = "close" =>
                            \A p \in 1 .. Len(disc') :
                               disc'[p][1] = "data" => p + padsecs' <= Len(disc')
                      /\ pc' \in {"fixate", "done"} =>
                            \A p, g \in 1 .. Len(disc') :
                               disc'[p][1] = "data" /\ disc'[g][1] = "gap" /\ g > -Base'
                                  => p + T'.pad < g
    BY <1>2, <1>14, <1>15 DEF TailInv, InTrack
  <2> QED
    BY <1>2, <1>3, <1>19
-----------------------------------------------------------------------------
(* The invariants hold when main starts, through each step of cdrecord, and *)
(* while it rests.                                                          *)
LEMMA BurnInit ==
    ASSUME Init
    PROVE  BurnInv
<1>1. /\ session \in Sessions /\ trk = 1 /\ pc = "open" /\ errs = 0 /\ outcome = "running"
      /\ disc = <<>> /\ Len(disc) = 0 /\ ~sealed
  BY EmptySeq DEF Init
<1>2. TypeOK
  <2>1. Len(session.tracks) \in Nat \ {0}
    <3>1. SessionOK(session)
      BY <1>1, SessionsAssumption
    <3> QED
      BY <3>1, EmptySeq, LenProperties DEF SessionOK
  <2>2. trk \in 1 .. Len(session.tracks)
    BY <1>1, <2>1
  <2>3. <<>> \in Seq(Sector)
    BY EmptySeq
  <2>4. {bytes_read, bytes, bytespt, padsecs, amt, stale} \subseteq Nat /\ startsec \in Int
    <3>1. /\ bytes_read = 0 /\ bytes = 0 /\ bytespt = 0 /\ padsecs = 0 /\ amt = 0 /\ stale = 0
          /\ startsec = 0
      BY DEF Init
    <3> QED
      BY <3>1
  <2>5. {islast, retried, last_done, linked, sealed, padlost} \subseteq BOOLEAN
    <3>1. /\ islast = FALSE /\ retried = FALSE /\ last_done = FALSE /\ linked = FALSE
          /\ sealed = FALSE /\ padlost = FALSE
      BY DEF Init
    <3> QED
      BY <3>1
  <2>6. buf \in Seq(Sector) /\ disc \in Seq(Sector)
    BY <2>3 DEF Init
  <2> QED
    BY <1>1, <2>2, <2>4, <2>5, <2>6 DEF TypeOK
<1>3. LinkInv
  BY <1>1 DEF LinkInv, TrackClosed, InTrack
<1>4. Numbers
  BY <1>1 DEF Numbers, AtBlock
<1>5. DataInv
  <2>1. 1 .. Len(disc) = {} /\ 0 .. 0 - 1 = {}
    BY <1>1
  <2>2. \A i \in 1 .. trk : Sent(i) = 0
    BY <1>1 DEF Sent, Behind, AtInput
  <2> QED
    BY <2>1, <2>2 DEF DataInv
<1>6. LengthInv
  <2>1. \A i : Body(i) = {}
    BY <1>1 DEF Body
  <2>2. \A i \in 1 .. trk : ~(i < trk)
    BY <1>1
  <2> QED
    BY <1>1, <2>1, <2>2 DEF LengthInv, AtInput
<1>7. TailInv
  BY <1>1 DEF TailInv, InTrack
<1> QED
  BY <1>2, <1>3, <1>4, <1>5, <1>6, <1>7 DEF BurnInv

LEMMA BurnStepKeeps ==
    ASSUME BurnInv, Burn
    PROVE  BurnInv'
<1>1. TypeOK /\ LinkInv /\ Numbers /\ DataInv /\ LengthInv /\ TailInv
  BY DEF BurnInv
<1>2. TypeOK' /\ Numbers'
  BY <1>1, TypeStep, NumbersStep
<1>3. LinkInv' /\ DataInv' /\ LengthInv' /\ TailInv'
  BY <1>1, LinkStep, DataStep, LengthStep, TailStep
<1> QED
  BY <1>2, <1>3 DEF BurnInv

LEMMA BurnRests ==
    ASSUME BurnInv, UNCHANGED vars
    PROVE  BurnInv'
<1>1. /\ session' = session /\ trk' = trk /\ pc' = pc /\ errs' = errs /\ outcome' = outcome
      /\ bytes_read' = bytes_read /\ bytes' = bytes /\ bytespt' = bytespt /\ buf' = buf
      /\ startsec' = startsec /\ islast' = islast /\ padsecs' = padsecs /\ amt' = amt
      /\ retried' = retried /\ last_done' = last_done /\ disc' = disc /\ stale' = stale
      /\ linked' = linked /\ sealed' = sealed /\ padlost' = padlost
  BY DEF vars, main, job, drive, history
<1>2. TypeOK'
  BY <1>1 DEF BurnInv, TypeOK
<1>3. LinkInv'
  BY <1>1 DEF BurnInv, LinkInv, TrackClosed, InTrack, Teac
<1>4. Numbers'
  <2>1. /\ T' = T /\ Plain' = Plain /\ Transfer' = Transfer
        /\ InitialPad(T)' = InitialPad(T) /\ Taken(T)' = Taken(T)
        /\ Padded(T)' = Padded(T) /\ EndsMarked' = EndsMarked
        /\ EndsUnmarked(T)' = EndsUnmarked(T)
        /\ \A n : Whole(n)' = Whole(n)
    BY <1>1, SameTrack
  <2>2. /\ Kept' = Kept /\ Rest' = Rest /\ AtBlock' = AtBlock
        /\ \A u, n : Payload(u, n)' = Payload(u, n)
        /\ \A kind, n : Fill(kind, n)' = Fill(kind, n)
        /\ \A n : Sectors(n)' = Sectors(n)
    BY <1>1, <2>1 DEF Kept, Rest, AtBlock, Payload, Fill, Data, Sectors
  <2>3. Going' = Going
    BY <1>1, <2>1 DEF Going
  <2>4. Over' = Over
    BY <1>1, <2>1 DEF Over, Counted, Sectors
  <2> QED
    BY <1>1, <2>1, <2>2, <2>3, <2>4 DEF BurnInv, Numbers
<1>5. DataInv'
  <2>1. /\ Sound' = Sound /\ T' = T /\ AtBlock' = AtBlock /\ AtInput' = AtInput
        /\ \A x : At(x)' = At(x)
        /\ \A i : Behind(i)' = Behind(i)
    BY <1>1 DEF Sound, T, AtBlock, AtInput, At, Behind
  <2>2. \A i : Sent(i)' = Sent(i)
    BY <1>1, <2>1 DEF Sent, Sectors, Taken, Least
  <2>3. \A i : Cut(i)' = Cut(i)
    BY <1>1, <2>1, <2>2 DEF Cut, Kept, Sectors
  <2> QED
    BY <1>1, <2>1, <2>2, <2>3 DEF BurnInv, DataInv, Data
<1>6. LengthInv'
  BY <1>1 DEF BurnInv, LengthInv, Sound, AtInput, Body, RightLength, T
<1>7. TailInv'
  BY <1>1 DEF BurnInv, TailInv, Sound, Single, InTrack, Base, Teac, T
<1> QED
  BY <1>2, <1>3, <1>4, <1>5, <1>6, <1>7 DEF BurnInv
-----------------------------------------------------------------------------
(* What the invariants say of a session at its end.                         *)
LEMMA LengthIsKept ==
    ASSUME BurnInv
    PROVE  LengthKept
<1> SUFFICES ASSUME outcome = "ok", ~padlost, NEW i \in 1 .. Len(session.tracks)
             PROVE  RightLength(session.tracks[i], Cardinality(Body(i)))
  BY DEF LengthKept
<1>1. pc = "done" /\ errs = 0 /\ trk = Len(session.tracks)
  BY DEF BurnInv, LinkInv
<1> QED
  BY <1>1 DEF BurnInv, LengthInv, Sound

LEMMA MarksAreLast ==
    ASSUME BurnInv
    PROVE  MarksLast
BY DEF BurnInv, Numbers, MarksLast, Plain

LEMMA NewestIs ==
    ASSUME TypeOK, NEW x, At(x) # {}
    PROVE  Newest(x) \in At(x) /\ \A q \in At(x) : q <= Newest(x)
<1>1. Len(disc) \in Nat
  BY LenProperties DEF TypeOK
<1> DEFINE S == {n \in Nat : Len(disc) - n \in At(x)}
<1>2. S \subseteq Nat /\ S # {}
  <2>1. PICK p \in At(x) : TRUE
    OBVIOUS
  <2>2. p \in Int /\ p <= Len(disc) /\ Len(disc) - p \in Nat /\ Len(disc) - (Len(disc) - p) = p
    BY <1>1 DEF At
  <2>3. Len(disc) - p \in S
    BY <2>1, <2>2
  <2> QED
    BY <2>3
<1>3. PICK m \in S : \A k \in S : m <= k
  BY <1>2, LeastInNat
<1>4. ASSUME NEW q \in At(x)
      PROVE  q <= Len(disc) - m
  <2>1. q \in Int /\ Len(disc) - q \in Nat /\ Len(disc) - (Len(disc) - q) = q
    BY <1>1 DEF At
  <2>2. Len(disc) - q \in S
    BY <2>1
  <2>3. m \in Int /\ m <= Len(disc) - q
    BY <1>3, <2>2
  <2> HIDE DEF S
  <2> QED
    BY <1>1, <2>1, <2>3
<1>5. \E p \in At(x) : \A q \in At(x) : q <= p
  BY <1>3, <1>4
<1> QED
  BY <1>5 DEF Newest

LEMMA DataIsOnDisc ==
    ASSUME BurnInv
    PROVE  DataOnDisc
<1> SUFFICES ASSUME outcome = "ok", NEW i \in 1 .. Len(session.tracks),
                    NEW n, n = Sectors(Taken(session.tracks[i]))
             PROVE  /\ \A k \in 0 .. n - 1 : At(Data(i, k * SecSize)) # {}
                    /\ \A k \in 1 .. n - 1 : Newest(Data(i, (k - 1) * SecSize))
                                                < Newest(Data(i, k * SecSize))
                    /\ session.tracks[i].pkt # "variable" =>
                          \A p \in 1 .. Len(disc) :
                             disc[p][1] = "data" /\ disc[p][2] = i =>
                                \E k \in 0 .. n - 1 : At(Data(i, k * SecSize)) = {p}
  BY DEF DataOnDisc
<1>1. TypeOK /\ Numbers /\ DataInv /\ pc = "done" /\ Sound /\ trk = Len(session.tracks)
  BY DEF BurnInv, LinkInv, Sound
<1>2. n \in Nat /\ Len(session.tracks) \in Nat
  BY <1>1, TrackFacts, TrackNumbers
<1>3. \A j \in 1 .. trk : Sent(j) = Sectors(Taken(session.tracks[j])) /\ Cut(j) = Sent(j)
  BY <1>1, <1>2 DEF Sent, Cut, Behind, AtBlock
<1>4. ASSUME NEW k \in 0 .. n - 1
      PROVE  \E p \in At(Data(i, k * SecSize)) :
                \A j \in 0 .. k - 1 : \A q \in At(Data(i, j * SecSize)) : q < p
  <2>1. i \in 1 .. trk /\ k \in 0 .. Sent(i) - 1
    BY <1>1, <1>3
  <2> QED
    BY <1>1, <2>1 DEF DataInv
<1>5. \A k \in 0 .. n - 1 : At(Data(i, k * SecSize)) # {}
  BY <1>4
<1>6. ASSUME NEW k \in 1 .. n - 1
      PROVE  Newest(Data(i, (k - 1) * SecSize)) < Newest(Data(i, k * SecSize))
  <2> DEFINE old == Data(i, (k - 1) * SecSize)
             new == Data(i, k * SecSize)
  <2>1. k \in 0 .. n - 1 /\ k - 1 \in 0 .. n - 1 /\ k - 1 \in 0 .. k - 1
    BY <1>2
  <2>2. PICK p \in At(new) : \A j \in 0 .. k - 1 : \A q \in At(Data(i, j * SecSize)) : q < p
    BY <1>4, <2>1
  <2>3. \A q \in At(old) : q < p
    BY <2>1, <2>2
  <2>4. At(old) # {} /\ At(new) # {}
    BY <1>5, <2>1
  <2> HIDE DEF old, new
  <2>5. Newest(old) \in At(old) /\ Newest(new) \in At(new) /\ p <= Newest(new)
    BY <1>1, <2>2, <2>4, NewestIs
  <2>6. Newest(old) \in Int /\ Newest(new) \in Int /\ p \in Int
    BY <2>2, <2>5 DEF At
  <2>7. Newest(old) < Newest(new)
    BY <2>3, <2>5, <2>6
  <2> QED
    BY <2>7 DEF old, new
<1>7. ASSUME session.tracks[i].pkt # "variable",
             NEW p \in 1 .. Len(disc), disc[p][1] = "data", disc[p][2] = i
      PROVE  \E k \in 0 .. n - 1 : At(Data(i, k * SecSize)) = {p}
  <2>1. PICK j \in 1 .. trk : \E k \in 0 .. Cut(j) - 1 : disc[p] = Data(j, k * SecSize)
    BY <1>1, <1>7 DEF DataInv
  <2>2. j = i
    BY <1>7, <2>1 DEF Data
  <2>3. PICK k \in 0 .. n - 1 : disc[p] = Data(i, k * SecSize)
    BY <1>3, <2>1, <2>2
  <2>4. ASSUME NEW q \in 1 .. Len(disc), disc[q] = disc[p]
        PROVE  q = p
    BY <1>1, <1>7, <2>4 DEF DataInv
  <2>5. At(Data(i, k * SecSize)) = {p}
    BY <2>3, <2>4 DEF At
  <2> QED
    BY <2>3, <2>5
<1> QED
  BY <1>5, <1>6, <1>7
=============================================================================
