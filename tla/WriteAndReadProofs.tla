------------------------ MODULE WriteAndReadProofs ------------------------
(***************************************************************************)
(* What a disc holds that was burnt without an error, and what readcd gets *)
(* back from it, for every session, transfer size, minimum length and      *)
(* chunk size.                                                             *)
(***************************************************************************)
EXTENDS RoundTripInv, TrackWriteProofs

Zeros == Reader!Zeros
File == saved \o sbuf
Wrong(f) == {i \in 1 .. Len(f) : i > Len(Medium) \/ f[i] # Medium[i]}

(* The reader's sectors are those of the disc from address 0 on.            *)
LEMMA MediumIs ==
    ASSUME TypeOK
    PROVE  /\ Medium \in Seq(Sector) /\ Len(Medium) \in Nat /\ Base \in Int
           /\ \A p \in 1 .. Len(Medium) :
                 p - Base \in 1 .. Len(disc) /\ Medium[p] = disc[p - Base]
           /\ \A p \in 1 .. Len(Medium) : Medium[p] # Zeros
<1>1. disc \in Seq(Sector) /\ Len(disc) \in Nat /\ Base \in Int /\ Base <= 0
  BY SizesAssumption, LenProperties DEF TypeOK, Base
<1>2. 1 - Base \in Int /\ \A i \in 1 - Base .. Len(disc) : disc[i] \in Sector
  BY <1>1, ElementOfSeq
<1>3. /\ Medium \in Seq(Sector)
      /\ Len(Medium) = IF 1 - Base <= Len(disc) THEN Len(disc) - (1 - Base) + 1 ELSE 0
      /\ \A i \in 1 .. Len(disc) - (1 - Base) + 1 : Medium[i] = disc[1 - Base + i - 1]
  BY <1>1, <1>2, SubSeqProperties DEF Medium
<1>4. Len(Medium) \in Nat
  BY <1>1, <1>3
<1>5. ASSUME NEW p \in 1 .. Len(Medium)
      PROVE  p - Base \in 1 .. Len(disc) /\ Medium[p] = disc[p - Base]
  <2>1. p \in 1 .. Len(disc) - (1 - Base) + 1 /\ 1 - Base + p - 1 = p - Base
        /\ p - Base \in 1 .. Len(disc)
    BY <1>1, <1>3
  <2> QED
    BY <1>3, <2>1
<1>6. ASSUME NEW p \in 1 .. Len(Medium)
      PROVE  Medium[p] # Zeros
  <2>1. Medium[p] \in Sector
    BY <1>3, <1>6, ElementOfSeq
  <2>2. Medium[p][1] # "zero"
    BY <2>1 DEF Sector
  <2> QED
    BY <2>2 DEF Zeros, Reader!Zeros
<1> QED
  BY <1>1, <1>3, <1>4, <1>5, <1>6

(* A copy that gets longer by sectors in their places gets no wrong one.    *)
LEMMA RightAdded ==
    ASSUME NEW X, NEW f \in Seq(X), NEW c \in Seq(X), Len(Medium) \in Nat,
           \A k \in 1 .. Len(c) : Len(f) + k <= Len(Medium) /\ c[k] = Medium[Len(f) + k]
    PROVE  /\ Wrong(f \o c) = Wrong(f)
           /\ \A i \in Wrong(f) : (f \o c)[i] = f[i]
<1> DEFINE g == f \o c
<1>1. /\ Len(g) = Len(f) + Len(c) /\ Len(f) \in Nat /\ Len(c) \in Nat
      /\ \A i \in 1 .. Len(f) + Len(c) : g[i] = IF i <= Len(f) THEN f[i] ELSE c[i - Len(f)]
  BY ConcatProperties, LenProperties
<1> HIDE DEF g
<1>2. \A i \in 1 .. Len(f) : i \in 1 .. Len(g) /\ g[i] = f[i]
  BY <1>1
<1>3. ASSUME NEW i \in 1 .. Len(g), ~(i <= Len(f))
      PROVE  i <= Len(Medium) /\ g[i] = Medium[i]
  <2>1. PICK k \in 1 .. Len(c) : i = Len(f) + k
    <3>1. i - Len(f) \in 1 .. Len(c) /\ i = Len(f) + (i - Len(f))
      BY <1>1, <1>3
    <3> QED
      BY <3>1
  <2>2. i - Len(f) = k
    BY <1>1, <2>1
  <2>3. g[i] = c[k]
    BY <1>1, <1>3, <2>2
  <2> QED
    BY <2>1, <2>3
<1>4. ASSUME NEW i
      PROVE  i \in Wrong(g) <=> i \in Wrong(f)
  <2>1. CASE i \in Wrong(g)
    <3>1. i \in 1 .. Len(g) /\ (i > Len(Medium) \/ g[i] # Medium[i])
      BY <2>1 DEF Wrong
    <3>2. i <= Len(f)
      BY <1>3, <3>1
    <3>3. i \in 1 .. Len(f) /\ g[i] = f[i]
      BY <1>1, <1>2, <3>1, <3>2
    <3> QED
      BY <2>1, <3>1, <3>3 DEF Wrong
  <2>2. CASE i \in Wrong(f)
    BY <1>2, <2>2 DEF Wrong
  <2> QED
    BY <2>1, <2>2
<1>5. Wrong(g) = Wrong(f)
  BY <1>4
<1>6. \A i \in Wrong(f) : g[i] = f[i]
  BY <1>2 DEF Wrong
<1> QED
  BY <1>5, <1>6 DEF g

(* A substitute is one more wrong sector.                                   *)
LEMMA ZerosAdded ==
    ASSUME TypeOK, NEW X, NEW f \in Seq(X), Zeros \in X
    PROVE  LET g == f \o <<Zeros>>
           IN  /\ Len(f) + 1 \notin Wrong(f)
               /\ Wrong(g) = Wrong(f) \union {Len(f) + 1}
               /\ \A i \in Wrong(f) : g[i] = f[i]
               /\ g[Len(f) + 1] = Zeros
<1> DEFINE g == f \o <<Zeros>>
           j == Len(f) + 1
<1>1. /\ Len(g) = Len(f) + 1 /\ Len(f) \in Nat /\ j \in Nat
      /\ \A i \in 1 .. Len(f) : g[i] = f[i]
      /\ g[j] = Zeros
  BY AppendProperties, AppendIsConcat, LenProperties
<1>2. Len(Medium) \in Nat /\ \A p \in 1 .. Len(Medium) : Medium[p] # Zeros
  BY MediumIs
<1> HIDE DEF g
<1>3. j \notin Wrong(f)
  BY <1>1 DEF Wrong
<1>4. j \in Wrong(g)
  BY <1>1, <1>2 DEF Wrong
<1>5. ASSUME NEW i, i # j
      PROVE  i \in Wrong(g) <=> i \in Wrong(f)
  <2>1. i \in 1 .. Len(g) <=> i \in 1 .. Len(f)
    BY <1>1, <1>5
  <2> QED
    BY <1>1, <2>1 DEF Wrong
<1>6. Wrong(g) = Wrong(f) \union {j}
  BY <1>4, <1>5
<1>7. \A i \in Wrong(f) : g[i] = f[i]
  BY <1>1 DEF Wrong
<1> QED
  BY <1>1, <1>3, <1>6, <1>7 DEF g

LEMMA WrongFinite ==
    ASSUME NEW X, NEW f \in Seq(X)
    PROVE  IsFiniteSet(Wrong(f)) /\ Cardinality(Wrong(f)) \in Nat
<1>1. Len(f) \in Nat
  BY LenProperties
<1>2. IsFiniteSet(1 .. Len(f))
  <2>1. 1 \in Int /\ Len(f) \in Int
    BY <1>1
  <2> QED
    BY <2>1, FS_Interval
<1>3. Wrong(f) \in SUBSET (1 .. Len(f))
  BY DEF Wrong
<1>4. IsFiniteSet(Wrong(f))
  BY <1>2, <1>3, FS_Subset
<1> QED
  BY <1>4, FS_CardinalityType

(* Readcd has FiniteSets of its own.                                        *)
LEMMA SameCardinality ==
    ASSUME NEW S
    PROVE  Reader!Cardinality(S) = Cardinality(S)
BY DEF Reader!Cardinality, Cardinality

(* One step of readcd keeps its types and ReadInv.                          *)
LEMMA ReadStep ==
    ASSUME TypeOK, Reader!ReadTypeOK, ReadInv, outcome = "ok", Reader!Copy, UNCHANGED vars
    PROVE  Reader!ReadTypeOK' /\ ReadInv'
<1> DEFINE X == Reader!Range(Medium) \union {Zeros}
<1>1. /\ Medium' = Medium /\ Len(Medium) \in Nat /\ outcome' = outcome
      /\ \A p \in 1 .. Len(Medium) : Medium[p] # Zeros
      /\ \A p \in 1 .. Len(Medium) : Medium[p] \in X
      /\ Zeros \in X /\ Zeros = <<"zero", 0, 0>>
  <2>1. Medium' = Medium /\ outcome' = outcome
    BY DEF vars, main, drive, Medium, Base, Teac
  <2>2. /\ Medium \in Seq(Sector) /\ Len(Medium) \in Nat
        /\ \A p \in 1 .. Len(Medium) : Medium[p] # Zeros
    BY MediumIs
  <2>3. DOMAIN Medium = 1 .. Len(Medium)
    BY <2>2, LenProperties
  <2>4. \A p \in 1 .. Len(Medium) : Medium[p] \in Reader!Range(Medium)
    BY <2>3 DEF Reader!Range
  <2> QED
    BY <2>1, <2>2, <2>4 DEF Zeros, Reader!Zeros
<1>2. /\ hard \subseteq Nat /\ weak \subseteq Nat /\ opt \in Options
      /\ rpc \in {"idle", "chunk", "retry", "save", "done"}
      /\ addr \in Nat /\ cnt \in Nat /\ end \in Nat /\ try \in Nat /\ errors \in Nat
      /\ sbuf \in Seq(X) /\ saved \in Seq(X) /\ didintr \in BOOLEAN
      /\ reason \in {"running", "finished", "readerr", "writeerr", "intr"}
  BY DEF Reader!ReadTypeOK, Zeros
<1>3. \A o \in Options : o.noerror \in BOOLEAN /\ o.retries \in Nat /\ o.chunk \in Nat \ {0}
  BY OptionsAssumption
<1> HIDE DEF X
<1>4. /\ File \in Seq(X) /\ Len(saved) \in Nat /\ Len(sbuf) \in Nat
      /\ Len(File) = Len(saved) + Len(sbuf) /\ addr = Len(saved)
      /\ saved \o <<>> = saved /\ <<>> \in Seq(X) /\ Len(<<>>) = 0
  BY <1>2, ConcatProperties, ConcatEmptySeq, EmptySeq, LenProperties DEF File, ReadInv
\* What there is to show of the next state
<1>5. ASSUME opt' \in Options, hard' \subseteq Nat, weak' \subseteq Nat,
             rpc' \in {"chunk", "retry", "save", "done"},
             addr' \in Nat, cnt' \in Nat, end' \in Nat, try' \in Nat, errors' \in Nat,
             sbuf' \in Seq(X), saved' \in Seq(X), didintr' \in BOOLEAN,
             reason' \in {"running", "finished", "readerr", "writeerr", "intr"},
             addr' = Len(saved'), rpc' # "done" <=> reason' = "running",
             end' = IF Len(Medium) = 0 THEN NoCapacity ELSE Len(Medium),
             Reading', ReadInPlace'
      PROVE  Reader!ReadTypeOK' /\ ReadInv'
  <2>1. Reader!ReadTypeOK'
    <3>1. X' = X
      BY <1>1 DEF X, Zeros, Reader!Range, Reader!Zeros
    <3>2. sbuf' \in Seq(Reader!Range(Medium') \union {Reader!Zeros})
          /\ saved' \in Seq(Reader!Range(Medium') \union {Reader!Zeros})
      BY <1>1, <1>5 DEF X, Zeros
    <3> QED
      BY <1>5, <3>2 DEF Reader!ReadTypeOK
  <2>2. ReadInv'
    BY <1>1, <1>5 DEF ReadInv
  <2> QED
    BY <2>1, <2>2
<1>6. /\ \A i \in Wrong(File) : File[i] = Zeros /\ Reader!MayFail(i - 1)
      /\ opt.noerror /\ opt.retries > 0 => errors = Cardinality(Wrong(File))
      /\ ~opt.noerror => errors <= 1 /\ (errors = 1 <=> reason = "readerr")
  <2>1. opt.noerror /\ opt.retries > 0 => errors = Reader!Cardinality(Wrong(File))
    BY DEF ReadInv, ReadInPlace, Reader!InPlace, File, Wrong
  <2> QED
    BY <2>1, SameCardinality DEF ReadInv, ReadInPlace, Reader!InPlace, File, Wrong, Zeros
<1>7. ASSUME \A i \in Wrong(File') : File'[i] = Zeros /\ Reader!MayFail(i - 1)',
             opt'.noerror /\ opt'.retries > 0 => errors' = Cardinality(Wrong(File')),
             ~opt'.noerror => errors' <= 1 /\ (errors' = 1 <=> reason' = "readerr")
      PROVE  ReadInPlace'
  <2>1. opt'.noerror /\ opt'.retries > 0 => errors' = Reader!Cardinality(Wrong(File'))
    BY <1>7, SameCardinality
  <2> QED
    BY <1>1, <1>7, <2>1 DEF ReadInPlace, Reader!InPlace, File, Wrong, Zeros
<1>8. hard' = hard /\ weak' = weak => \A a : Reader!MayFail(a)' = Reader!MayFail(a)
  BY <1>1 DEF Reader!MayFail, Reader!Exists
\* A step that leaves the copy as it is
<1>9. ASSUME hard' = hard, weak' = weak, opt' = opt, File' = File, errors' = errors,
             reason' = "readerr" <=> reason = "readerr"
      PROVE  ReadInPlace'
  BY <1>6, <1>7, <1>8, <1>9
<1>10. rpc # "done" => reason = "running"
  BY DEF ReadInv
<1>11. rpc # "idle" => end = IF Len(Medium) = 0 THEN NoCapacity ELSE Len(Medium)
  BY DEF ReadInv
<1>12. CASE Reader!Start
  <2>1. /\ rpc = "idle" /\ rpc' = "chunk" /\ opt' \in Options /\ cnt' = opt'.chunk
        /\ hard' \subseteq Worn /\ weak' \subseteq Worn
        /\ end' = IF Len(Medium) = 0 THEN NoCapacity ELSE Len(Medium)
        /\ addr' = addr /\ sbuf' = sbuf /\ try' = try /\ errors' = errors /\ saved' = saved
        /\ didintr' = didintr /\ reason' = reason
    BY <1>12 DEF Reader!Start
  <2>2. sbuf = <<>> /\ saved = <<>> /\ errors = 0 /\ reason = "running"
    BY <1>10, <2>1 DEF ReadInv
  <2>3. opt'.chunk \in Nat \ {0} /\ Worn \subseteq Nat /\ NoCapacity \in Nat
    BY <1>3, <2>1, OptionsAssumption
  <2>4. Reading'
    BY <2>1, <2>2, <2>3 DEF Reading
  <2>5. ReadInPlace'
    <3>1. File' = <<>>
      BY <1>4, <2>1, <2>2 DEF File
    <3>2. Wrong(File') = {}
      BY <1>4, <3>1 DEF Wrong
    <3> QED
      BY <1>7, <2>1, <2>2, <3>2, FS_EmptySet
  <2>6. hard' \subseteq Nat /\ weak' \subseteq Nat /\ cnt' \in Nat /\ end' \in Nat
    BY <1>1, <2>1, <2>3
  <2> QED
    BY <1>2, <1>4, <1>5, <2>1, <2>2, <2>4, <2>5, <2>6
<1>13. ASSUME Reader!ReadChunk
       PROVE  Reader!ReadTypeOK' /\ ReadInv'
  <2> DEFINE n == Reader!Size
  <2>1. /\ rpc = "chunk" /\ addr < end /\ cnt' = n /\ try' = 0
        /\ \/ /\ \A k \in 0 .. n - 1 : Reader!MayRead(addr + k)
              /\ sbuf' = SubSeq(Medium, addr + 1, addr + n)
              /\ rpc' = "save"
           \/ sbuf' = <<>> /\ rpc' = "retry"
        /\ hard' = hard /\ weak' = weak /\ opt' = opt /\ addr' = addr /\ end' = end
        /\ errors' = errors /\ saved' = saved /\ didintr' = didintr /\ reason' = reason
    BY <1>13 DEF Reader!ReadChunk
  <2>2. sbuf = <<>> /\ cnt \in 1 .. opt.chunk /\ reason = "running"
        /\ end = IF Len(Medium) = 0 THEN NoCapacity ELSE Len(Medium)
    BY <1>10, <1>11, <2>1 DEF ReadInv, Reading
  <2>3. n \in 1 .. opt.chunk /\ addr + n <= end
    BY <1>2, <1>3, <2>1, <2>2 DEF Reader!Size
  <2> HIDE DEF n
  <2>4. n \in Nat /\ n >= 1
    BY <1>2, <1>3, <2>3
  <2>5. File = saved
    BY <1>4, <2>2 DEF File
  <2>6. CASE sbuf' = <<>> /\ rpc' = "retry"
    <3>1. File' = File
      BY <1>4, <2>1, <2>5, <2>6 DEF File
    <3>2. ReadInPlace'
      BY <1>9, <2>1, <3>1
    <3>3. Len(sbuf') = 0
      BY <1>4, <2>6
    <3>4. Reading'
      BY <1>2, <1>3, <2>1, <2>2, <2>3, <2>4, <2>6, <3>3 DEF Reading
    <3> QED
      BY <1>2, <1>4, <1>5, <2>1, <2>2, <2>4, <2>6, <3>2, <3>4
  <2>7. CASE /\ \A k \in 0 .. n - 1 : Reader!MayRead(addr + k)
             /\ sbuf' = SubSeq(Medium, addr + 1, addr + n)
             /\ rpc' = "save"
    <3>1. \A k \in 0 .. n - 1 : addr + k < Len(Medium)
      BY <2>7 DEF Reader!MayRead, Reader!Exists
    <3>2. addr + n <= Len(Medium)
      <4>1. n - 1 \in 0 .. n - 1 /\ addr + (n - 1) = addr + n - 1
        BY <1>2, <2>4
      <4>2. addr + (n - 1) < Len(Medium)
        BY <3>1, <4>1
      <4> QED
        BY <1>1, <1>2, <2>4, <4>2
    <3>3. \A i \in addr + 1 .. addr + n : Medium[i] \in X
      <4>1. \A i \in addr + 1 .. addr + n : i \in 1 .. Len(Medium)
        BY <1>1, <1>2, <2>4, <3>2
      <4> QED
        BY <1>1, <4>1
    <3>4. PICK a \in Int : a = addr + 1
      BY <1>2
    <3>5. PICK b \in Int : b = addr + n
      BY <1>2, <2>4
    <3>6. /\ sbuf' \in Seq(X)
          /\ Len(sbuf') = IF a <= b THEN b - a + 1 ELSE 0
          /\ \A k \in 1 .. b - a + 1 : sbuf'[k] = Medium[a + k - 1]
      <4>1. \A i \in a .. b : Medium[i] \in X
        BY <3>3, <3>4, <3>5
      <4>2. sbuf' = SubSeq(Medium, a, b)
        BY <2>7, <3>4, <3>5
      <4> QED
        BY <4>1, <4>2, SubSeqProperties
    <3>7. Len(sbuf') = n /\ \A k \in 1 .. n : sbuf'[k] = Medium[addr + k]
      <4>1. b - a + 1 = n /\ a <= b
        BY <1>2, <2>4, <3>4, <3>5
      <4>2. \A k \in 1 .. n : a + k - 1 = addr + k
        BY <1>2, <2>4, <3>4
      <4> QED
        BY <3>6, <4>1, <4>2
    <3>8. \A k \in 1 .. Len(sbuf') : Len(saved) + k <= Len(Medium) /\ sbuf'[k] = Medium[Len(saved) + k]
      <4>1. \A k \in 1 .. n : addr + k <= Len(Medium)
        BY <1>1, <1>2, <2>4, <3>2
      <4> QED
        BY <1>4, <3>7, <4>1
    <3>9. /\ Wrong(saved \o sbuf') = Wrong(saved)
          /\ \A i \in Wrong(saved) : (saved \o sbuf')[i] = saved[i]
      BY <1>1, <1>2, <3>6, <3>8, RightAdded
    <3>10. File' = saved \o sbuf'
      BY <2>1 DEF File
    <3>11. ReadInPlace'
      BY <1>6, <1>7, <1>8, <2>1, <2>5, <3>9, <3>10
    <3>12. Reading'
      BY <1>2, <1>3, <2>1, <2>2, <2>3, <2>4, <2>7, <3>7 DEF Reading
    <3> QED
      BY <1>2, <1>4, <1>5, <2>1, <2>2, <2>4, <2>7, <3>6, <3>11, <3>12
  <2> QED
    BY <2>1, <2>6, <2>7
<1>14. ASSUME Reader!AllRead \/ Reader!SaveFails \/ Reader!Interrupted
       PROVE  Reader!ReadTypeOK' /\ ReadInv'
  <2>1. /\ rpc \in {"chunk", "save", "retry"} /\ rpc' = "done"
        /\ reason' \in {"finished", "writeerr", "intr"}
        /\ reason' = "finished" => addr >= end
        /\ hard' = hard /\ weak' = weak /\ opt' = opt /\ addr' = addr /\ cnt' = cnt /\ end' = end
        /\ sbuf' = sbuf /\ try' = try /\ errors' = errors /\ saved' = saved /\ didintr' = didintr
    BY <1>14 DEF Reader!AllRead, Reader!SaveFails, Reader!Interrupted, Reader!Leave
  <2>2. reason = "running" /\ end = IF Len(Medium) = 0 THEN NoCapacity ELSE Len(Medium)
    BY <1>10, <1>11, <2>1
  <2>3. File' = File
    BY <2>1 DEF File
  <2>4. ReadInPlace'
    BY <1>9, <2>1, <2>2, <2>3
  <2>5. Reading'
    BY <2>1 DEF Reading
  <2> QED
    BY <1>2, <1>4, <1>5, <2>1, <2>2, <2>4, <2>5
<1>15. ASSUME Reader!Save
       PROVE  Reader!ReadTypeOK' /\ ReadInv'
  <2>1. /\ rpc = "save" /\ rpc' = "chunk" /\ saved' = saved \o sbuf /\ addr' = addr + cnt
        /\ sbuf' = <<>>
        /\ hard' = hard /\ weak' = weak /\ opt' = opt /\ cnt' = cnt /\ end' = end
        /\ try' = try /\ errors' = errors /\ didintr' = didintr /\ reason' = reason
    BY <1>15 DEF Reader!Save
  <2>2. /\ Len(sbuf) = cnt /\ cnt \in 1 .. opt.chunk /\ reason = "running"
        /\ end = IF Len(Medium) = 0 THEN NoCapacity ELSE Len(Medium)
    BY <1>10, <1>11, <2>1 DEF ReadInv, Reading
  <2>3. saved' = File /\ saved' \in Seq(X) /\ addr' = Len(saved') /\ addr' \in Nat
    BY <1>2, <1>4, <2>1, <2>2 DEF File
  <2>4. File' = File
    <3>1. File' = saved' \o <<>>
      BY <2>1 DEF File
    <3> QED
      BY <2>3, <3>1, ConcatEmptySeq
  <2>5. ReadInPlace'
    BY <1>9, <2>1, <2>4
  <2>6. Reading'
    BY <2>1, <2>2 DEF Reading
  <2> QED
    BY <1>2, <1>4, <1>5, <2>1, <2>2, <2>3, <2>5, <2>6
\* One sector more: its place in the copy is that of the attempt
<1>16. ASSUME rpc = "retry", NEW x \in X, sbuf' = Append(sbuf, x), saved' = saved
       PROVE  /\ File' = File \o <<x>> /\ sbuf' \in Seq(X) /\ Len(sbuf') = Len(sbuf) + 1
              /\ Len(File) = addr + Len(sbuf) /\ <<x>> \in Seq(X) /\ Len(<<x>>) = 1
              /\ cnt \in 1 .. opt.chunk /\ addr + cnt <= end /\ Len(sbuf) < cnt
              /\ opt.retries > 0 => try < opt.retries
              /\ errors = 0 \/ opt.noerror
              /\ reason = "running"
              /\ end = IF Len(Medium) = 0 THEN NoCapacity ELSE Len(Medium)
  <2>1. sbuf' \in Seq(X) /\ Len(sbuf') = Len(sbuf) + 1 /\ sbuf' = sbuf \o <<x>>
    BY <1>2, <1>16, AppendProperties, AppendIsConcat
  <2>2. <<x>> \in Seq(X) /\ Len(<<x>>) = 1
    OBVIOUS
  <2>3. saved \o (sbuf \o <<x>>) = (saved \o sbuf) \o <<x>>
    BY <1>2, <2>2, ConcatAssociative
  <2>4. File' = File \o <<x>>
    BY <1>16, <2>1, <2>3 DEF File
  <2>5. /\ cnt \in 1 .. opt.chunk /\ addr + cnt <= end /\ Len(sbuf) < cnt
        /\ opt.retries > 0 => try < opt.retries
    BY <1>16 DEF ReadInv, Reading
  <2>6. reason = "running" /\ end = IF Len(Medium) = 0 THEN NoCapacity ELSE Len(Medium)
    BY <1>10, <1>11, <1>16
  <2>7. errors = 0 \/ opt.noerror
    BY <1>2, <1>6, <2>6
  <2> QED
    BY <1>4, <2>1, <2>2, <2>4, <2>5, <2>6, <2>7
<1>17. ASSUME NEW x \in X, NEW failed \in BOOLEAN, rpc = "retry", Reader!Settle(x, failed),
              hard' = hard, weak' = weak, opt' = opt, addr' = addr, cnt' = cnt, end' = end,
              saved' = saved, didintr' = didintr,
              failed /\ opt.retries > 0 => Reader!MayFail(addr + Len(sbuf)),
              ReadInPlace'
       PROVE  Reader!ReadTypeOK' /\ ReadInv'
  <2>1. /\ sbuf' = Append(sbuf, x) /\ try' = 0
        /\ errors' = IF failed THEN errors + 1 ELSE errors
        /\ IF failed /\ ~opt.noerror
           THEN rpc' = "done" /\ reason' = "readerr"
           ELSE rpc' = (IF Len(sbuf') = cnt THEN "save" ELSE "retry") /\ reason' = reason
    BY <1>17 DEF Reader!Settle, Reader!Leave
  <2>2. /\ sbuf' \in Seq(X) /\ Len(sbuf') = Len(sbuf) + 1
        /\ cnt \in 1 .. opt.chunk /\ addr + cnt <= end /\ Len(sbuf) < cnt
        /\ opt.retries > 0 => try < opt.retries
        /\ reason = "running"
        /\ end = IF Len(Medium) = 0 THEN NoCapacity ELSE Len(Medium)
    BY <1>16, <1>17, <2>1
  <2>3. errors' \in Nat /\ try' \in Nat
    BY <1>2, <2>1
  <2>4. Len(sbuf') \in 1 .. cnt /\ addr + Len(sbuf') - 1 = addr + Len(sbuf)
    BY <1>2, <1>3, <1>4, <2>2
  <2>5. opt.retries \in Nat /\ opt.noerror \in BOOLEAN
    BY <1>2, <1>3
  <2>6. ASSUME failed, ~opt.noerror
        PROVE  Reading'
    <3>1. rpc' = "done" /\ reason' = "readerr"
      BY <2>1, <2>6
    <3>2. opt.retries > 0 => Reader!MayFail(addr + Len(sbuf) - 1)'
      <4>1. addr + Len(sbuf) = addr' + Len(sbuf') - 1
        BY <1>17, <2>4
      <4> QED
        BY <1>8, <1>17, <2>4, <2>6
    <3> QED
      BY <1>17, <2>2, <2>4, <2>6, <3>1, <3>2 DEF Reading
  <2>7. ASSUME ~(failed /\ ~opt.noerror)
        PROVE  Reading'
    <3>1. rpc' = (IF Len(sbuf') = cnt THEN "save" ELSE "retry") /\ reason' = "running"
      BY <2>1, <2>2, <2>7
    <3>2. Len(sbuf') # cnt => Len(sbuf') < cnt
      BY <1>2, <2>4
    <3> QED
      BY <1>17, <2>1, <2>2, <2>5, <3>1, <3>2 DEF Reading
  <2>8. rpc' \in {"save", "retry", "done"} /\ (rpc' # "done" <=> reason' = "running")
        /\ reason' \in {"running", "readerr"}
    BY <2>1, <2>2
  <2> QED
    BY <1>2, <1>4, <1>5, <1>17, <2>2, <2>3, <2>6, <2>7, <2>8
<1>18. ASSUME Reader!Retry
       PROVE  Reader!ReadTypeOK' /\ ReadInv'
  <2> DEFINE a == addr + Len(sbuf)
             x == Medium[a + 1]
             failed == try >= opt.retries
  <2>1. /\ rpc = "retry" /\ Reader!MayRead(a) /\ Reader!Settle(x, failed)
        /\ hard' = hard /\ weak' = weak /\ opt' = opt /\ addr' = addr /\ cnt' = cnt /\ end' = end
        /\ saved' = saved /\ didintr' = didintr
    BY <1>18 DEF Reader!Retry, Reader!Sector
  <2>2. a < Len(Medium)
    BY <2>1 DEF Reader!MayRead, Reader!Exists
  <2>3. a + 1 \in 1 .. Len(Medium) /\ x \in X
    <3>1. a + 1 \in 1 .. Len(Medium)
      BY <1>1, <1>2, <1>4, <2>2
    <3> QED
      BY <1>1, <3>1
  <2>4. failed \in BOOLEAN
    OBVIOUS
  <2>5. /\ sbuf' = Append(sbuf, x)
        /\ errors' = IF failed THEN errors + 1 ELSE errors
        /\ IF failed /\ ~opt.noerror THEN reason' = "readerr" ELSE reason' = reason
    BY <2>1 DEF Reader!Settle, Reader!Leave
  <2>6. /\ File' = File \o <<x>> /\ Len(File) = a /\ <<x>> \in Seq(X) /\ Len(<<x>>) = 1
        /\ opt.retries > 0 => ~failed
        /\ errors = 0 \/ opt.noerror
        /\ reason = "running"
    <3>1. /\ File' = File \o <<x>> /\ Len(File) = a /\ <<x>> \in Seq(X) /\ Len(<<x>>) = 1
          /\ opt.retries > 0 => try < opt.retries
          /\ errors = 0 \/ opt.noerror
          /\ reason = "running"
      BY <1>16, <2>1, <2>3, <2>5
    <3> QED
      BY <1>2, <1>3, <3>1
  <2>7. /\ Wrong(File \o <<x>>) = Wrong(File)
        /\ \A i \in Wrong(File) : (File \o <<x>>)[i] = File[i]
    <3>1. PICK c \in Seq(X) : c = <<x>> /\ Len(c) = 1 /\ c[1] = x
      BY <2>6
    <3>2. Len(File) + 1 <= Len(Medium) /\ x = Medium[Len(File) + 1]
      BY <1>1, <1>2, <1>4, <2>2, <2>6
    <3> HIDE DEF x
    <3>3. \A k \in 1 .. Len(c) : Len(File) + k <= Len(Medium) /\ c[k] = Medium[Len(File) + k]
      <4>1. \A k \in 1 .. Len(c) : k = 1
        BY <3>1
      <4> QED
        BY <3>1, <3>2, <4>1
    <3>4. /\ Wrong(File \o c) = Wrong(File)
          /\ \A i \in Wrong(File) : (File \o c)[i] = File[i]
      BY <1>1, <1>4, <3>3, RightAdded
    <3> QED
      BY <3>1, <3>4
  <2> HIDE DEF x, failed
  <2>8. ReadInPlace'
    <3>1. \A i \in Wrong(File') : File'[i] = Zeros /\ Reader!MayFail(i - 1)'
      BY <1>6, <1>8, <2>1, <2>6, <2>7
    <3>2. opt'.noerror /\ opt'.retries > 0 => errors' = Cardinality(Wrong(File'))
      BY <1>6, <2>1, <2>5, <2>6, <2>7
    <3>3. ~opt'.noerror => errors' <= 1 /\ (errors' = 1 <=> reason' = "readerr")
      BY <1>6, <2>1, <2>4, <2>5, <2>6
    <3> QED
      BY <1>7, <3>1, <3>2, <3>3
  <2>9. failed /\ opt.retries > 0 => Reader!MayFail(addr + Len(sbuf))
    BY <2>6
  <2> QED
    BY <1>17, <2>1, <2>3, <2>4, <2>8, <2>9
<1>19. ASSUME Reader!RetryFails
       PROVE  Reader!ReadTypeOK' /\ ReadInv'
  <2>1. PICK a \in Nat : a = addr + Len(sbuf)
    BY <1>2, <1>4
  <2>2. /\ rpc = "retry" /\ Reader!MayFail(a)
        /\ hard' = hard /\ weak' = weak /\ opt' = opt /\ addr' = addr /\ cnt' = cnt /\ end' = end
        /\ saved' = saved /\ didintr' = didintr
        /\ IF try + 1 < opt.retries
           THEN try' = try + 1 /\ rpc' = rpc /\ sbuf' = sbuf /\ errors' = errors /\ reason' = reason
           ELSE Reader!Settle(Zeros, TRUE)
    BY <1>19, <2>1 DEF Reader!RetryFails, Reader!Sector, Zeros
  <2>3. CASE try + 1 < opt.retries
    <3>1. try' = try + 1 /\ rpc' = rpc /\ sbuf' = sbuf /\ errors' = errors /\ reason' = reason
      BY <2>2, <2>3
    <3>2. ReadInPlace'
      BY <1>9, <2>2, <3>1 DEF File
    <3>3. reason = "running" /\ end = IF Len(Medium) = 0 THEN NoCapacity ELSE Len(Medium)
      BY <1>10, <1>11, <2>2
    <3>4. Reading'
      BY <2>2, <2>3, <3>1, <3>3 DEF ReadInv, Reading
    <3>5. try' \in Nat
      BY <1>2, <3>1
    <3> QED
      BY <1>2, <1>4, <1>5, <2>2, <3>1, <3>2, <3>3, <3>4, <3>5
  <2>4. CASE ~(try + 1 < opt.retries)
    <3>1. Reader!Settle(Zeros, TRUE)
      BY <2>2, <2>4
    <3>2. /\ sbuf' = Append(sbuf, Zeros) /\ errors' = errors + 1
          /\ IF ~opt.noerror THEN reason' = "readerr" ELSE reason' = reason
      BY <3>1 DEF Reader!Settle, Reader!Leave
    <3>3. /\ File' = File \o <<Zeros>> /\ Len(File) = a
          /\ errors = 0 \/ opt.noerror
          /\ reason = "running"
      BY <1>1, <1>16, <2>1, <2>2, <3>2
    <3>4. /\ a + 1 \notin Wrong(File)
          /\ Wrong(File \o <<Zeros>>) = Wrong(File) \union {a + 1}
          /\ \A i \in Wrong(File) : (File \o <<Zeros>>)[i] = File[i]
          /\ (File \o <<Zeros>>)[a + 1] = Zeros
      BY <1>1, <1>4, <3>3, ZerosAdded
    <3>5. a + 1 - 1 = a
      OBVIOUS
    <3>6. \A i \in Wrong(File') : File'[i] = Zeros /\ Reader!MayFail(i - 1)'
      <4>1. \A i \in Wrong(File) : File'[i] = Zeros /\ Reader!MayFail(i - 1)'
        BY <1>6, <1>8, <2>2, <3>3, <3>4
      <4>2. File'[a + 1] = Zeros /\ Reader!MayFail(a)'
        BY <1>8, <2>2, <3>3, <3>4
      <4>3. Reader!MayFail((a + 1) - 1)'
        BY <3>5, <4>2
      <4>4. \A i \in Wrong(File') : i \in Wrong(File) \/ i = a + 1
        BY <3>3, <3>4
      <4> QED
        BY <4>1, <4>2, <4>3, <4>4
    <3>7. Cardinality(Wrong(File')) = Cardinality(Wrong(File)) + 1
      <4>1. IsFiniteSet(Wrong(File))
        BY <1>4, WrongFinite
      <4> QED
        BY <3>3, <3>4, <4>1, FS_AddElement
    <3>8. ReadInPlace'
      <4>1. opt'.noerror /\ opt'.retries > 0 => errors' = Cardinality(Wrong(File'))
        BY <1>6, <2>2, <3>2, <3>7
      <4>2. ~opt'.noerror => errors' <= 1 /\ (errors' = 1 <=> reason' = "readerr")
        BY <1>2, <1>6, <2>2, <3>2, <3>3
      <4> QED
        BY <1>7, <3>6, <4>1, <4>2
    <3> QED
      BY <1>1, <1>17, <2>1, <2>2, <3>1, <3>8
  <2> QED
    BY <2>3, <2>4
<1> QED
  BY <1>12, <1>13, <1>14, <1>15, <1>18, <1>19 DEF Reader!Copy

(* A reader that was not called yet has nothing of a medium that changes.   *)
LEMMA ReadWaits ==
    ASSUME rpc = "idle", Reader!ReadTypeOK, ReadInv, UNCHANGED copy
    PROVE  Reader!ReadTypeOK' /\ ReadInv'
<1>1. /\ hard' = hard /\ weak' = weak /\ opt' = opt /\ rpc' = rpc /\ addr' = addr /\ cnt' = cnt
      /\ end' = end /\ sbuf' = sbuf /\ try' = try /\ errors' = errors /\ saved' = saved
      /\ didintr' = didintr /\ reason' = reason
  BY DEF copy
<1>2. sbuf = <<>> /\ saved = <<>> /\ errors = 0 /\ reason = "running" /\ addr = Len(saved)
  BY DEF ReadInv
<1>3. Reader!ReadTypeOK'
  <2>1. <<>> \in Seq(Reader!Range(Medium') \union {Reader!Zeros})
    BY EmptySeq
  <2> QED
    BY <1>1, <1>2, <2>1 DEF Reader!ReadTypeOK
<1>4. Reading'
  BY <1>1, <1>2 DEF Reading
<1>5. ReadInPlace'
  <2>1. File' = <<>>
    BY <1>1, <1>2, ConcatEmptySeq, EmptySeq DEF File
  <2>2. {i \in 1 .. Len(File') : i > Len(Medium') \/ File'[i] # Medium'[i]} = {}
    BY <2>1
  <2>3. Reader!Cardinality({}) = 0
    BY SameCardinality, FS_EmptySet
  <2> QED
    BY <1>1, <1>2, <2>2, <2>3 DEF ReadInPlace, Reader!InPlace, File
<1> QED
  BY <1>1, <1>2, <1>3, <1>4, <1>5 DEF ReadInv

(* Nor does a caught signal change what the reader has.                     *)
LEMMA ReadRests ==
    ASSUME Reader!ReadTypeOK, ReadInv, UNCHANGED vars, didintr' \in BOOLEAN,
           UNCHANGED <<hard, weak, opt, rpc, addr, cnt, end, sbuf, try, errors, saved, reason>>
    PROVE  Reader!ReadTypeOK' /\ ReadInv'
<1>1. /\ hard' = hard /\ weak' = weak /\ opt' = opt /\ rpc' = rpc /\ addr' = addr /\ cnt' = cnt
      /\ end' = end /\ sbuf' = sbuf /\ try' = try /\ errors' = errors /\ saved' = saved
      /\ reason' = reason /\ Medium' = Medium /\ outcome' = outcome
  BY DEF vars, main, drive, Medium, Base, Teac
<1>2. Reader!ReadTypeOK'
  BY <1>1 DEF Reader!ReadTypeOK
<1>3. \A a : Reader!MayFail(a)' = Reader!MayFail(a)
  BY <1>1 DEF Reader!MayFail, Reader!Exists
<1>4. Reading'
  BY <1>1, <1>3 DEF ReadInv, Reading
<1>5. ReadInPlace'
  BY <1>1, <1>3 DEF ReadInv, ReadInPlace, Reader!InPlace
<1> QED
  BY <1>1, <1>2, <1>4, <1>5 DEF ReadInv
-----------------------------------------------------------------------------
LEMMA BothStarts ==
    ASSUME BothInit
    PROVE  BothInv
<1>1. BurnInv
  BY BurnInit DEF BothInit
<1>2. /\ hard = {} /\ weak = {} /\ opt \in Options /\ rpc = "idle" /\ addr = 0 /\ cnt = 0
      /\ end = 0 /\ sbuf = <<>> /\ try = 0 /\ errors = 0 /\ saved = <<>> /\ didintr = FALSE
      /\ reason = "running"
  <2>1. \E o \in Options : TRUE
    BY OptionsAssumption
  <2>2. (CHOOSE o \in Options : TRUE) \in Options
    BY <2>1
  <2> QED
    BY <2>2 DEF BothInit, Reader!ReadInit
<1>3. Len(saved) = 0 /\ <<>> \in Seq(Reader!Range(Medium) \union {Reader!Zeros})
  BY <1>2, EmptySeq
<1>4. Reader!ReadTypeOK
  <2>1. didintr \in BOOLEAN /\ hard \union weak \subseteq Nat
    BY <1>2
  <2>2. {addr, cnt, end, try, errors} \subseteq Nat
    BY <1>2
  <2>3. /\ sbuf \in Seq(Reader!Range(Medium) \union {Reader!Zeros})
        /\ saved \in Seq(Reader!Range(Medium) \union {Reader!Zeros})
    BY <1>2, <1>3
  <2> QED
    BY <1>2, <2>1, <2>2, <2>3 DEF Reader!ReadTypeOK
<1>5. ReadInPlace
  <2>1. File = <<>>
    BY <1>2, ConcatEmptySeq, EmptySeq DEF File
  <2>2. {i \in 1 .. Len(File) : i > Len(Medium) \/ File[i] # Medium[i]} = {}
    BY <2>1
  <2>3. Reader!Cardinality({}) = 0
    BY SameCardinality, FS_EmptySet
  <2> QED
    BY <1>2, <2>2, <2>3 DEF ReadInPlace, Reader!InPlace, File
<1>6. ReadInv
  BY <1>2, <1>3, <1>5 DEF ReadInv, Reading
<1> QED
  BY <1>1, <1>4, <1>6 DEF BothInv

LEMMA BothStep ==
    ASSUME BothInv, [Next]_allvars
    PROVE  BothInv'
<1>1. BurnInv /\ TypeOK /\ LinkInv /\ Reader!ReadTypeOK /\ ReadInv
  BY DEF BothInv, BurnInv
<1>2. CASE BurnStep
  <2>1. Burn /\ UNCHANGED copy
    BY <1>2 DEF BurnStep
  <2>2. pc # "done"
    BY <2>1 DEF Burn, OpenTrack, OpenFails, PadBlock, PadRefused, BeginTrack, ReadBlock,
       InputEnds, InputFails, NextAddress, NoAddress, WriteBlock, WriteRefused, PacketTorn,
       PadTail, CloseTrack, CloseFails, AbandonTrack, Fixate
  <2>3. rpc = "idle"
    BY <1>1, <2>2 DEF LinkInv, ReadInv
  <2> QED
    BY <1>1, <2>1, <2>3, BurnStepKeeps, ReadWaits DEF BothInv
<1>3. CASE CopyStep
  BY <1>1, <1>3, BurnRests, ReadStep DEF CopyStep, BothInv
<1>4. CASE Signal
  <2>1. /\ UNCHANGED vars /\ didintr' \in BOOLEAN
        /\ UNCHANGED <<hard, weak, opt, rpc, addr, cnt, end, sbuf, try, errors, saved, reason>>
    BY <1>4 DEF Signal, Reader!Interrupt
  <2> QED
    BY <1>1, <2>1, BurnRests, ReadRests DEF BothInv
<1>5. CASE UNCHANGED allvars
  <2>1. /\ UNCHANGED vars /\ didintr' \in BOOLEAN
        /\ UNCHANGED <<hard, weak, opt, rpc, addr, cnt, end, sbuf, try, errors, saved, reason>>
    BY <1>1, <1>5 DEF allvars, copy, Reader!ReadTypeOK
  <2> QED
    BY <1>1, <2>1, BurnRests, ReadRests DEF BothInv
<1> QED
  BY <1>2, <1>3, <1>4, <1>5 DEF Next, Finished

(* Both programs stay within their types, cdrecord counts the input, the    *)
(* flag, the padding and the medium alike, and readcd keeps its place.      *)
THEOREM BothInvProved == Spec => []BothInv
  BY BothStarts, BothStep, PTL DEF Spec

(* In particular, no variable of either program leaves its type.            *)
THEOREM BothTypesProved == Spec => []BothTypeOK
<1>1. BothInv => BothTypeOK
  BY DEF BothInv, BurnInv, BothTypeOK
<1> QED
  BY <1>1, BothInvProved, PTL
-----------------------------------------------------------------------------
(* On an undamaged disc the reader fails at run-out and link blocks only,   *)
(* and behind the last block.                                               *)
LEMMA SurvivesBurn ==
    ASSUME BothInv
    PROVE  DataSurvives
<1> SUFFICES ASSUME outcome = "ok", reason \in {"finished", "readerr"},
                    hard \union weak = {},
                    opt.noerror \/ (opt.retries > 0 /\ (session.sao \/ PadFills))
             PROVE  /\ \A p \in 1 .. Len(Medium) :
                          Medium[p][1] = "data" => p <= Len(saved) /\ saved[p] = Medium[p]
                    /\ \A p \in 1 .. Len(saved) :
                          saved[p][1] = "data" => p <= Len(Medium) /\ saved[p] = Medium[p]
  BY DEF DataSurvives
<1>1. /\ TypeOK /\ LinkInv /\ TailInv /\ pc = "done" /\ errs = 0 /\ trk = Len(session.tracks)
      /\ Reading /\ ReadInPlace /\ rpc # "idle"
      /\ addr = Len(saved)
      /\ end = IF Len(Medium) = 0 THEN NoCapacity ELSE Len(Medium)
  <2>1. TypeOK /\ LinkInv /\ TailInv /\ ReadInv
    BY DEF BothInv, BurnInv
  <2>2. rpc # "idle"
    <3>1. rpc # "done" => reason = "running"
      BY <2>1 DEF ReadInv
    <3> QED
      BY <3>1
  <2> QED
    BY <2>1, <2>2 DEF LinkInv, ReadInv
<1>2. /\ Len(Medium) \in Nat /\ Base \in Int /\ Len(disc) \in Nat
      /\ \A p \in 1 .. Len(Medium) : p - Base \in 1 .. Len(disc) /\ Medium[p] = disc[p - Base]
  BY <1>1, MediumIs, LenProperties DEF TypeOK
<1> DEFINE X == Reader!Range(Medium) \union {Reader!Zeros}
<1>3. /\ sbuf \in Seq(X) /\ saved \in Seq(X) /\ addr \in Nat /\ cnt \in Nat /\ end \in Nat
      /\ opt.noerror \in BOOLEAN /\ opt.retries \in Nat /\ opt.chunk \in Nat
  BY OptionsAssumption DEF BothInv, Reader!ReadTypeOK
<1> HIDE DEF X
<1>4. /\ Len(saved) \in Nat /\ Len(sbuf) \in Nat /\ Len(File) = Len(saved) + Len(sbuf)
      /\ \A p \in 1 .. Len(saved) : p \in 1 .. Len(File) /\ File[p] = saved[p]
  BY <1>3, ConcatProperties, LenProperties DEF File
<1>5. \A i \in Wrong(File) : File[i] = Zeros /\ Reader!MayFail(i - 1)
  BY <1>1 DEF ReadInPlace, Reader!InPlace, File, Wrong, Zeros
<1>6. \A a : Reader!MayFail(a) => ~(a < Len(Medium)) \/ Medium[a + 1][1] = "gap"
  BY DEF Reader!MayFail, Reader!Exists
\* Sectors of data in the copy are no substitutes
<1>7. ASSUME NEW p \in 1 .. Len(saved), saved[p][1] = "data"
      PROVE  p <= Len(Medium) /\ saved[p] = Medium[p]
  <2>1. p \in 1 .. Len(File) /\ File[p] = saved[p] /\ p \in Int
    BY <1>4
  <2>2. saved[p] # Zeros
    BY <1>7 DEF Zeros, Reader!Zeros
  <2>3. ~(p > Len(Medium)) /\ File[p] = Medium[p]
    BY <1>5, <2>1, <2>2 DEF Wrong
  <2> QED
    BY <1>2, <2>1, <2>3
\* A sector of data that the copy reaches is not wrong in it
<1>8. ASSUME NEW p \in 1 .. Len(Medium), Medium[p][1] = "data", p <= Len(saved)
      PROVE  saved[p] = Medium[p]
  <2>1. p \in 1 .. Len(File) /\ File[p] = saved[p] /\ p \in Int /\ p <= Len(Medium)
    BY <1>2, <1>4, <1>8
  <2>2. ~Reader!MayFail(p - 1)
    <3>1. p - 1 < Len(Medium) /\ p - 1 + 1 = p
      BY <1>2, <2>1
    <3> QED
      BY <1>6, <1>8, <3>1
  <2> QED
    BY <1>5, <2>1, <2>2 DEF Wrong
<1>9. ASSUME NEW p \in 1 .. Len(Medium), Medium[p][1] = "data"
      PROVE  p <= Len(saved)
  <2>1. p \in Int /\ p <= Len(Medium) /\ Len(Medium) # 0 /\ end = Len(Medium)
    BY <1>1, <1>2
  <2>2. CASE reason = "finished"
    <3>1. addr >= end
      BY <1>1, <2>2 DEF Reading
    <3> QED
      BY <1>1, <1>2, <1>3, <2>1, <3>1
  <2>3. CASE reason = "readerr"
    <3> DEFINE a == addr + Len(sbuf) - 1
    <3>1. /\ ~opt.noerror /\ Len(sbuf) \in 1 .. cnt /\ cnt \in 1 .. opt.chunk /\ addr + cnt <= end
          /\ opt.retries > 0 => Reader!MayFail(a)
      BY <1>1, <2>3 DEF Reading
    <3>2. opt.retries > 0 /\ (session.sao \/ PadFills)
      BY <3>1
    <3>3. Reader!MayFail(a)
      BY <3>1, <3>2
    <3>4. a \in Nat /\ a + 1 \in 1 .. Len(Medium) /\ a < Len(Medium)
      BY <1>2, <1>3, <1>4, <2>1, <3>1
    <3>5. a + 1 <= addr + opt.chunk
      BY <1>3, <1>4, <3>1
    <3> HIDE DEF a
    <3>6. Medium[a + 1][1] = "gap"
      BY <1>6, <3>3, <3>4
    <3> DEFINE g == a + 1 - Base
               d == p - Base
    <3>7. /\ g \in 1 .. Len(disc) /\ disc[g][1] = "gap"
          /\ d \in 1 .. Len(disc) /\ disc[d][1] = "data"
      BY <1>2, <1>9, <3>4, <3>6
    <3>8. g > -Base
      BY <1>2, <3>4
    <3>9. PadFills
      BY <1>1, <3>2, <3>7 DEF TailInv
    <3>10. /\ Single /\ Sound /\ ~padlost /\ T.pad \in Nat /\ T.pad >= opt.chunk - 1
      <4>1. TrackOK(T)
        BY <1>1, TrackFacts
      <4> QED
        BY <1>1, <3>9, <4>1 DEF PadFills, LastTrack, Single, Sound, T, TrackOK
    <3> HIDE DEF g, d
    <3>11. d + T.pad < g
      BY <1>1, <3>7, <3>8, <3>10 DEF TailInv
    <3>12. d + T.pad < g /\ g = a + 1 - Base /\ d = p - Base
      BY <3>11 DEF g, d
    <3>13. p + T.pad < a + 1
      BY <1>2, <2>1, <3>4, <3>10, <3>12
    <3>14. p < addr + 1
      BY <1>3, <2>1, <3>4, <3>5, <3>10, <3>13
    <3> QED
      BY <1>1, <1>3, <2>1, <3>14
  <2> QED
    BY <2>2, <2>3
<1> QED
  BY <1>7, <1>8, <1>9

LEMMA FlagStep ==
    ASSUME BothInv, [Next]_allvars
    PROVE  [sealed /\ trk' = trk /\ disc' # disc =>
              pc \in {"open", "abandon", "close"} \/ (pc = "pad" /\ T.pkt # "none")]_vars
<1>1. TypeOK /\ Numbers
  BY DEF BothInv, BurnInv
<1>2. ASSUME Burn, sealed, disc' # disc
      PROVE  pc \in {"open", "abandon", "close"} \/ (pc = "pad" /\ T.pkt # "none")
  <2>1. \/ OpenTrack \/ PadBlock \/ WriteBlock \/ PacketTorn \/ CloseTrack \/ AbandonTrack
        \/ disc' = disc \o <<>>
    BY <1>1, <1>2, WhatIsAdded
  <2>2. disc \o <<>> = disc
    BY <1>1, ConcatEmptySeq DEF TypeOK
  <2>3. CASE OpenTrack \/ CloseTrack \/ AbandonTrack
    BY <2>3 DEF OpenTrack, CloseTrack, AbandonTrack
  <2>4. CASE PadBlock \/ WriteBlock \/ PacketTorn
    <3>1. pc \in {"pregap", "pad"} \/ AtBlock
      BY <2>4 DEF PadBlock, WriteBlock, PacketTorn, AtBlock
    <3> QED
      BY <1>1, <1>2, <3>1 DEF Numbers, Plain
  <2> QED
    BY <1>2, <2>1, <2>2, <2>3, <2>4
<1>3. Burn \/ UNCHANGED vars
  BY DEF Next, BurnStep, CopyStep, Signal, Finished, allvars
<1> QED
  BY <1>2, <1>3
-----------------------------------------------------------------------------
(* Once the drive has taken a block of a track with the last-block flag,    *)
(* cdrecord sends no further block of it, but for the padding of a packet   *)
(* track.                                                                   *)
THEOREM FlagEndsProved == Spec => FlagEnds
  BY BothStarts, BothStep, FlagStep, PTL DEF Spec, FlagEnds

(* A track outside packet mode that ends without a flagged block is one of  *)
(* the three kinds that write_track_data() cannot know to end.              *)
THEOREM MarksLastProved == Spec => []MarksLast
<1>1. BothInv => MarksLast
  BY MarksAreLast DEF BothInv
<1> QED
  BY <1>1, BothInvProved, PTL

(* No TEAC drive is left waiting for a block after a session without an     *)
(* error, unless a pad block was lost.                                      *)
THEOREM TrackClosedProved == Spec => []TrackClosed
<1>1. BothInv => TrackClosed
  BY DEF BothInv, BurnInv, LinkInv
<1> QED
  BY <1>1, BothInvProved, PTL

(* A session that main reports as burnt has all the input of each track on  *)
(* the medium, in order and, outside variable packets, once.                *)
THEOREM DataOnDiscProved == Spec => []DataOnDisc
<1>1. BothInv => DataOnDisc
  BY DataIsOnDisc DEF BothInv
<1> QED
  BY <1>1, BothInvProved, PTL

(* Its tracks have the length that was announced, and the minimum length.   *)
THEOREM LengthKeptProved == Spec => []LengthKept
<1>1. BothInv => LengthKept
  BY LengthIsKept DEF BothInv
<1> QED
  BY <1>1, BothInvProved, PTL

(* readcd's copy has every sector in its place, or under -noerror a         *)
(* substitute for one that the drive would not deliver.                     *)
THEOREM ReadInPlaceProved == Spec => []ReadInPlace
<1>1. BothInv => ReadInPlace
  BY DEF BothInv, ReadInv
<1> QED
  BY <1>1, BothInvProved, PTL

(* What cdrecord burnt without an error readcd brings back, under the       *)
(* options that keep the run-out blocks away from the data.                 *)
THEOREM DataSurvivesProved == Spec => []DataSurvives
<1>1. BothInv => DataSurvives
  BY SurvivesBurn
<1> QED
  BY <1>1, BothInvProved, PTL
=============================================================================
