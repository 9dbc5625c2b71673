---------------------------- MODULE RscsiProofs ----------------------------
(***************************************************************************)
(* For every length of commands, data, sense data and texts: client and    *)
(* server of remote SCSI never disagree about where a message ends, every  *)
(* variable keeps its type, and the two together are the remote call of    *)
(* RemoteCall.                                                             *)
(***************************************************************************)
EXTENDS Rscsi, SequenceTheorems, TLAPS

(* A reply that the client takes as the whole answer to a call, and reads   *)
(* without mistaking one item for another.                                 *)
ReplyTo(c, s) ==
    /\ s \in Seq(Items) /\ s # <<>>
    /\ Len(s) = Needed(c, s)
    /\ ~Misread(c, s)

\* The outcome that a reply tells the client
Told(s) == IF s[1].k = "A" THEN Good(s[1].v) ELSE Failed

(* Between a request and its reply nothing else is on the way, and the reply *)
(* tells what the server has answered.  A server that ended while the       *)
(* connection lasts can have left a refusal at most.                       *)
StepInv ==
    /\ call \in Calls \union {NoCall}
    /\ lostsync = FALSE
    /\ link = "none" =>
          call = NoCall /\ srv = "off" /\ toServer = <<>> /\ toClient = <<>>
    /\ link = "up" => srv # "off"
    /\ Lasts /\ call = NoCall => toServer = <<>> /\ toClient = <<>>
    /\ Lasts /\ call # NoCall =>
          \/ toServer = Request(call) /\ toClient = <<>>
          \/ toServer = <<>> /\ ReplyTo(call, toClient) /\ answer = Told(toClient)
    /\ link = "up" /\ srv # "alive" =>
          toClient = <<>> \/ \A c \in Calls : ReplyTo(c, toClient)
-----------------------------------------------------------------------------
(* What rscsicmd() and rscsiscmd() put together: a letter, as many lines as *)
(* it has, and, for a command, the units its lines announce; and that an    *)
(* error answers any request.                                               *)
LEMMA MessageShape ==
    ASSUME NEW c \in Calls
    PROVE  /\ c.op \in Ops /\ c.size \in Nat /\ c.recv \in BOOLEAN
           /\ Lines[c.op] \in Nat \ {0}
           /\ Request(c) \in Seq(Items)
           /\ Request(c)[1].k = c.op
           /\ \A i \in 1 .. Lines[c.op] : Request(c)[1 + i].k = "line"
           /\ \A i \in 1 .. Len(Request(c)) : Request(c)[i].v \in Nat
           /\ Request(c)[2].v = c.size
           /\ c.op = "S" => /\ Len(Request(c)) = 6 + CdbLen + (IF c.recv THEN 0 ELSE c.size)
                            /\ Request(c)[3].v = Flag(c.recv) /\ Request(c)[4].v = CdbLen
           /\ c.op # "S" => Len(Request(c)) = 1 + Lines[c.op]
           /\ \A n \in Nat : /\ Error(n) \in Seq(Items) /\ ReplyTo(c, Error(n))
                             /\ Told(Error(n)) = Failed
<1>1. c.op \in Ops /\ c.size \in Nat /\ c.recv \in BOOLEAN
  <2>1. CASE c \in [op : Ops \ {"S", "M"}, size : {0}, recv : {FALSE}]
    <3>1. c.op \in Ops \ {"S", "M"} /\ c.size = 0 /\ c.recv = FALSE
      BY <2>1
    <3>2. c.recv \in BOOLEAN
      BY <3>1, Zenon
    <3>3. c.op \in Ops /\ c.size \in Nat
      BY <3>1
    <3> QED
      BY <3>2, <3>3
  <2>2. CASE c \in [op : {"S"}, size : Sizes, recv : BOOLEAN]
    BY <2>2, LengthsAssumption DEF Ops, Lines
  <2>3. CASE c \in [op : {"M"}, size : 1 .. MaxDma, recv : {FALSE}]
    <3>1. c.op = "M" /\ c.size \in 1 .. MaxDma /\ c.recv = FALSE
      BY <2>3
    <3>2. "M" \in Ops
      BY DEF Ops, Lines
    <3>3. c.recv \in BOOLEAN
      BY <3>1, Zenon
    <3>4. c.op \in Ops /\ c.size \in Nat
      BY <3>1, <3>2, LengthsAssumption
    <3> QED
      BY <3>3, <3>4
  <2> QED
    BY <2>1, <2>2, <2>3 DEF Calls
<1>2. /\ \A op \in Ops : Lines[op] \in Nat \ {0}
      /\ Lines["S"] = 5
  BY DEF Lines, Ops
<1>3. /\ Args(c) \in Seq(Int) /\ Len(Args(c)) = Lines[c.op] /\ Args(c)[1] = c.size
      /\ \A i \in 1 .. Lines[c.op] : Args(c)[i] \in Nat
  <2>1. CASE c.op = "S"
    <3> DEFINE a == <<c.size, Flag(c.recv), CdbLen, 0, 0>>
    <3>1. Flag(c.recv) \in Nat /\ CdbLen \in Nat
      BY LengthsAssumption DEF Flag
    <3>2. /\ a \in Seq(Int) /\ Len(a) = 5 /\ a[1] = c.size
          /\ \A i \in 1 .. 5 : a[i] \in Nat
      <4> DEFINE f == Flag(c.recv)
      <4>1. f \in Nat
        BY <3>1
      <4> HIDE DEF f
      <4>2. LET b == <<c.size, f, CdbLen, 0, 0>>
            IN  b \in Seq(Int) /\ Len(b) = 5 /\ b[1] = c.size /\ \A i \in 1 .. 5 : b[i] \in Nat
        BY <1>1, <3>1, <4>1
      <4> QED
        BY <4>2 DEF f
    <3>3. Args(c) = a
      BY <2>1 DEF Args
    <3>4. Lines[c.op] = 5
      BY <1>2, <2>1
    <3> HIDE DEF a
    <3> QED
      BY <3>2, <3>3, <3>4
  <2>2. CASE c.op # "S"
    <3>1. Args(c) = [i \in 1 .. Lines[c.op] |-> c.size]
      BY <2>2 DEF Args
    <3> QED
      BY <1>1, <1>2, <3>1
  <2> QED
    BY <2>1, <2>2
<1> DEFINE T == Text(Args(c))
           D == IF c.op = "S" THEN Data(CdbLen + (IF c.recv THEN 0 ELSE c.size)) ELSE <<>>
           L == <<Item(c.op, 0)>>
<1>4. /\ T \in Seq(Items) /\ Len(T) = Lines[c.op]
      /\ \A i \in 1 .. Lines[c.op] : T[i].k = "line" /\ T[i].v = Args(c)[i]
  <2>1. \A seq \in Seq(Int) : /\ Text(seq) \in Seq(Items) /\ Len(Text(seq)) = Len(seq)
                             /\ \A i \in 1 .. Len(seq) : Text(seq)[i] = Item("line", seq[i])
    BY DEF Text, Items, Item
  <2>2. \A v : Item("line", v).k = "line" /\ Item("line", v).v = v
    BY DEF Item
  <2> QED
    BY <1>3, <2>1, <2>2
<1>5. /\ D \in Seq(Items) /\ \A i \in 1 .. Len(D) : D[i].v = 0
      /\ Len(D) = (IF c.op = "S" THEN CdbLen + (IF c.recv THEN 0 ELSE c.size) ELSE 0)
  <2>1. \A n \in Nat : /\ Data(n) \in Seq(Items) /\ Len(Data(n)) = n
                      /\ \A i \in 1 .. n : Data(n)[i].v = 0
    BY DEF Data, Items, Item
  <2>2. CdbLen + (IF c.recv THEN 0 ELSE c.size) \in Nat
    BY <1>1, LengthsAssumption
  <2>3. CASE c.op = "S"
    <3> DEFINE m == CdbLen + (IF c.recv THEN 0 ELSE c.size)
    <3>1. D = Data(m) /\ m \in Nat
      BY <2>2, <2>3
    <3> HIDE DEF D, m
    <3>2. D \in Seq(Items) /\ Len(D) = m /\ \A i \in 1 .. Len(D) : D[i].v = 0
      BY <2>1, <3>1
    <3> QED
      BY <2>3, <3>2 DEF m
  <2>4. CASE c.op # "S"
    BY <2>4
  <2> QED
    BY <2>3, <2>4
<1>6. L \in Seq(Items) /\ Len(L) = 1 /\ L[1].k = c.op /\ L[1].v = 0
  BY <1>1 DEF Items, Item
<1>7. Request(c) = (L \o T) \o D
  BY DEF Request
<1> HIDE DEF T, D, L
<1>8. /\ L \o T \in Seq(Items) /\ Len(L \o T) = 1 + Lines[c.op]
      /\ (L \o T)[1].k = c.op /\ (L \o T)[1].v = 0
      /\ \A i \in 1 .. Lines[c.op] : (L \o T)[1 + i] = T[i]
  <2> DEFINE n == Lines[c.op]
  <2>1. n \in Nat \ {0}
    BY <1>1, <1>2
  <2> HIDE DEF n
  <2>2. Len(T) = n
    BY <1>4 DEF n
  <2>3. /\ L \o T \in Seq(Items) /\ Len(L \o T) = Len(L) + Len(T)
        /\ \A i \in 1 .. Len(L) + Len(T) : (L \o T)[i] =
              IF i <= Len(L) THEN L[i] ELSE T[i - Len(L)]
    BY <1>4, <1>6, ConcatProperties
  <2>4. /\ Len(L \o T) = 1 + n /\ (L \o T)[1] = L[1]
        /\ \A i \in 1 .. n : (L \o T)[1 + i] = T[i]
    BY <1>6, <2>1, <2>2, <2>3
  <2> QED
    BY <1>6, <2>3, <2>4 DEF n
<1>9. /\ Request(c) \in Seq(Items) /\ Len(Request(c)) = 1 + Lines[c.op] + Len(D)
      /\ \A i \in 1 .. 1 + Lines[c.op] : Request(c)[i] = (L \o T)[i]
      /\ \A i \in 1 .. Len(Request(c)) : \/ i \in 1 .. 1 + Lines[c.op]
                                        \/ Request(c)[i].v = 0
  <2> DEFINE n == Lines[c.op]
             H == L \o T
  <2>1. n \in Nat \ {0} /\ H \in Seq(Items) /\ Len(H) = 1 + n
    BY <1>1, <1>2, <1>8
  <2> HIDE DEF n, H
  <2>2. Len(D) \in Nat
    BY <1>5, LenProperties
  <2>3. /\ H \o D \in Seq(Items) /\ Len(H \o D) = Len(H) + Len(D)
        /\ \A i \in 1 .. Len(H) + Len(D) : (H \o D)[i] =
              IF i <= Len(H) THEN H[i] ELSE D[i - Len(H)]
    BY <1>5, <2>1, ConcatProperties
  <2>4. /\ Len(H \o D) = 1 + n + Len(D)
        /\ \A i \in 1 .. 1 + n : (H \o D)[i] = H[i]
    BY <2>1, <2>2, <2>3
  <2>5. ASSUME NEW i \in 1 .. 1 + n + Len(D), i \notin 1 .. 1 + n
        PROVE  (H \o D)[i].v = 0
    <3>1. (H \o D)[i] = D[i - (1 + n)] /\ i - (1 + n) \in 1 .. Len(D)
      BY <2>1, <2>2, <2>3, <2>5
    <3> QED
      BY <1>5, <3>1
  <2> QED
    BY <1>7, <2>3, <2>4, <2>5 DEF n, H
<1>10. /\ Request(c)[1].k = c.op
       /\ \A i \in 1 .. Lines[c.op] : Request(c)[1 + i] = T[i]
  <2> DEFINE n == Lines[c.op]
  <2>1. n \in Nat \ {0}
    BY <1>1, <1>2
  <2>2. 1 \in 1 .. 1 + n /\ \A i \in 1 .. n : 1 + i \in 1 .. 1 + n
    BY <2>1
  <2> QED
    BY <1>8, <1>9, <2>2
<1>11. ASSUME c.op = "S"
       PROVE  Request(c)[3].v = Flag(c.recv) /\ Request(c)[4].v = CdbLen
  <2>1. Request(c)[2] = T[1] /\ Request(c)[3] = T[2] /\ Request(c)[4] = T[3]
    BY <1>2, <1>10, <1>11
  <2>2. T[1].v = Args(c)[1] /\ T[2].v = Args(c)[2] /\ T[3].v = Args(c)[3]
    BY <1>2, <1>4, <1>11
  <2> QED
    BY <1>11, <2>1, <2>2 DEF Args
<1>12. c.op = "S" => Len(Request(c)) = 6 + CdbLen + (IF c.recv THEN 0 ELSE c.size)
  <2>1. c.op = "S" => Len(D) = CdbLen + (IF c.recv THEN 0 ELSE c.size)
                        /\ Len(Request(c)) = 1 + 5 + Len(D)
    BY <1>2, <1>5, <1>9
  <2> DEFINE m == IF c.recv THEN 0 ELSE c.size
  <2>2. CdbLen \in Nat /\ m \in Nat
    BY <1>1, LengthsAssumption
  <2> HIDE DEF m
  <2>3. 1 + 5 + (CdbLen + m) = 6 + CdbLen + m
    BY <2>2
  <2> QED
    BY <2>1, <2>3 DEF m
<1>13. c.op # "S" => Len(Request(c)) = 1 + Lines[c.op]
  BY <1>1, <1>2, <1>5, <1>9
<1>14. ASSUME NEW n \in Nat
       PROVE  /\ Error(n) \in Seq(Items) /\ ReplyTo(c, Error(n))
              /\ Told(Error(n)) = Failed
  <2> DEFINE E == <<Item("E", 0), Item("line", 0), Item("line", n)>>
  <2>1. /\ E \in Seq(Items) /\ Len(E) = 3
        /\ E[1].k = "E" /\ E[2].k = "line" /\ E[3].k = "line" /\ E[3].v = n
    BY DEF Items, Item
  <2>2. Data(n) \in Seq(Items) /\ Len(Data(n)) = n
    BY DEF Data, Items, Item
  <2>3. Error(n) = E \o Data(n)
    BY DEF Error
  <2> HIDE DEF E
  <2>4. /\ Error(n) \in Seq(Items) /\ Len(Error(n)) = 3 + n
        /\ \A i \in 1 .. 3 : Error(n)[i] = E[i]
    <3>1. /\ E \o Data(n) \in Seq(Items) /\ Len(E \o Data(n)) = Len(E) + Len(Data(n))
          /\ \A i \in 1 .. Len(E) + Len(Data(n)) : (E \o Data(n))[i] =
                IF i <= Len(E) THEN E[i] ELSE Data(n)[i - Len(E)]
      BY <2>1, <2>2, ConcatProperties
    <3> QED
      BY <2>1, <2>2, <2>3, <3>1
  <2>5. Needed(c, Error(n)) = 3 + n /\ ~Misread(c, Error(n))
    BY <2>1, <2>4 DEF Needed, Has, Misread
  <2>6. Error(n) # <<>>
    BY <2>4, EmptySeq
  <2>7. Told(Error(n)) = Failed
    BY <2>1, <2>4 DEF Told
  <2> QED
    BY <2>4, <2>5, <2>6, <2>7 DEF ReplyTo
<1>15. Request(c)[2].v = c.size
  <2>1. 1 \in 1 .. Lines[c.op]
    BY <1>1, <1>2
  <2>2. Request(c)[1 + 1] = T[1] /\ T[1].v = Args(c)[1]
    BY <1>4, <1>10, <2>1
  <2> QED
    BY <1>3, <2>2
<1>16. ASSUME NEW i \in 1 .. Len(Request(c))
       PROVE  Request(c)[i].v \in Nat
  <2>1. CASE i = 1
    <3>1. \A n \in Nat : 1 \in 1 .. 1 + n
      OBVIOUS
    <3>2. 1 \in 1 .. 1 + Lines[c.op]
      BY <1>1, <1>2, <3>1
    <3>3. Request(c)[1] = (L \o T)[1]
      BY <1>9, <3>2
    <3>4. Request(c)[1].v = 0
      BY <1>8, <3>3
    <3> QED
      BY <2>1, <3>4
  <2>2. CASE i \in 1 .. 1 + Lines[c.op] /\ i # 1
    <3>1. i - 1 \in 1 .. Lines[c.op] /\ i = 1 + (i - 1)
      BY <1>1, <1>2, <2>2
    <3>2. Request(c)[1 + (i - 1)] = T[i - 1] /\ T[i - 1].v = Args(c)[i - 1]
      BY <1>4, <1>10, <3>1
    <3> QED
      BY <1>3, <3>1, <3>2
  <2>3. CASE i \notin 1 .. 1 + Lines[c.op]
    BY <1>9, <2>3
  <2> QED
    BY <2>1, <2>2, <2>3
<1> QED
  BY <1>1, <1>2, <1>4, <1>9, <1>10, <1>11, <1>12, <1>13, <1>14, <1>15, <1>16

(* The server's handlers, each of them: from a whole request to its reply.  *)
LEMMA ServerStep ==
    ASSUME StepInv, Server, link = "up"
    PROVE  /\ call' = call /\ call \in Calls /\ link' = link
           /\ lostsync' = FALSE /\ toServer' = <<>>
           /\ srv = "alive" /\ srv' \in {"alive", "exited", "crashed"}
           /\ srv' = "alive" => ReplyTo(call, toClient') /\ answer' = Told(toClient')
           /\ srv' # "alive" => toClient' = <<>> /\ answer' = answer
           /\ result' = result
<1>1. /\ call \in Calls /\ lostsync = FALSE /\ srv = "alive"
      /\ toServer = Request(call) /\ toClient = <<>>
  <2>1. srv = "alive" /\ toServer # <<>>
    BY DEF Server, ServerVersion, ServerOpen, ServerClose, ServerGetbuf, ServerFreebuf,
       ServerSend, ServerEnds, ServerSimple, Handling, Arrived
  <2> QED
    BY <2>1 DEF StepInv, Lasts
<1>2. /\ toServer \in Seq(Items) /\ toServer[1].k = call.op /\ call.op \in Ops
      /\ Len(toServer) = Consumed(call.op) /\ toServer # <<>>
      /\ \A i \in 1 .. Lines[call.op] : toServer[1 + i].k = "line"
      /\ call.op = "S" => (Value(2) = 1 <=> call.recv)
  <2>1. /\ toServer \in Seq(Items) /\ toServer[1].k = call.op /\ call.op \in Ops
        /\ Lines[call.op] \in Nat \ {0}
        /\ \A i \in 1 .. Lines[call.op] : toServer[1 + i].k = "line"
        /\ call.recv \in BOOLEAN /\ call.size \in Nat
    BY <1>1, MessageShape
  <2>2. CASE call.op = "S"
    <3>1. /\ Len(toServer) = 6 + CdbLen + (IF call.recv THEN 0 ELSE call.size)
          /\ Value(2) = Flag(call.recv) /\ Value(1) = call.size /\ Value(3) = CdbLen
      <4>1. /\ Len(Request(call)) = 6 + CdbLen + (IF call.recv THEN 0 ELSE call.size)
            /\ Request(call)[3].v = Flag(call.recv)
            /\ Request(call)[2].v = call.size /\ Request(call)[4].v = CdbLen
        BY <1>1, <2>2, MessageShape
      <4> QED
        BY <1>1, <4>1 DEF Value
    <3>2. Value(2) = 1 <=> call.recv
      BY <2>1, <3>1 DEF Flag
    <3>3. Has(toServer, 6)
      BY <2>1, <3>1, LengthsAssumption DEF Has
    <3>4. Lines["S"] = 5
      BY DEF Lines
    <3>5. Consumed("S") = 1 + 5 + (CdbLen + (IF call.recv THEN 0 ELSE call.size))
      BY <3>1, <3>2, <3>3, <3>4 DEF Consumed
    <3>6. Len(toServer) = Consumed(call.op)
      <4>1. CdbLen \in Nat /\ (IF call.recv THEN 0 ELSE call.size) \in Nat
        BY <2>1, LengthsAssumption
      <4> QED
        BY <2>2, <3>1, <3>5, <4>1
    <3>7. toServer # <<>>
      BY <2>1, <3>3, EmptySeq DEF Has
    <3> QED
      BY <2>1, <3>2, <3>6, <3>7
  <2>3. CASE call.op # "S"
    <3>1. Len(toServer) = 1 + Lines[call.op]
      BY <1>1, <2>3, MessageShape
    <3>2. Consumed(call.op) = 1 + Lines[call.op]
      BY <2>1, <2>3 DEF Consumed
    <3>3. toServer # <<>>
      BY <2>1, <3>1, EmptySeq
    <3> QED
      BY <2>1, <2>3, <3>1, <3>2, <3>3
  <2> QED
    BY <2>2, <2>3
<1>3. Arrived
  BY <1>2 DEF Arrived, Has
<1>4. ASSUME NEW op, Handling(op), Read(op)
      PROVE  op = call.op /\ toServer' = <<>> /\ lostsync' = FALSE
  <2>1. op = call.op
    BY <1>2, <1>4 DEF Handling
  <2>2. toServer' = SubSeq(toServer, Len(toServer) + 1, Len(toServer))
    BY <1>2, <1>4, <2>1 DEF Read
  <2>3. toServer' = <<>>
    BY <1>2, <2>2
  <2>4. lostsync' = FALSE
    BY <1>1, <1>2, <1>4, <2>1 DEF Read
  <2> QED
    BY <2>1, <2>3, <2>4
<1>5. ASSUME NEW n \in Int
      PROVE  <<Item("A", n)>> \in Seq(Items)
  BY DEF Items, Item, Ops, Lines
<1> DEFINE Heading(n, sense) == <<Item("A", n)>> \o Text(<<0, 0, 0, sense>>)
<1>6. ASSUME NEW n \in Int, NEW sense \in Int
       PROVE  /\ Heading(n, sense) \in Seq(Items) /\ Len(Heading(n, sense)) = 5
              /\ Heading(n, sense)[1].k = "A" /\ Heading(n, sense)[1].v = n
              /\ Heading(n, sense)[5].v = sense
              /\ \A i \in 2 .. 5 : Heading(n, sense)[i].k = "line"
  <2> DEFINE L == <<Item("A", n)>>
             N == <<0, 0, 0, sense>>
             X == Text(N)
  <2>1. L \in Seq(Items) /\ Len(L) = 1 /\ L[1].k = "A" /\ L[1].v = n
    BY DEF Items, Item, Ops, Lines
  <2>2. \A seq \in Seq(Int) : /\ Text(seq) \in Seq(Items) /\ Len(Text(seq)) = Len(seq)
                             /\ \A i \in 1 .. Len(seq) : Text(seq)[i] = Item("line", seq[i])
    BY DEF Text, Items, Item
  <2>3. N \in Seq(Int) /\ Len(N) = 4 /\ N[4] = sense
    OBVIOUS
  <2>4. X \in Seq(Items) /\ Len(X) = 4
        /\ \A i \in 1 .. 4 : X[i].k = "line" /\ X[i].v = N[i]
    <3>1. \A v : Item("line", v).k = "line" /\ Item("line", v).v = v
      BY DEF Item
    <3> HIDE DEF N
    <3>2. /\ Text(N) \in Seq(Items) /\ Len(Text(N)) = 4
          /\ \A i \in 1 .. 4 : Text(N)[i] = Item("line", N[i])
      BY <2>2, <2>3
    <3> QED
      BY <3>1, <3>2
  <2> HIDE DEF L, N, X
  <2>5. /\ L \o X \in Seq(Items) /\ Len(L \o X) = Len(L) + Len(X)
        /\ \A i \in 1 .. Len(L) + Len(X) : (L \o X)[i] =
              IF i <= Len(L) THEN L[i] ELSE X[i - Len(L)]
    <3>1. L \in Seq(Items) /\ X \in Seq(Items)
      BY <2>1, <2>4
    <3> QED
      BY <3>1, ConcatProperties
  <2>6. /\ L \o X \in Seq(Items) /\ Len(L \o X) = 5 /\ (L \o X)[1] = L[1]
        /\ \A i \in 2 .. 5 : (L \o X)[i] = X[i - 1]
    BY <2>1, <2>4, <2>5
  <2>7. (L \o X)[5].v = sense /\ \A i \in 2 .. 5 : (L \o X)[i].k = "line"
    <3>1. (L \o X)[5] = X[4] /\ X[4].v = N[4]
      BY <2>4, <2>6
    <3>2. \A i \in 2 .. 5 : i - 1 \in 1 .. 4
      OBVIOUS
    <3> QED
      BY <2>3, <2>4, <2>6, <3>1, <3>2
  <2> QED
    BY <2>1, <2>6, <2>7 DEF L, N, X
<1>7. \A n \in Nat : Data(n) \in Seq(Items) /\ Len(Data(n)) = n
  BY DEF Data, Items, Item
<1>8. ASSUME NEW items \in Seq(Items), NEW told, Say(items, told)
      PROVE  toClient' = items /\ answer' = told
  BY <1>1, <1>8, ConcatEmptySeq DEF Say
<1>9. ASSUME NEW n \in Int, call.op \notin {"V", "O", "S"}, Reply(n)
      PROVE  ReplyTo(call, toClient') /\ answer' = Told(toClient')
  <2>1. toClient' = <<Item("A", n)>> /\ answer' = Good(n)
    BY <1>5, <1>8, <1>9 DEF Reply
  <2>2. /\ Len(toClient') = 1 /\ toClient'[1].k = "A" /\ toClient' # <<>>
        /\ toClient'[1].v = n
    BY <2>1 DEF Item
  <2>3. Needed(call, toClient') = 1 /\ ~Misread(call, toClient')
    BY <1>9, <2>2 DEF Needed, Has, Misread
  <2> QED
    BY <1>5, <2>1, <2>2, <2>3 DEF ReplyTo, Told
<1>10. ASSUME NEW n \in Nat, Say(Error(n), Failed)
      PROVE  ReplyTo(call, toClient') /\ answer' = Told(toClient')
  BY <1>1, <1>8, <1>10, MessageShape
<1>11. Refuse => ReplyTo(call, toClient') /\ answer' = Told(toClient')
  BY <1>10 DEF Refuse
<1>12. CASE \E op \in DOMAIN Simple : ServerSimple(op)
  <2>1. PICK op \in DOMAIN Simple : ServerSimple(op)
    BY <1>12
  <2>2. /\ op \in {"D", "B", "I", "A", "R", "T"} /\ op = call.op
        /\ toServer' = <<>> /\ lostsync' = FALSE
    BY <1>4, <2>1 DEF ServerSimple, Simple
  <2>3. \A n \in Simple[op] : n \in Int
    BY <2>2, LengthsAssumption DEF Simple
  <2>4. ReplyTo(call, toClient') /\ answer' = Told(toClient')
    BY <1>9, <1>11, <2>1, <2>2, <2>3 DEF ServerSimple
  <2> QED
    BY <1>1, <2>1, <2>2, <2>4 DEF ServerSimple, client
<1>13. CASE ServerClose \/ ServerGetbuf \/ ServerFreebuf
  <2>1. /\ call.op \in {"C", "M", "F"} /\ toServer' = <<>> /\ lostsync' = FALSE
        /\ call.op = "M" => Value(1) \in Int
    <3>1. call.op \in {"C", "M", "F"} /\ toServer' = <<>> /\ lostsync' = FALSE
      BY <1>4, <1>13 DEF ServerClose, ServerGetbuf, ServerFreebuf
    <3>2. ASSUME call.op = "M" PROVE Value(1) \in Int
      <4>1. Lines["M"] = 1
        BY DEF Lines
      <4>2. Len(toServer) = 2
        BY <1>2, <3>2, <4>1 DEF Consumed
      <4>3. toServer[2] \in Items
        BY <1>2, <4>2
      <4> QED
        BY <4>3 DEF Value, Items
    <3> QED
      BY <3>1, <3>2
  <2>2. ReplyTo(call, toClient') /\ answer' = Told(toClient')
    <3>1. CASE ServerClose
      BY <1>9, <2>1, <3>1 DEF ServerClose
    <3>2. CASE ServerGetbuf
      <4>1. call.op = "M"
        BY <1>4, <3>2 DEF ServerGetbuf
      <4> QED
        BY <1>9, <1>11, <2>1, <3>2, <4>1 DEF ServerGetbuf
    <3>3. CASE ServerFreebuf
      BY <1>9, <1>11, <2>1, <3>3 DEF ServerFreebuf
    <3> QED
      BY <1>13, <3>1, <3>2, <3>3
  <2> QED
    BY <1>1, <1>13, <2>1, <2>2 DEF ServerClose, ServerGetbuf, ServerFreebuf, client
<1>14. CASE ServerVersion
  <2>1. call.op = "V" /\ toServer' = <<>> /\ lostsync' = FALSE
    BY <1>4, <1>14 DEF ServerVersion
  <2>2. ASSUME Say(<<Item("A", VersionLen)>> \o Data(VersionLen), Good(VersionLen))
        PROVE  ReplyTo(call, toClient') /\ answer' = Told(toClient')
    <3> DEFINE H == <<Item("A", VersionLen)>>
               D == Data(VersionLen)
    <3>1. H \in Seq(Items) /\ Len(H) = 1 /\ H[1].k = "A" /\ H[1].v = VersionLen
      BY LengthsAssumption DEF Items, Item, Ops, Lines
    <3>2. D \in Seq(Items) /\ Len(D) = VersionLen /\ VersionLen \in Nat
      BY <1>7, LengthsAssumption
    <3> HIDE DEF H, D
    <3>3. /\ H \o D \in Seq(Items) /\ Len(H \o D) = Len(H) + Len(D)
          /\ \A i \in 1 .. Len(H) + Len(D) : (H \o D)[i] =
                IF i <= Len(H) THEN H[i] ELSE D[i - Len(H)]
      BY <3>1, <3>2, ConcatProperties
    <3>4. toClient' = H \o D /\ answer' = Good(VersionLen)
      BY <1>8, <2>2, <3>3 DEF H, D
    <3>5. /\ toClient' \in Seq(Items) /\ Len(toClient') = 1 + VersionLen
          /\ toClient'[1].k = "A" /\ toClient'[1].v = VersionLen
      BY <3>1, <3>2, <3>3, <3>4
    <3>6. Needed(call, toClient') = 1 + VersionLen /\ ~Misread(call, toClient')
      BY <2>1, <3>2, <3>5 DEF Needed, Has, Misread
    <3>7. toClient' # <<>>
      BY <3>2, <3>5, EmptySeq
    <3> QED
      BY <3>4, <3>5, <3>6, <3>7 DEF ReplyTo, Told
  <2> QED
    BY <1>1, <1>11, <1>14, <2>1, <2>2 DEF ServerVersion, client
<1>15. CASE ServerOpen
  <2>1. call.op = "O" /\ toServer' = <<>> /\ lostsync' = FALSE
    BY <1>4, <1>15 DEF ServerOpen
  <2>2. ASSUME Say(<<Item("A", 0)>> \o Text(<<0, 0, 0, 0>>), Good(0))
        PROVE  ReplyTo(call, toClient') /\ answer' = Told(toClient')
    <3> DEFINE R == <<Item("A", 0)>> \o Text(<<0, 0, 0, 0>>)
    <3>2. /\ R \in Seq(Items) /\ Len(R) = 5 /\ R[1].k = "A" /\ R[1].v = 0
          /\ \A i \in 2 .. 5 : R[i].k = "line"
      BY <1>6
    <3> HIDE DEF R
    <3>3. toClient' = R /\ answer' = Good(0)
      BY <1>8, <2>2, <3>2 DEF R
    <3>4. Needed(call, R) = 5 /\ ~Misread(call, R)
      BY <2>1, <3>2 DEF Needed, Has, Misread
    <3>5. R # <<>>
      <4>1. Len(R) = 5
        BY <3>2
      <4> QED
        BY <4>1
    <3> QED
      BY <3>2, <3>3, <3>4, <3>5 DEF ReplyTo, Told
  <2> QED
    BY <1>1, <1>10, <1>15, <2>1, <2>2, LengthsAssumption DEF ServerOpen, client
<1>16. CASE ServerSend
  <2>1. call.op = "S" /\ toServer' = <<>> /\ lostsync' = FALSE
    BY <1>4, <1>16 DEF ServerSend
  <2>2. ASSUME NEW n \in Sizes, NEW sense \in SenseLens,
               Say(<<Item("A", n)>> \o Text(<<0, 0, 0, sense>>) \o Data(sense)
                      \o Data(IF Value(2) = 1 THEN n ELSE 0), Good(n))
        PROVE  ReplyTo(call, toClient') /\ answer' = Told(toClient')
    <3>1. n \in Nat /\ sense \in Nat
      BY LengthsAssumption
    <3> DEFINE m == IF Value(2) = 1 THEN n ELSE 0
               H == <<Item("A", n)>> \o Text(<<0, 0, 0, sense>>)
               D == Data(sense)
               E == Data(m)
    <3>3. /\ H \in Seq(Items) /\ Len(H) = 5 /\ H[1].k = "A" /\ H[1].v = n
          /\ H[5].v = sense /\ \A i \in 2 .. 5 : H[i].k = "line"
      BY <1>6, <3>1
    <3>4. m \in Nat /\ m = (IF call.recv THEN n ELSE 0)
      BY <1>2, <2>1, <3>1
    <3>5. D \in Seq(Items) /\ Len(D) = sense /\ E \in Seq(Items) /\ Len(E) = m
      <4> HIDE DEF m
      <4> QED
        BY <1>7, <3>1, <3>4
    <3> HIDE DEF H, D, E, m
    <3>6. /\ H \o D \in Seq(Items) /\ Len(H \o D) = Len(H) + Len(D)
          /\ \A i \in 1 .. Len(H) + Len(D) : (H \o D)[i] =
                IF i <= Len(H) THEN H[i] ELSE D[i - Len(H)]
      <4>1. H \in Seq(Items) /\ D \in Seq(Items)
        BY <3>3, <3>5
      <4> QED
        BY <4>1, ConcatProperties
    <3> DEFINE G == H \o D
    <3>7. G \in Seq(Items) /\ Len(G) = 5 + sense /\ \A i \in 1 .. 5 : G[i] = H[i]
      BY <3>1, <3>3, <3>5, <3>6
    <3> HIDE DEF G
    <3>8. /\ G \o E \in Seq(Items) /\ Len(G \o E) = Len(G) + Len(E)
          /\ \A i \in 1 .. Len(G) + Len(E) : (G \o E)[i] =
                IF i <= Len(G) THEN G[i] ELSE E[i - Len(G)]
      <4>1. G \in Seq(Items) /\ E \in Seq(Items)
        BY <3>5, <3>7
      <4> QED
        BY <4>1, ConcatProperties
    <3> DEFINE R == G \o E
    <3>9. R \in Seq(Items) /\ Len(R) = 5 + sense + m /\ \A i \in 1 .. 5 : R[i] = H[i]
      BY <3>1, <3>4, <3>5, <3>7, <3>8
    <3>10. toClient' = R /\ answer' = Good(n)
      BY <1>8, <2>2, <3>9 DEF R, G, H, D, E, m
    <3> HIDE DEF R
    <3>11. /\ R[1].k = "A" /\ R[1].v = n /\ R[5].v = sense
           /\ \A i \in 2 .. 5 : R[i].k = "line"
      BY <3>3, <3>9
    <3>12. Has(R, 1) /\ Has(R, 5)
      BY <3>1, <3>4, <3>9 DEF Has
    <3>13. Needed(call, R) = 5 + sense + m
      BY <2>1, <3>1, <3>4, <3>11, <3>12 DEF Needed
    <3>14. ~Misread(call, R)
      BY <3>11 DEF Misread
    <3>15. R # <<>>
      BY <3>9, <3>12, EmptySeq DEF Has
    <3> QED
      BY <3>9, <3>10, <3>11, <3>13, <3>14, <3>15 DEF ReplyTo, Told
  <2> QED
    BY <1>1, <1>11, <1>16, <2>1, <2>2 DEF ServerSend, client
<1>17. CASE ServerEnds
  BY <1>3, <1>17 DEF ServerEnds
<1> QED
  BY <1>12, <1>13, <1>14, <1>15, <1>16, <1>17 DEF Server
-----------------------------------------------------------------------------
(* Every step of either end, and the loss of the connection, keep StepInv.  *)
LEMMA InStepKept ==
    ASSUME StepInv, [Next]_vars
    PROVE  StepInv'
<1>1. \A c \in Calls : /\ c # NoCall /\ Request(c) \in Seq(Items)
                       /\ \A n \in {0, TextLen} : ReplyTo(c, Error(n))
  <2>1. "none" \notin Ops
    BY DEF Ops, Lines
  <2>2. \A c \in Calls : c.op \in Ops
    BY MessageShape
  <2>3. \A c \in Calls : c # NoCall
    BY <2>1, <2>2 DEF NoCall
  <2> QED
    BY <2>3, MessageShape, LengthsAssumption
<1>2. CASE Connect
  <2>1. /\ call' = NoCall /\ call' = call /\ lostsync' = FALSE /\ link' = "up"
        /\ toServer' = <<>>
        /\ \/ srv' = "alive" /\ toClient' = <<>>
           \/ srv' = "exited" /\ toClient' = Error(TextLen)
    BY <1>2 DEF Connect, StepInv, client
  <2> QED
    BY <1>1, <2>1 DEF StepInv, Lasts
<1>3. ASSUME NEW c \in Calls, Ask(c)
      PROVE  StepInv'
  <2>1. /\ call = NoCall /\ call' = c /\ lostsync' = FALSE /\ link' = link
        /\ link # "none" /\ srv' = srv /\ toClient' = toClient
        /\ toServer' = IF Lasts THEN toServer \o Request(c) ELSE toServer
    BY <1>3 DEF Ask, StepInv, server
  <2>2. ASSUME Lasts
        PROVE  toServer' = Request(c) /\ toClient' = <<>>
    BY <1>1, <2>1, <2>2, ConcatEmptySeq DEF StepInv
  <2> QED
    BY <1>1, <2>1, <2>2 DEF StepInv, Lasts
<1>4. CASE Return
  <2>1. /\ call' = NoCall /\ call # NoCall /\ Complete
        /\ toServer' = toServer /\ srv' = srv /\ link' \in {link, "down"}
        /\ lostsync' = (lostsync \/ (link = "up" /\ Misread(call, toClient)))
        /\ toClient' = SubSeq(toClient, Needed(call, toClient) + 1, Len(toClient))
    BY <1>4 DEF Return, Finish
  <2>2. link # "none" /\ call \in Calls
    BY <2>1 DEF StepInv
  <2>3. ASSUME link = "up"
        PROVE  /\ ReplyTo(call, toClient)
               /\ Lasts => toServer = <<>>
    <3>1. toClient # <<>>
      BY <2>1 DEF Complete, Needed, Has
    <3> QED
      BY <2>1, <2>2, <2>3, <3>1 DEF StepInv, Lasts
  <2>4. ASSUME link = "up"
        PROVE  toClient' = <<>> /\ lostsync' = FALSE
    <3>1. /\ toClient \in Seq(Items) /\ Len(toClient) = Needed(call, toClient)
          /\ ~Misread(call, toClient)
      BY <2>3, <2>4 DEF ReplyTo
    <3>2. toClient' = SubSeq(toClient, Len(toClient) + 1, Len(toClient))
      BY <2>1, <3>1
    <3>3. toClient' = <<>>
      BY <3>1, <3>2
    <3> QED
      BY <2>1, <3>1, <3>3 DEF StepInv
  <2>5. lostsync' = FALSE
    BY <2>1, <2>4 DEF StepInv
  <2> QED
    BY <2>1, <2>2, <2>3, <2>4, <2>5 DEF StepInv, Lasts
<1>5. CASE ReturnStale
  <2>1. /\ call' = NoCall /\ call # NoCall /\ toClient' = <<>>
        /\ srv' = srv /\ link' \in {link, "down"} /\ lostsync' = lostsync
        /\ link = "down" \/ srv \notin {"off", "alive"}
    BY <1>5 DEF ReturnStale, Finish, Eof
  <2> QED
    BY <2>1 DEF StepInv, Lasts
<1>6. CASE Server
  <2>1. CASE link = "up"
    BY <1>1, <1>6, <2>1, ServerStep DEF StepInv, Lasts
  <2>2. CASE link # "up"
    <3>1. /\ call' = call /\ link' = link /\ lostsync' = lostsync /\ srv = "alive"
      BY <1>6, <2>2 DEF Server, ServerVersion, ServerOpen, ServerClose, ServerGetbuf,
         ServerFreebuf, ServerSend, ServerEnds, ServerSimple, Handling, Read, client, StepInv
    <3> QED
      BY <2>2, <3>1 DEF StepInv, Lasts
  <2> QED
    BY <2>1, <2>2
<1>7. CASE Quit \/ Cut
  <2>1. link' = "down" /\ call' = call /\ lostsync' = lostsync
    BY <1>7 DEF Quit, Cut, client, server
  <2> QED
    BY <2>1 DEF StepInv, Lasts
<1>8. CASE UNCHANGED vars
  BY <1>8 DEF vars, client, server, StepInv, Lasts, ReplyTo, Misread, Needed, Has, Told
<1> QED
  BY <1>2, <1>3, <1>4, <1>5, <1>6, <1>7, <1>8 DEF Next, Client, Over

(* While the connection lasts, nothing but the current request or exactly   *)
(* its reply is on the way, and no item is taken for another, whatever the  *)
(* sizes of the data and of the texts and whichever fault occurs.           *)
THEOREM InStepProved == Spec => []InStep
<1>1. Init => StepInv
  BY DEF Init, StepInv, Lasts
<1>2. StepInv /\ [Next]_vars => StepInv'
  BY InStepKept
<1>3. StepInv => InStep
  BY DEF StepInv, InStep, ReplyTo
<1> QED
  BY <1>1, <1>2, <1>3, PTL DEF Spec
-----------------------------------------------------------------------------
\* What may be on the wire to the client: a status is one that a call may return,
\* and no number is too small to count items with.
Wired(s) ==
    /\ s \in Seq(Items)
    /\ \A i \in 1 .. Len(s) : s[i].v >= -1 /\ (s[i].k = "A" => s[i].v \in Numbers)

TypeInv ==
    /\ RscsiTypeOK
    /\ Wired(toClient)
    /\ \A i \in 1 .. Len(toServer) : toServer[i].v \in Nat

(* Every number that either end sends is one that the other end can use: a  *)
(* length is never negative and a status is one that the call may return,   *)
(* also in what is left on the wire after the connection was lost.          *)
LEMMA TypesKept ==
    ASSUME StepInv, TypeInv, [Next]_vars
    PROVE  TypeInv'
<1>1. /\ Numbers \subseteq Int /\ \A n \in Numbers : n >= -1
      /\ {-1, 0, 1, MaxDma, VersionLen} \subseteq Numbers /\ Sizes \subseteq Numbers
      /\ \A n \in 1 .. MaxDma : n \in Numbers
      /\ Failed \in Results /\ \A n \in Numbers : Good(n) \in Results
  BY LengthsAssumption DEF Numbers, Results
<1>2. /\ phase \in {"new", "open", "shut"} /\ fd \in BOOLEAN /\ buf \in BOOLEAN
      /\ ended \in BOOLEAN /\ dev \in BOOLEAN /\ result \in Results /\ answer \in Results
      /\ link \in {"none", "up", "down"} /\ toServer \in Seq(Items) /\ toClient \in Seq(Items)
      /\ srv \in {"off", "alive", "exited", "crashed"} /\ Sbufsize \in Nat
  BY DEF TypeInv, RscsiTypeOK
<1>3. call' \in Calls \union {NoCall} /\ lostsync' \in BOOLEAN
  BY InStepKept DEF StepInv
<1>4. ASSUME NEW s, NEW t, Wired(s), Wired(t)
      PROVE  Wired(s \o t)
  <2>1. s \in Seq(Items) /\ t \in Seq(Items) /\ Len(s) \in Nat /\ Len(t) \in Nat
    BY <1>4 DEF Wired
  <2>2. /\ s \o t \in Seq(Items) /\ Len(s \o t) = Len(s) + Len(t)
        /\ \A i \in 1 .. Len(s) + Len(t) : (s \o t)[i] =
              IF i <= Len(s) THEN s[i] ELSE t[i - Len(s)]
    BY <2>1, ConcatProperties
  <2>3. \A i \in 1 .. Len(s) + Len(t) : \/ i \in 1 .. Len(s) /\ (s \o t)[i] = s[i]
                                        \/ /\ i - Len(s) \in 1 .. Len(t)
                                           /\ (s \o t)[i] = t[i - Len(s)]
    BY <2>1, <2>2
  <2> QED
    BY <1>4, <2>2, <2>3 DEF Wired
<1>5. ASSUME NEW s \in Seq(Items), NEW m \in Nat \ {0}, NEW n \in Nat, n <= Len(s)
      PROVE  /\ SubSeq(s, m, n) \in Seq(Items)
             /\ \A i \in 1 .. Len(SubSeq(s, m, n)) :
                   \E j \in 1 .. Len(s) : SubSeq(s, m, n)[i] = s[j]
  <2>1. /\ SubSeq(s, m, n) \in Seq(Items)
        /\ Len(SubSeq(s, m, n)) = (IF m <= n THEN n - m + 1 ELSE 0)
        /\ \A i \in 1 .. n - m + 1 : SubSeq(s, m, n)[i] = s[m + i - 1]
    BY <1>5, SubSeqProperties
  <2>2. \A i \in 1 .. n - m + 1 : m + i - 1 \in 1 .. Len(s)
    BY <1>5
  <2>3. ASSUME NEW i \in 1 .. Len(SubSeq(s, m, n))
        PROVE  i \in 1 .. n - m + 1
    BY <2>1, <2>3
  <2> QED
    BY <2>1, <2>2, <2>3
<1>6. /\ \A n \in Nat : Wired(Data(n)) /\ Wired(Error(n))
      /\ \A n \in Numbers : Wired(<<Item("A", n)>>)
      /\ \A n \in Nat : Wired(Text(<<0, 0, 0, n>>))
  <2>1. ASSUME NEW n \in Nat
        PROVE  Wired(Data(n))
    <3>1. /\ Data(n) \in Seq(Items) /\ Len(Data(n)) = n
          /\ \A i \in 1 .. n : Data(n)[i].v = 0 /\ Data(n)[i].k = "data"
      BY DEF Data, Items, Item
    <3> QED
      BY <3>1 DEF Wired
  <2>2. ASSUME NEW n \in Nat
        PROVE  Wired(Error(n))
    <3> DEFINE E == <<Item("E", 0), Item("line", 0), Item("line", n)>>
    <3>1. /\ E \in Seq(Items) /\ Len(E) = 3
          /\ \A i \in 1 .. 3 : E[i].k # "A" /\ E[i].v \in Nat
      BY DEF Items, Item
    <3>2. Wired(E)
      BY <3>1 DEF Wired
    <3> QED
      BY <1>4, <2>1, <3>2 DEF Error
  <2>3. ASSUME NEW n \in Numbers
        PROVE  Wired(<<Item("A", n)>>)
    <3> DEFINE A == <<Item("A", n)>>
    <3>1. A \in Seq(Items) /\ Len(A) = 1 /\ A[1].v = n
      BY <1>1 DEF Items, Item, Ops, Lines
    <3> HIDE DEF A
    <3>2. Wired(A)
      BY <1>1, <3>1 DEF Wired
    <3> QED
      BY <3>2 DEF A
  <2>4. ASSUME NEW n \in Nat
        PROVE  Wired(Text(<<0, 0, 0, n>>))
    <3> DEFINE N == <<0, 0, 0, n>>
    <3>1. N \in Seq(Int) /\ Len(N) = 4 /\ \A i \in 1 .. 4 : N[i] \in Nat
      OBVIOUS
    <3> HIDE DEF N
    <3>2. /\ Text(N) \in Seq(Items) /\ Len(Text(N)) = 4
          /\ \A i \in 1 .. 4 : Text(N)[i] = Item("line", N[i])
      BY <3>1 DEF Text, Items, Item
    <3>3. \A v : Item("line", v).k = "line" /\ Item("line", v).v = v
      BY DEF Item
    <3>4. \A i \in 1 .. 4 : Text(N)[i].k = "line" /\ Text(N)[i].v \in Nat
      BY <3>1, <3>2, <3>3
    <3>5. Wired(Text(N))
      BY <3>2, <3>4 DEF Wired
    <3> QED
      BY <3>5 DEF N
  <2> QED
    BY <2>1, <2>2, <2>3, <2>4
<1>7. ASSUME NEW items, NEW told, link = "up" => Wired(items) /\ told \in Results,
             Say(items, told)
      PROVE  Wired(toClient') /\ answer' \in Results
  BY <1>2, <1>4, <1>7 DEF Say, TypeInv
<1>8. Refuse => Wired(toClient') /\ answer' \in Results
  BY <1>1, <1>6, <1>7 DEF Refuse
<1>9. ASSUME NEW n, link = "up" => n \in Numbers, Reply(n)
      PROVE  Wired(toClient') /\ answer' \in Results
  BY <1>1, <1>6, <1>7, <1>9 DEF Reply
<1>10. ASSUME NEW op, Handling(op), Read(op)
       PROVE  /\ toServer' \in Seq(Items)
              /\ \A i \in 1 .. Len(toServer') : toServer'[i].v \in Nat
              /\ op \in {"M", "S"} => Value(1) \in Nat
              /\ link = "up" => call.op = op /\ call \in Calls /\ Value(1) = call.size
  <2>1. op \in Ops /\ Lines[op] \in Nat \ {0} /\ Lines["M"] = 1 /\ Lines["S"] = 5
    BY <1>10 DEF Handling, Arrived, Ops, Lines
  <2>2. /\ toServer[1].k = op /\ toServer # <<>> /\ Has(toServer, Consumed(op))
        /\ srv = "alive" /\ toServer' = SubSeq(toServer, Consumed(op) + 1, Len(toServer))
    BY <1>10 DEF Handling, Arrived, Read
  <2>3. \A i \in Nat : Has(toServer, 1 + i) => Value(i) \in Nat
    <3> SUFFICES ASSUME NEW i \in Nat, Has(toServer, 1 + i)
                 PROVE  Value(i) \in Nat
      OBVIOUS
    <3>1. 1 + i \in 1 .. Len(toServer)
      BY <1>2 DEF Has
    <3> QED
      BY <3>1 DEF Value, TypeInv
  <2>4. Consumed(op) \in Nat /\ (op \in {"M", "S"} => Has(toServer, 2))
    <3>1. CASE op = "S" /\ Has(toServer, 6)
      <4>1. Value(1) \in Nat /\ Value(2) \in Nat /\ Value(3) \in Nat /\ Has(toServer, 2)
        <5>1. Has(toServer, 1 + 1) /\ Has(toServer, 1 + 2) /\ Has(toServer, 1 + 3)
          BY <1>2, <3>1 DEF Has
        <5> QED
          BY <2>3, <5>1 DEF Has
      <4>2. (IF Value(2) = 1 THEN 0 ELSE Value(1)) \in Nat
        BY <4>1
      <4>3. Consumed(op) = 1 + 5 + (Value(3) + (IF Value(2) = 1 THEN 0 ELSE Value(1)))
        BY <2>1, <3>1 DEF Consumed
      <4> QED
        BY <4>1, <4>2, <4>3
    <3>2. CASE ~(op = "S" /\ Has(toServer, 6))
      <4>1. Consumed(op) = 1 + Lines[op] + 0
        BY <3>2 DEF Consumed
      <4> QED
        BY <1>2, <2>1, <2>2, <4>1 DEF Has
    <3> QED
      BY <3>1, <3>2
  <2>5. Value(1) \in Nat \/ op \notin {"M", "S"}
    BY <2>3, <2>4 DEF Has
  <2>6. /\ toServer' \in Seq(Items)
        /\ \A i \in 1 .. Len(toServer') : \E j \in 1 .. Len(toServer) : toServer'[i] = toServer[j]
    <3> DEFINE m == Consumed(op) + 1
               n == Len(toServer)
    <3>1. m \in Nat \ {0} /\ n \in Nat /\ n <= Len(toServer)
      BY <1>2, <2>4
    <3>2. toServer' = SubSeq(toServer, m, n)
      BY <2>2
    <3> HIDE DEF m, n
    <3>3. /\ SubSeq(toServer, m, n) \in Seq(Items)
          /\ \A i \in 1 .. Len(SubSeq(toServer, m, n)) :
                \E j \in 1 .. Len(toServer) : SubSeq(toServer, m, n)[i] = toServer[j]
      BY <1>2, <1>5, <3>1
    <3> QED
      BY <3>2, <3>3
  <2>7. ASSUME link = "up"
        PROVE  call.op = op /\ call \in Calls /\ Value(1) = call.size
    <3>1. call \in Calls /\ toServer = Request(call)
      BY <2>2, <2>7 DEF StepInv, Lasts
    <3>2. Request(call)[1].k = call.op /\ Request(call)[2].v = call.size
      BY <3>1, MessageShape
    <3> QED
      BY <2>2, <3>1, <3>2 DEF Value
  <2> QED
    BY <2>5, <2>6, <2>7 DEF TypeInv
<1>11. ASSUME Server
       PROVE  /\ toServer' \in Seq(Items)
              /\ \A i \in 1 .. Len(toServer') : toServer'[i].v \in Nat
              /\ Wired(toClient') /\ answer' \in Results
              /\ Sbufsize' \in Nat /\ dev' \in BOOLEAN
              /\ srv' \in {"off", "alive", "exited", "crashed"}
  <2>1. ASSUME NEW op \in DOMAIN Simple, ServerSimple(op)
        PROVE  Wired(toClient') /\ answer' \in Results
    <3>1. op \in {"D", "B", "I", "A", "R", "T"} /\ \A n \in Simple[op] : n \in Numbers
      BY <1>1 DEF Simple
    <3> QED
      BY <1>1, <1>8, <1>9, <2>1, <3>1 DEF ServerSimple
  <2>2. CASE \E op \in DOMAIN Simple : ServerSimple(op)
    <3>1. PICK op \in DOMAIN Simple : ServerSimple(op)
      BY <2>2
    <3> QED
      BY <1>2, <1>10, <2>1, <3>1 DEF ServerSimple
  <2>3. CASE ServerVersion
    <3>1. Wired(<<Item("A", VersionLen)>> \o Data(VersionLen)) /\ Good(VersionLen) \in Results
      BY <1>1, <1>4, <1>6, LengthsAssumption
    <3>2. Wired(toClient') /\ answer' \in Results
      BY <1>7, <1>8, <2>3, <3>1 DEF ServerVersion
    <3> QED
      BY <1>2, <1>10, <2>3, <3>2 DEF ServerVersion
  <2>4. CASE ServerOpen
    <3>1. Wired(<<Item("A", 0)>> \o Text(<<0, 0, 0, 0>>)) /\ Good(0) \in Results
      BY <1>1, <1>4, <1>6
    <3>2. Wired(Error(TextLen)) /\ Failed \in Results
      BY <1>1, <1>6, LengthsAssumption
    <3>3. Wired(toClient') /\ answer' \in Results
      BY <1>2, <1>7, <2>4, <3>1, <3>2 DEF ServerOpen, TypeInv
    <3> QED
      BY <1>2, <1>10, <2>4, <3>3 DEF ServerOpen
  <2>5. CASE ServerClose \/ ServerFreebuf
    <3>1. Wired(toClient') /\ answer' \in Results
      BY <1>1, <1>8, <1>9, <2>5 DEF ServerClose, ServerFreebuf
    <3> QED
      BY <1>2, <1>10, <2>5, <3>1 DEF ServerClose, ServerFreebuf
  <2>6. CASE ServerGetbuf
    <3>1. Value(1) \in Nat
      BY <1>10, <2>6 DEF ServerGetbuf
    <3>2. link = "up" => Value(1) \in Numbers
      <4>1. link = "up" => call.op = "M" /\ call \in Calls /\ Value(1) = call.size
        BY <1>10, <2>6 DEF ServerGetbuf
      <4>2. call \in Calls /\ call.op = "M" => call.size \in 1 .. MaxDma
        BY DEF Calls
      <4> QED
        BY <1>1, <4>1, <4>2
    <3>3. Wired(toClient') /\ answer' \in Results
      BY <1>8, <1>9, <2>6, <3>2 DEF ServerGetbuf
    <3>4. Sbufsize' \in Nat
      BY <1>2, <2>6, <3>1 DEF ServerGetbuf
    <3> QED
      BY <1>2, <1>10, <2>6, <3>3, <3>4 DEF ServerGetbuf
  <2>7. CASE ServerSend
    <3>1. ASSUME NEW n \in Sizes, NEW sense \in SenseLens,
                 Say(<<Item("A", n)>> \o Text(<<0, 0, 0, sense>>) \o Data(sense)
                        \o Data(IF Value(2) = 1 THEN n ELSE 0), Good(n))
          PROVE  Wired(toClient') /\ answer' \in Results
      <4>1. n \in Numbers /\ n \in Nat /\ sense \in Nat /\ (IF Value(2) = 1 THEN n ELSE 0) \in Nat
        BY <1>1, LengthsAssumption
      <4>2. /\ Wired(<<Item("A", n)>>) /\ Wired(Text(<<0, 0, 0, sense>>))
            /\ Wired(Data(sense)) /\ Wired(Data(IF Value(2) = 1 THEN n ELSE 0))
        BY <1>6, <4>1
      <4>3. Wired(<<Item("A", n)>> \o Text(<<0, 0, 0, sense>>) \o Data(sense)
                     \o Data(IF Value(2) = 1 THEN n ELSE 0))
        BY <1>4, <4>2
      <4> QED
        BY <1>1, <1>7, <3>1, <4>1, <4>3
    <3>2. Wired(toClient') /\ answer' \in Results
      BY <1>2, <1>8, <2>7, <3>1 DEF ServerSend, TypeInv
    <3> QED
      BY <1>2, <1>10, <2>7, <3>2 DEF ServerSend
  <2>8. CASE ServerEnds
    BY <1>2, <1>8, <2>8 DEF ServerEnds
  <2> QED
    BY <1>11, <2>2, <2>3, <2>4, <2>5, <2>6, <2>7, <2>8 DEF Server
<1>12. CASE Server
  BY <1>2, <1>3, <1>11, <1>12 DEF Server, ServerVersion, ServerOpen, ServerClose, ServerGetbuf,
     ServerFreebuf, ServerSend, ServerEnds, ServerSimple, client, TypeInv, RscsiTypeOK, Wired
<1>13. ASSUME Return \/ ReturnStale
       PROVE  /\ Wired(toClient') /\ toServer' = toServer
              /\ \E r \in Results : Finish(r)
  <2>1. ASSUME Has(toClient, 1)
        PROVE  Told(toClient) \in Results
    <3>1. 1 \in 1 .. Len(toClient)
      BY <1>2, <2>1 DEF Has
    <3> QED
      BY <1>1, <3>1 DEF Told, TypeInv, Wired
  <2>2. CASE Return
    <3>1. /\ Complete /\ Finish(Told(toClient)) /\ toServer' = toServer
          /\ toClient' = SubSeq(toClient, Needed(call, toClient) + 1, Len(toClient))
      BY <2>2 DEF Return, Told
    <3>2. Has(toClient, 1)
      BY <3>1 DEF Complete, Needed
    <3>3. Needed(call, toClient) \in Nat
      <4> DEFINE s == toClient
      <4>1. \A i \in {1, 3, 5} : Has(s, i) => s[i].v \in Int /\ s[i].v >= -1
        <5> SUFFICES ASSUME NEW i \in {1, 3, 5}, Has(s, i)
                     PROVE  s[i].v \in Int /\ s[i].v >= -1
          OBVIOUS
        <5>1. i \in 1 .. Len(s) /\ s[i] \in Items
          BY <1>2 DEF Has
        <5> QED
          BY <5>1 DEF TypeInv, Wired, Items
      <4> HIDE DEF s
      <4>2. CASE s[1].k = "E"
        <5>1. Needed(call, s) = IF Has(s, 3) THEN 3 + s[3].v ELSE 3
          BY <3>2, <4>2 DEF Needed, s
        <5> QED
          BY <4>1, <5>1 DEF s
      <4>3. CASE s[1].k # "E"
        <5>1. Needed(call, s) \in {1 + s[1].v, 5, 1, 5 + s[5].v + 0, 5 + s[5].v + s[1].v}
              /\ (Needed(call, s) \in {1 + s[1].v, 5, 1} \/ Has(s, 5))
          BY <3>2, <4>3 DEF Needed, s
        <5>2. s[1].v \in Int /\ s[1].v >= -1
          BY <3>2, <4>1 DEF s
        <5>3. Has(s, 5) => s[5].v \in Int /\ s[5].v >= -1
          BY <4>1
        <5> QED
          BY <5>1, <5>2, <5>3 DEF s
      <4> QED
        BY <4>2, <4>3
    <3>4. Wired(toClient')
      <4> DEFINE m == Needed(call, toClient) + 1
                 n == Len(toClient)
      <4>1. m \in Nat \ {0} /\ n \in Nat /\ n <= Len(toClient)
        BY <1>2, <3>3
      <4>2. toClient' = SubSeq(toClient, m, n)
        BY <3>1
      <4> HIDE DEF m, n
      <4>3. /\ SubSeq(toClient, m, n) \in Seq(Items)
            /\ \A i \in 1 .. Len(SubSeq(toClient, m, n)) :
                  \E j \in 1 .. Len(toClient) : SubSeq(toClient, m, n)[i] = toClient[j]
        BY <1>2, <1>5, <4>1
      <4> QED
        BY <4>2, <4>3 DEF TypeInv, Wired
    <3> QED
      BY <2>1, <3>1, <3>2, <3>4
  <2>3. CASE ReturnStale
    <3>1. toClient' = <<>> /\ toServer' = toServer
      BY <2>3 DEF ReturnStale
    <3>2. \E r \in Results : Finish(r)
      BY <2>1, <2>3 DEF ReturnStale, Told
    <3> QED
      BY <3>1, <3>2 DEF Wired
  <2> QED
    BY <1>13, <2>2, <2>3
<1>14. CASE Return \/ ReturnStale
  <2>1. PICK r \in Results : Finish(r)
    BY <1>13, <1>14
  <2>2. r.ok \in BOOLEAN
    <3>1. r = Failed \/ \E n : r = Good(n)
      BY DEF Results
    <3>2. Failed.ok = FALSE /\ \A n : Good(n).ok = TRUE
      BY DEF Failed, Good
    <3> QED
      BY <3>1, <3>2
  <2>3. fd' \in BOOLEAN
    <3>1. (r.ok /\ r.n >= 0) \in BOOLEAN
      OBVIOUS
    <3> QED
      BY <1>2, <2>1, <3>1, Zenon DEF Finish
  <2>4. buf' \in BOOLEAN
    BY <1>2, <2>1, <2>2, Zenon DEF Finish
  <2>5. phase' \in {"new", "open", "shut"} /\ link' \in {"none", "up", "down"}
    BY <1>2, <2>1 DEF Finish
  <2>6. /\ result' \in Results /\ answer' \in Results /\ ended' = ended /\ srv' = srv
        /\ dev' = dev /\ Sbufsize' = Sbufsize
    BY <1>1, <2>1 DEF Finish
  <2> QED
    BY <1>2, <1>3, <1>13, <1>14, <2>3, <2>4, <2>5, <2>6 DEF TypeInv, RscsiTypeOK, Wired
<1>15. CASE Connect
  <2>1. /\ Wired(toClient')
        /\ link' = "up" /\ srv' \in {"alive", "exited"} /\ UNCHANGED <<client, toServer, dev,
                                                         Sbufsize, answer>>
    BY <1>6, <1>15, LengthsAssumption DEF Connect, TypeInv
  <2> QED
    BY <1>2, <1>3, <2>1 DEF TypeInv, RscsiTypeOK, Wired, client
<1>16. CASE \E c \in Calls : Ask(c)
  <2>1. PICK c \in Calls : Ask(c)
    BY <1>16
  <2>2. /\ buf' = (buf /\ c.op # "F") /\ result' = Failed
        /\ toServer' = IF Lasts THEN toServer \o Request(c) ELSE toServer
        /\ call = NoCall
        /\ UNCHANGED <<phase, fd, ended, link, toClient, server>>
    BY <2>1 DEF Ask
  <2>3. buf' \in BOOLEAN
    BY <2>2, Zenon
  <2>4. /\ toServer' \in Seq(Items)
        /\ \A i \in 1 .. Len(toServer') : toServer'[i].v \in Nat
    <3>1. CASE Lasts
      <4>1. toServer = <<>> /\ Request(c) \in Seq(Items)
            /\ \A i \in 1 .. Len(Request(c)) : Request(c)[i].v \in Nat
        BY <2>2, <3>1, MessageShape DEF StepInv
      <4> QED
        BY <2>2, <3>1, <4>1, ConcatEmptySeq
    <3>2. CASE ~Lasts
      BY <1>2, <2>2, <3>2 DEF TypeInv
    <3> QED
      BY <3>1, <3>2
  <2> QED
    BY <1>1, <1>2, <1>3, <2>2, <2>3, <2>4 DEF TypeInv, RscsiTypeOK, Wired, server
<1>17. CASE Cut
  <2>1. PICK m \in 0 .. Len(toServer), n \in 0 .. Len(toClient) :
           toServer' = SubSeq(toServer, 1, m) /\ toClient' = SubSeq(toClient, 1, n)
    BY <1>17 DEF Cut, Prefix
  <2>2. /\ m \in Nat /\ m <= Len(toServer) /\ n \in Nat /\ n <= Len(toClient)
        /\ 1 \in Nat \ {0}
    BY <1>2
  <2>3. /\ toServer' \in Seq(Items) /\ toClient' \in Seq(Items)
        /\ \A i \in 1 .. Len(toServer') :
              \E j \in 1 .. Len(toServer) : toServer'[i] = toServer[j]
        /\ \A i \in 1 .. Len(toClient') :
              \E j \in 1 .. Len(toClient) : toClient'[i] = toClient[j]
    BY <1>2, <1>5, <2>1, <2>2
  <2>4. Wired(toClient') /\ \A i \in 1 .. Len(toServer') : toServer'[i].v \in Nat
    BY <2>3 DEF TypeInv, Wired
  <2>5. link' = "down" /\ UNCHANGED <<client, server>>
    BY <1>17 DEF Cut
  <2> QED
    BY <1>2, <1>3, <2>3, <2>4, <2>5 DEF TypeInv, RscsiTypeOK, Wired, client, server
<1>18. CASE Quit \/ UNCHANGED vars
  <2>1. /\ ended' \in BOOLEAN /\ link' \in {"none", "up", "down"}
        /\ UNCHANGED <<phase, fd, buf, result, toServer, toClient, server>>
    BY <1>2, <1>18 DEF Quit, vars, client
  <2> QED
    BY <1>2, <1>3, <2>1 DEF TypeInv, RscsiTypeOK, Wired, server
<1> QED
  BY <1>12, <1>14, <1>15, <1>16, <1>17, <1>18 DEF Next, Client, Over

(* Both invariants together: the types rest on the order of the messages.  *)
THEOREM RscsiInvariant == Spec => [](StepInv /\ TypeInv)
<1>1. Init => StepInv
  BY DEF Init, StepInv, Lasts
<1>2. ASSUME Init
      PROVE  TypeInv
  <2>1. Failed \in Results /\ <<>> \in Seq(Items) /\ Len(<<>>) = 0
    BY DEF Results
  <2>2. {fd, buf, ended, dev, lostsync} \subseteq BOOLEAN
    BY <1>2, Zenon DEF Init
  <2> QED
    BY <1>2, <2>1, <2>2 DEF Init, TypeInv, RscsiTypeOK, Wired
<1>3. StepInv /\ [Next]_vars => StepInv'
  BY InStepKept
<1>4. StepInv /\ TypeInv /\ [Next]_vars => TypeInv'
  BY TypesKept
<1> QED
  BY <1>1, <1>2, <1>3, <1>4, PTL DEF Spec

(* Every variable keeps its type: the lengths that one end reads are those  *)
(* that the other can send, and no call returns an outcome that the server  *)
(* could not have meant, whichever fault occurs.                            *)
THEOREM RscsiTypes == Spec => []RscsiTypeOK
<1>1. TypeInv => RscsiTypeOK
  BY DEF TypeInv
<1> QED
  BY <1>1, RscsiInvariant, PTL

(* Client and server together are a remote call: rscsicmd() and dorscsi()   *)
(* carry a call out once at most, and as long as the connection lasts the   *)
(* caller gets the answer of that very call.                                *)
THEOREM RscsiIsACall == Spec => ImplementsCall
<1>1. Init => Abstract!Init
  <2>1. ASSUME Init
        PROVE  Due = FALSE /\ Up = TRUE
    BY <2>1 DEF Init, Due, Up
  <2> QED
    BY <2>1 DEF Init, Abstract!Init
<1>2. ASSUME StepInv, TypeInv, TypeInv', [Next]_vars
      PROVE  [Abstract!Next]_Abstract!vars
  <2> USE <1>2
  <2>1. UNCHANGED vars => UNCHANGED Abstract!vars
    BY DEF vars, client, server, Abstract!vars, Due, Up
  <2>2. result' \in Results /\ answer' \in Results /\ \A c \in Calls : c # NoCall
    <3>1. "none" \notin Ops /\ \A c \in Calls : c.op \in Ops
      BY MessageShape DEF Ops, Lines
    <3>2. result' \in Results /\ answer' \in Results
      BY DEF TypeInv, RscsiTypeOK
    <3> QED
      BY <3>1, <3>2 DEF NoCall
  <2>3. ASSUME ~Up', Due' => Due, UNCHANGED <<call, answer, result>>
        PROVE  Abstract!Break
    <3>1. Due' \in {Due, FALSE} /\ Up' = FALSE
      BY <2>3, Zenon DEF Due, Up
    <3> QED
      BY <2>3, <3>1 DEF Abstract!Break
  <2>4. CASE Connect
    <3>1. UNCHANGED <<call, answer, result>> /\ Due = FALSE /\ Due' = FALSE /\ Up = TRUE
      BY <2>4 DEF Connect, client, StepInv, Due, Up
    <3>2. CASE Up'
      <4>1. Up' = TRUE
        BY <3>2 DEF Up
      <4> QED
        BY <3>1, <4>1 DEF Abstract!vars
    <3>3. CASE ~Up'
      BY <2>3, <3>1, <3>3 DEF Abstract!Next
    <3> QED
      BY <3>2, <3>3
  <2>5. CASE \E c \in Calls : Ask(c)
    <3>1. PICK c \in Calls : Ask(c)
      BY <2>5
    <3>2. /\ call = NoCall /\ call' = c /\ result' = Failed /\ answer' = answer
          /\ link' = link /\ srv' = srv /\ link # "none"
          /\ toServer' = IF Lasts THEN toServer \o Request(c) ELSE toServer
      BY <3>1 DEF Ask, server
    <3>3. Up' = Up
      BY <3>2 DEF Up
    <3>4. Due' \in {Due, Up}
      <4>1. CASE Lasts
        <5>1. toServer = <<>> /\ Request(c) \in Seq(Items) /\ Request(c) # <<>>
          <6>1. /\ Request(c) \in Seq(Items) /\ Lines[c.op] \in Nat \ {0}
                /\ c.op # "S" => Len(Request(c)) = 1 + Lines[c.op]
                /\ c.op = "S" => Len(Request(c)) = 6 + CdbLen + (IF c.recv THEN 0 ELSE c.size)
                /\ c.size \in Nat
            BY MessageShape
          <6>2. (IF c.recv THEN 0 ELSE c.size) \in Nat
            BY <6>1
          <6>3. Len(Request(c)) > 0
            BY <6>1, <6>2, LengthsAssumption
          <6> QED
            BY <3>2, <4>1, <6>1, <6>3, EmptySeq DEF StepInv
        <5>2. toServer' = Request(c)
          BY <3>2, <4>1, <5>1, ConcatEmptySeq
        <5> QED
          BY <3>2, <4>1, <5>1, <5>2 DEF Due, Up, Lasts
      <4>2. CASE ~Lasts
        BY <3>2, <4>2 DEF Due
      <4> QED
        BY <4>1, <4>2
    <3> QED
      BY <3>2, <3>3, <3>4 DEF Abstract!Ask, Abstract!Next
  <2>6. CASE Return \/ ReturnStale
    <3>1. /\ call # NoCall /\ call' = NoCall /\ answer' = Failed /\ toServer' = toServer
          /\ srv' = srv /\ link' = IF call.op = "C" THEN "down" ELSE link
      BY <2>6 DEF Return, ReturnStale, Finish
    <3>2. link # "none"
      BY <3>1 DEF StepInv
    <3>3. CASE Up
      <4>1. Lasts
        BY <3>2, <3>3, <1>2 DEF Up, Lasts, StepInv, TypeInv, RscsiTypeOK
      <4>2. Return
        BY <2>6, <4>1 DEF ReturnStale, Eof, Lasts
      <4>3. toServer = <<>> /\ answer = Told(toClient)
        <5>1. toClient # <<>>
          BY <4>2 DEF Return, Complete, Needed, Has
        <5> QED
          BY <3>1, <4>1, <5>1 DEF StepInv
      <4>4. result' = answer
        BY <4>2, <4>3 DEF Return, Finish, Told
      <4>5. Due = FALSE /\ Due' = FALSE /\ Up' \in {TRUE, FALSE}
        BY <3>1, <4>3 DEF Due, Up
      <4> QED
        BY <3>1, <3>3, <4>4, <4>5 DEF Abstract!Answer, Abstract!Next
    <3>4. CASE ~Up
      <4>1. Due' = Due /\ Up' = Up
        BY <3>1, <3>4 DEF Due, Up
      <4> QED
        BY <2>2, <3>1, <3>4, <4>1 DEF Abstract!Guess, Abstract!Next
    <3> QED
      BY <3>3, <3>4
  <2>7. CASE Server
    <3>1. /\ srv = "alive" /\ link' = link /\ call' = call /\ result' = result
      BY <2>7 DEF Server, ServerVersion, ServerOpen, ServerClose, ServerGetbuf, ServerFreebuf,
         ServerSend, ServerEnds, ServerSimple, Handling, client
    <3>2. link = "up" \/ link = "down"
      BY <3>1 DEF StepInv, TypeInv, RscsiTypeOK
    <3>3. CASE link = "up"
      <4>1. /\ toServer' = <<>> /\ srv' \in {"alive", "exited", "crashed"}
            /\ srv' # "alive" => answer' = answer
        BY <2>7, <3>3, ServerStep
      <4>2. CASE srv' = "alive"
        <5>1. toServer # <<>>
          BY <2>7, <3>1, <3>3 DEF Server, ServerVersion, ServerOpen, ServerClose, ServerGetbuf,
             ServerFreebuf, ServerSend, ServerEnds, ServerSimple, Handling, Arrived
        <5>2. Due /\ Due' = FALSE /\ Up' = Up
          BY <3>1, <3>3, <4>1, <4>2, <5>1 DEF Due, Up
        <5> QED
          BY <2>2, <3>1, <5>2 DEF Abstract!Perform, Abstract!Next
      <4>3. CASE srv' # "alive"
        <5>1. ~Up' /\ ~Due'
          BY <4>1, <4>3 DEF Due, Up
        <5> QED
          BY <2>3, <3>1, <4>1, <4>3, <5>1 DEF Abstract!Next
      <4> QED
        BY <4>2, <4>3
    <3>4. CASE link = "down"
      <4>1. answer' = answer
        BY <2>7, <3>4 DEF Server, ServerVersion, ServerOpen, ServerClose, ServerGetbuf,
           ServerFreebuf, ServerSend, ServerEnds, ServerSimple, Refuse, Reply, Say
      <4>2. toServer = <<>> => toServer' = <<>>
        BY <2>7 DEF Server, ServerVersion, ServerOpen, ServerClose, ServerGetbuf,
           ServerFreebuf, ServerSend, ServerEnds, ServerSimple, Handling, Arrived
      <4>3. ~Up' /\ (Due' => Due)
        BY <3>1, <3>4, <4>2 DEF Due, Up
      <4> QED
        BY <2>3, <3>1, <4>1, <4>3 DEF Abstract!Next
    <3> QED
      BY <3>2, <3>3, <3>4
  <2>8. CASE Quit \/ Cut
    <3>1. /\ link' = "down" /\ UNCHANGED <<call, answer, result, srv>>
      BY <2>8 DEF Quit, Cut, client, server
    <3>2. toServer = <<>> => toServer' = <<>>
      <4>1. CASE Cut
        <5>1. ASSUME toServer = <<>>
              PROVE  toServer' = <<>>
          <6>1. PICK n \in 0 .. 0 : toServer' = SubSeq(<<>>, 1, n)
            BY <4>1, <5>1 DEF Cut, Prefix
          <6> QED
            BY <6>1
        <5> QED
          BY <5>1
      <4> QED
        BY <2>8, <4>1 DEF Quit
    <3>3. ~Up' /\ (Due' => Due)
      BY <3>1, <3>2 DEF Due, Up
    <3> QED
      BY <2>3, <3>1, <3>3 DEF Abstract!Next
  <2> QED
    BY <2>1, <2>4, <2>5, <2>6, <2>7, <2>8 DEF Next, Client, Over
<1>3. StepInv /\ TypeInv /\ TypeInv' /\ [Next]_vars => [Abstract!Next]_Abstract!vars
  BY <1>2
<1> QED
  BY <1>1, <1>3, RscsiInvariant, PTL DEF Spec, ImplementsCall, Abstract!Spec
=============================================================================
