------------------------------- MODULE Rscsi -------------------------------
(***************************************************************************)
(* Remote SCSI: the client in librscg and the server rscsi, which talk     *)
(* over one connection in each direction.  A stream is a sequence of       *)
(* items: the letter of a request or of a status with its number, a line   *)
(* with a number or a text, or a unit of data.  How many items belong to a *)
(* request or a reply each end works out for itself.                       *)
(***************************************************************************)
EXTENDS Integers, Sequences

CONSTANTS
    Sizes,      \* sizes of the data of a SCSI command
    CdbLen,     \* length of a SCSI command
    MaxDma,     \* largest transfer of the server's drive
    VersionLen, \* length of the server's version string
    SenseLens,  \* lengths of the sense data of a command
    TextLen,    \* length of the extended text of an error, 0 without one
    Faults      \* "link": the connection is lost; "refuse": the server does not
                \* want this caller; "device": it cannot open the drive; "reject":
                \* it may not; "memory": it gets no buffer; "access": it may not
                \* use a target; "drive": the drive's transport fails

ASSUME LengthsAssumption ==
    /\ Sizes \subseteq Nat /\ SenseLens \subseteq Nat
    /\ {CdbLen, MaxDma, VersionLen, TextLen} \subseteq Nat
ASSUME FaultsAssumption ==
    Faults \subseteq {"link", "refuse", "device", "reject", "memory", "access", "drive"}

VARIABLES
    call,     \* the call in progress
    phase,    \* "new", "open" (isopen is TRUE) or "shut"; the client
    fd,       \* has selected a target,
    buf,      \* and has a buffer
    result,   \* what the last call returned, Failed during a call
    ended,    \* the client program has ended
    link,     \* "none", "up", "down"
    toServer, \* items on the way to the server
    toClient, \* items on the way to the client
    srv,      \* "off", "alive", "exited", "crashed"
    dev,      \* scsi_ptr is not NULL
    Sbufsize, \* size of the server's buffer
    answer,   \* history: what the server told the client in this call
    lostsync  \* history: an end took an item for something else

client == <<call, phase, fd, buf, result, ended>>
server == <<srv, dev, Sbufsize, answer>>
vars == <<client, link, toServer, toClient, server, lostsync>>

\* The letters of the requests, and the lines that follow each
Lines == [V |-> 1, O |-> 1, C |-> 1, D |-> 1, M |-> 1, F |-> 1, B |-> 2, T |-> 4,
          I |-> 1, A |-> 1, R |-> 1, S |-> 5]
Ops == DOMAIN Lines

\* A call: its letter; size and direction of the data, if it is a command
Calls == [op : Ops \ {"S", "M"}, size : {0}, recv : {FALSE}]
            \union [op : {"S"}, size : Sizes, recv : BOOLEAN]
            \union [op : {"M"}, size : 1 .. MaxDma, recv : {FALSE}]
NoCall == [op |-> "none", size |-> 0, recv |-> FALSE]

Item(k, v) == [k |-> k, v |-> v]
Data(n) == [i \in 1 .. n |-> Item("data", 0)]
Text(seq) == [i \in 1 .. Len(seq) |-> Item("line", seq[i])]

Failed == [ok |-> FALSE, n |-> 0]
Good(n) == [ok |-> TRUE, n |-> n]
Numbers == {-1, 0, 1, MaxDma, VersionLen} \union Sizes \union (1 .. MaxDma)
Results == {Failed} \union {Good(n) : n \in Numbers}
-----------------------------------------------------------------------------
(* The client.  rscsicmd() and rscsiscmd() send a request in one piece.     *)
Flag(recv) == IF recv THEN 1 ELSE 0
Args(c) ==
    IF c.op = "S" THEN <<c.size, Flag(c.recv), CdbLen, 0, 0>>
                  ELSE [i \in 1 .. Lines[c.op] |-> c.size]
Request(c) ==
    <<Item(c.op, 0)>> \o Text(Args(c))
       \o (IF c.op = "S" THEN Data(CdbLen + (IF c.recv THEN 0 ELSE c.size)) ELSE <<>>)

Init ==
    /\ call = NoCall /\ phase = "new" /\ fd = FALSE /\ buf = FALSE
    /\ result = Failed /\ ended = FALSE
    /\ link = "none" /\ toServer = <<>> /\ toClient = <<>>
    /\ srv = "off" /\ dev = FALSE /\ Sbufsize = 0
    /\ answer = Failed /\ lostsync = FALSE

\* rscsierror(): status, text, length of the extended text
Error(xlen) == <<Item("E", 0), Item("line", 0), Item("line", xlen)>> \o Data(xlen)

(* rscsigetconn() starts the server, which may not want this caller: then it *)
(* says so before it is asked, and exits.                                    *)
Connect ==
    /\ link = "none"
    /\ link' = "up"
    /\ \/ srv' = "alive" /\ toClient' = toClient
       \/ "refuse" \in Faults /\ srv' = "exited" /\ toClient' = Error(TextLen)
    /\ UNCHANGED <<client, toServer, dev, Sbufsize, answer, lostsync>>

Lasts == link = "up" /\ srv = "alive"

(* The calls of libscg's users: the drive is opened once and its target      *)
(* selected; commands need a target and, in all programs here, a buffer.     *)
(* After the connection is lost a request goes nowhere.                    *)
May(c) ==
    /\ phase = IF c.op = "O" THEN "new" ELSE "open"
    /\ c.op = "S" => fd /\ buf
    /\ c.op = "F" => buf
    /\ c.op = "M" => ~buf
Ask(c) ==
    /\ call = NoCall /\ ~ended /\ link # "none" /\ May(c)
    /\ call' = c
    /\ buf' = (buf /\ c.op # "F")
    /\ toServer' = IF Lasts THEN toServer \o Request(c) ELSE toServer
    /\ result' = Failed
    /\ UNCHANGED <<phase, fd, ended, link, toClient, server, lostsync>>

(* rscsigetstatus() and the rest of each call: items that belong to the      *)
(* reply at the head of s, as far as they can be told.                       *)
Has(s, i) == Len(s) >= i
Needed(c, s) ==
    CASE ~Has(s, 1) -> 1
      [] Has(s, 1) /\ s[1].k = "E" -> IF Has(s, 3) THEN 3 + s[3].v ELSE 3
      [] Has(s, 1) /\ s[1].k # "E" ->
            CASE c.op = "V" -> 1 + s[1].v
              [] c.op = "O" -> 5
              [] c.op = "S" -> IF Has(s, 5)
                               THEN 5 + s[5].v + (IF c.recv THEN s[1].v ELSE 0)
                               ELSE 5
              [] OTHER -> 1
Complete == Has(toClient, Needed(call, toClient))
Eof == link = "down" \/ srv \notin {"off", "alive"}
Misread(c, s) ==
    \/ s[1].k \notin {"A", "E"}
    \/ s[1].k = "A" /\ c.op \in {"O", "S"} /\ \E i \in 2 .. 5 : s[i].k # "line"
    \/ s[1].k = "E" /\ (s[2].k # "line" \/ s[3].k # "line")

\* What a call leaves behind in the client
Finish(r) ==
    /\ result' = r /\ call' = NoCall /\ answer' = Failed
    /\ phase' = CASE call.op = "O" -> IF r.ok THEN "open" ELSE "shut"
                  [] call.op = "C" -> "shut"
                  [] OTHER -> phase
    /\ fd' = IF call.op = "T" THEN r.ok /\ r.n >= 0 ELSE fd
    /\ buf' = IF call.op = "M" THEN r.ok ELSE buf
    /\ link' = IF call.op = "C" THEN "down" ELSE link
    /\ UNCHANGED <<ended, srv, dev, Sbufsize>>
\* Mutated: the status letter is not looked at
ReturnAnyStatus ==
    /\ call # NoCall /\ Complete
    /\ LET s == toClient IN
       /\ Finish(Good(s[1].v))
       /\ lostsync' = (lostsync \/ (link = "up" /\ Misread(call, s)))
       /\ toClient' = SubSeq(s, Needed(call, s) + 1, Len(s))
    /\ UNCHANGED toServer
Return ==
    /\ call # NoCall /\ Complete
    /\ LET s == toClient IN
       /\ Finish(IF s[1].k = "A" THEN Good(s[1].v) ELSE Failed)
       /\ lostsync' = (lostsync \/ (link = "up" /\ Misread(call, s)))
       /\ toClient' = SubSeq(s, Needed(call, s) + 1, Len(s))
    /\ UNCHANGED toServer

(* At the end of the stream rscsigetline()'s failure is not looked at: the   *)
(* status and the numbers are what an earlier call left in the buffer.       *)
ReturnStale ==
    /\ call # NoCall /\ ~Complete /\ Eof
    /\ IF Has(toClient, 1)
       THEN Finish(IF toClient[1].k = "A" THEN Good(toClient[1].v) ELSE Failed)
       ELSE \E r \in Results : Finish(r)
    /\ toClient' = <<>>
    /\ UNCHANGED <<toServer, lostsync>>

\* The program ends, also when the drive could not be opened
Quit ==
    /\ call = NoCall /\ ~ended /\ link # "none"
    /\ ended' = TRUE /\ link' = "down"
    /\ UNCHANGED <<call, phase, fd, buf, result, toServer, toClient, server, lostsync>>
-----------------------------------------------------------------------------
(* The server: dorscsi() calls a handler, which reads its arguments and      *)
(* writes one reply.                                                         *)
Value(i) == toServer[1 + i].v
\* Mutated: a command that does not fit is refused without reading its data
ConsumedNoVoid(op) ==
    1 + Lines[op] + (IF op = "S" /\ Has(toServer, 6)
                     THEN Value(3) + (IF Value(2) = 1 \/ Value(1) > Sbufsize
                                      THEN 0 ELSE Value(1)) ELSE 0)
Consumed(op) ==
    1 + Lines[op] + (IF op = "S" /\ Has(toServer, 6)
                     THEN Value(3) + (IF Value(2) = 1 THEN 0 ELSE Value(1)) ELSE 0)
Arrived == /\ toServer # <<>> /\ toServer[1].k \in Ops
           /\ Has(toServer, Consumed(toServer[1].k))
Handling(op) == srv = "alive" /\ Arrived /\ toServer[1].k = op
Read(op) ==
    /\ toServer' = SubSeq(toServer, Consumed(op) + 1, Len(toServer))
    /\ lostsync' = (lostsync \/ (/\ link = "up"
                                 /\ \E i \in 1 .. Lines[op] : toServer[1 + i].k # "line"))
\* A reply written after the connection was lost goes nowhere
Say(items, told) ==
    IF link = "up" THEN toClient' = toClient \o items /\ answer' = told
                   ELSE UNCHANGED <<toClient, answer>>
Reply(n) == Say(<<Item("A", n)>>, Good(n))
Refuse == Say(Error(0), Failed)

\* The requests that only ask, with what they may return
Simple == [D |-> {MaxDma}, B |-> {0, 1}, I |-> {1}, A |-> {0, 1}, R |-> {0}, T |-> {0}]
ServerSimple(op) ==
    /\ Handling(op) /\ Read(op)
    /\ \/ dev /\ \E n \in Simple[op] : Reply(n)
       \/ dev /\ op = "T" /\ "access" \in Faults /\ Reply(-1)
       \/ /\ ~dev \/ (op \in {"T", "I", "A", "R"} /\ "access" \in Faults)
          /\ Refuse
    /\ UNCHANGED <<client, link, srv, dev, Sbufsize>>

ServerVersion ==
    /\ Handling("V") /\ Read("V")
    /\ IF dev THEN Say(<<Item("A", VersionLen)>> \o Data(VersionLen), Good(VersionLen))
              ELSE Refuse
    /\ UNCHANGED <<client, link, srv, dev, Sbufsize>>

(* openscsi(): a device that is rejected, unlike one that cannot be opened,  *)
(* leaves "ret" at 0; the reply is then made from the NULL pointer.          *)
ServerOpen ==
    /\ Handling("O") /\ Read("O")
    /\ \/ dev' = TRUE /\ srv' = srv
          /\ Say(<<Item("A", 0)>> \o Text(<<0, 0, 0, 0>>), Good(0))
       \/ "device" \in Faults /\ dev' = FALSE /\ srv' = srv
          /\ Say(Error(TextLen), Failed)
       \/ "reject" \in Faults /\ dev' = FALSE /\ srv' = "crashed"
          /\ UNCHANGED <<toClient, answer>>
    /\ UNCHANGED <<client, link, Sbufsize>>

ServerClose ==
    /\ Handling("C") /\ Read("C")
    /\ dev' = FALSE
    /\ Reply(0)
    /\ UNCHANGED <<client, link, srv, Sbufsize>>

\* Mutated: preparebuffer() leaves its failure in the size
ServerGetbufNoReset ==
    /\ Handling("M") /\ Read("M")
    /\ \/ dev /\ Sbufsize' = Value(1) /\ Reply(Value(1))
       \/ /\ "memory" \in Faults /\ Sbufsize' = -1
          /\ Refuse
    /\ UNCHANGED <<client, link, srv, dev>>
\* getbuf() with preparebuffer(), and freebuf(), which keeps Sbufsize
ServerGetbuf ==
    /\ Handling("M") /\ Read("M")
    /\ \/ dev /\ Sbufsize' = Value(1) /\ Reply(Value(1))
       \/ /\ ~dev \/ "memory" \in Faults
          /\ Sbufsize' = IF dev THEN 0 ELSE Sbufsize
          /\ Refuse
    /\ UNCHANGED <<client, link, srv, dev>>
ServerFreebuf ==
    /\ Handling("F") /\ Read("F")
    /\ IF dev THEN Reply(0) ELSE Refuse
    /\ UNCHANGED <<client, link, srv, dev, Sbufsize>>

Fits == dev /\ Value(1) <= Sbufsize
\* Mutated: a command that does not fit is dropped without a reply
ServerSendMute ==
    /\ Handling("S") /\ Read("S")
    /\ \/ ~Fits /\ UNCHANGED <<toClient, answer>> /\ srv' = srv
       \/ /\ Fits /\ srv' = srv
          /\ \E n \in {m \in Sizes : m <= Value(1)}, sense \in SenseLens :
                Say(<<Item("A", n)>> \o Text(<<0, 0, 0, sense>>) \o Data(sense)
                       \o Data(IF Value(2) = 1 THEN n ELSE 0), Good(n))
       \/ Fits /\ "drive" \in Faults /\ srv' = "exited"
          /\ UNCHANGED <<toClient, answer>>
    /\ UNCHANGED <<client, link, dev, Sbufsize>>

(* sendcmd(): a command that does not fit is read and dropped; else the      *)
(* drive gets it, and transfers n units or fails altogether, which ends the  *)
(* server in scg_cmd().                                                      *)
ServerSend ==
    /\ Handling("S") /\ Read("S")
    /\ \/ ~Fits /\ Refuse /\ srv' = srv
       \/ /\ Fits /\ srv' = srv
          /\ \E n \in {m \in Sizes : m <= Value(1)}, sense \in SenseLens :
                Say(<<Item("A", n)>> \o Text(<<0, 0, 0, sense>>) \o Data(sense)
                       \o Data(IF Value(2) = 1 THEN n ELSE 0), Good(n))
       \/ Fits /\ "drive" \in Faults /\ srv' = "exited"
          /\ UNCHANGED <<toClient, answer>>
    /\ UNCHANGED <<client, link, dev, Sbufsize>>

\* The end of the requests, in the middle of one too, or garbage for a letter
ServerEnds ==
    /\ srv = "alive" /\ ~Arrived
    /\ link = "up" => toServer # <<>> /\ toServer[1].k \notin Ops
    /\ srv' = "exited"
    /\ toServer' = <<>>
    /\ Refuse
    /\ lostsync' = (lostsync \/ link = "up")
    /\ UNCHANGED <<client, link, dev, Sbufsize>>

Server == ServerVersion \/ ServerOpen \/ ServerClose \/ ServerGetbuf \/ ServerFreebuf
             \/ ServerSend \/ ServerEnds
             \/ \E op \in DOMAIN Simple : ServerSimple(op)
Client == Connect \/ (\E c \in Calls : Ask(c)) \/ Return \/ ReturnStale

\* The connection is lost with whatever was on its way
Prefix(s, n) == SubSeq(s, 1, n)
Cut ==
    /\ link = "up" /\ "link" \in Faults
    /\ link' = "down"
    /\ \E n \in 0 .. Len(toServer) : toServer' = Prefix(toServer, n)
    /\ \E n \in 0 .. Len(toClient) : toClient' = Prefix(toClient, n)
    /\ UNCHANGED <<client, server, lostsync>>
Over == ended /\ srv # "alive" /\ UNCHANGED vars

Next == Client \/ Server \/ Quit \/ Cut \/ Over
Spec == Init /\ [][Next]_vars
\* Both processes run on; a command to the drive returns
FairSpec == Spec /\ WF_vars(Return \/ ReturnStale) /\ WF_vars(Server)
-----------------------------------------------------------------------------
(* Properties                                                              *)

Items == [k : Ops \union {"line", "data", "E"}, v : Int]
RscsiTypeOK ==
    /\ call \in Calls \union {NoCall}
    /\ phase \in {"new", "open", "shut"}
    /\ {fd, buf, ended, dev, lostsync} \subseteq BOOLEAN
    /\ {result, answer} \subseteq Results
    /\ link \in {"none", "up", "down"}
    /\ toServer \in Seq(Items) /\ toClient \in Seq(Items)
    /\ srv \in {"off", "alive", "exited", "crashed"}
    /\ Sbufsize \in Nat

(* While the connection lasts the two ends agree where each message ends:   *)
(* between two calls nothing is left in either direction, during a call     *)
(* there is either its whole request or exactly its reply, and no end takes *)
(* an item for something else.  This holds for every error reply too, and   *)
(* for commands that the server reads only to drop them.                    *)
InStep ==
    /\ ~lostsync
    /\ Lasts /\ call = NoCall => toServer = <<>> /\ toClient = <<>>
    /\ Lasts /\ call # NoCall =>
          \/ toServer = Request(call) /\ toClient = <<>>
          \/ /\ toServer = <<>> /\ toClient # <<>>
             /\ Len(toClient) = Needed(call, toClient)

(* Client and server together are a remote call: each call is carried out   *)
(* at most once and returns the answer of this call, until the connection   *)
(* is lost, after which its result means nothing.                           *)
Due == toServer # <<>> /\ srv = "alive"
Up == link # "down" /\ srv \in {"off", "alive"}
Abstract == INSTANCE RemoteCall WITH Answers <- Results, None <- Failed, due <- Due, up <- Up
ImplementsCall == Abstract!Spec

(* A call returns, whatever becomes of the server and the connection.       *)
CallsReturn == [](call # NoCall => <>(call = NoCall))
=============================================================================
