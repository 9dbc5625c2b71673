---------------------------- MODULE ExitHandlers ----------------------------
(***************************************************************************)
(* How cdrecord ends: main from the installation of the first exit handler *)
(* on, the handlers that comexit() calls, the signal handlers, and         *)
(* scg_cmd(), in which most signals arrive.  There is one thread; what     *)
(* makes it hard is that a signal can push a call on any point of the      *)
(* stack, and that the exit handlers issue SCSI commands themselves.       *)
(***************************************************************************)
EXTENDS Naturals, Sequences, SequencesExt

CONSTANTS
    GraceTime,  \* turns of the loop that gives a last chance to quit
    Writes,     \* write commands of a burn
    MaxSignals, \* bound on the signals that arrive
    MaxDepth,   \* nested calls of comexit() that fit on the stack
    Faults      \* "bus": the drive's transport goes away for good;
                \* "drive": it answers a command with an error

ASSUME BoundsAssumption ==
    {GraceTime, Writes, MaxDepth} \subseteq Nat \ {0} /\ MaxSignals \in Nat
\* The stack has room for one call of comexit() more than signals arrive
ASSUME StackAssumption == MaxSignals < MaxDepth
ASSUME FaultsAssumption == Faults \subseteq {"bus", "drive"}

Signals == {"INT", "TERM"}

VARIABLES
    stack,      \* the calls in progress, each with the place it has reached,
                \* without those below comexit(), which never returns
    depth,      \* nested calls of comexit()
    masked,     \* signals blocked by a handler that called comexit()
    exfuncs,    \* handlers that comexit() has still to call
    exflags,    \* set at the end of exscsi()
    running,    \* scgp->running
    cb_fun,     \* scgp->cb_fun is scsi_cb
    disp,       \* disposition of each signal
    resets,     \* signal() is that of System V: delivery resets it
    turns,      \* turns of the grace loop to go
    didintr,    \* set by intr()
    left,       \* write commands to go
    did_stat,   \* RF_DID_CDRSTAT
    child,      \* the FIFO process: "none", "alive", "killed", "reaped"
    drive,      \* locked: no removal; cached: data in the write cache;
                \* sized: its sector size is the one set for writing
    bus,        \* "up" or "down"
    sent,       \* signals so far
    hard,       \* history: a second interrupt ended the program at once
    caught,     \* history: intfifo() was called, or intr() in the grace time
    outcome     \* "running", "exited", "quit", "killed", "aborted", "crashed"

vars == <<stack, depth, masked, exfuncs, exflags, running, cb_fun, disp, resets, turns, didintr,
          left, did_stat, child, drive, bus, sent, hard, caught, outcome>>
flags == <<exfuncs, exflags, disp, turns, didintr, left, did_stat, child, outcome>>
program == <<depth, masked, flags>>
transport == <<running, cb_fun, drive, bus>>
environment == <<resets, sent, hard, caught>>

Frame(fn, at) == [fn |-> fn, at |-> at]
At(fn, at) == outcome = "running" /\ Last(stack) = Frame(fn, at)
Goto(at) == stack' = Append(Front(stack), Frame(Last(stack).fn, at))
\* Call f, and go on at "at" when it returns
Call(f, at) == stack' = Front(stack) \o <<Frame(Last(stack).fn, at), f>>
Return == stack' = Front(stack)

Handling == Signals \intersect {stack[i].fn : i \in DOMAIN stack}
CallComexit ==
    /\ stack' = <<Frame("comexit", "loop")>>
    /\ depth' = depth + 1
    /\ masked' = masked \union (IF resets THEN {} ELSE Handling)
    /\ UNCHANGED flags
Command(what) == Frame(what, "test")
Commands == {"lock", "speed", "write", "fixate", "flush", "secsize", "unlock", "stats"}
-----------------------------------------------------------------------------
Init ==
    /\ stack = <<Frame("main", "load")>> /\ depth = 0 /\ masked = {}
    /\ exfuncs = <<"exscsi">> /\ exflags = 0
    /\ running = FALSE /\ cb_fun = FALSE
    /\ disp = [s \in Signals |-> "default"] /\ resets \in BOOLEAN
    /\ turns = GraceTime /\ didintr = FALSE /\ left = Writes
    /\ did_stat = FALSE /\ child = "none"
    /\ drive = [locked |-> FALSE, cached |-> FALSE, sized |-> TRUE] /\ bus = "up"
    /\ sent = 0 /\ hard = FALSE /\ caught = FALSE /\ outcome = "running"

\* main: load_media(), then init_faio() with its exit handler, or no FIFO
Load ==
    /\ At("main", "load")
    /\ Call(Command("lock"), "fork")
    /\ UNCHANGED <<program, transport, environment>>
Fork ==
    /\ At("main", "fork")
    /\ \/ child' = "alive" /\ exfuncs' = <<"excdr">> \o exfuncs
       \/ UNCHANGED <<child, exfuncs>>
    /\ Call(Command("speed"), "grace")
    /\ UNCHANGED <<depth, masked, exflags, disp, turns, didintr, left, did_stat, outcome,
                   transport, environment>>

\* An error of a command makes main give up, from speed setting to the burn
GiveUp ==
    /\ At("main", "grace") \/ At("main", "write") \/ At("main", "fixate")
    /\ "drive" \in Faults
    /\ CallComexit
    /\ UNCHANGED <<transport, environment>>

Grace ==
    /\ At("main", "grace")
    /\ disp' = [disp EXCEPT !["INT"] = "intr"]
    /\ Goto("wait")
    /\ UNCHANGED <<depth, masked, exfuncs, exflags, turns, didintr, left, did_stat, child, outcome,
                   transport, environment>>

\* Mutated: the loop turns once too often
WaitOnceMore ==
    /\ At("main", "wait") /\ ~didintr
    /\ turns' = turns - 1
    /\ UNCHANGED <<stack, depth, masked, exfuncs, exflags, disp, didintr, left,
                   did_stat, child, outcome, transport, environment>>
\* One turn of the grace loop: an interrupt noted so far ends the program
Wait ==
    /\ At("main", "wait") /\ turns > 0 /\ ~didintr
    /\ turns' = turns - 1
    /\ UNCHANGED <<stack, depth, masked, exfuncs, exflags, disp, didintr, left, did_stat, child,
                   outcome, transport, environment>>
Quit ==
    /\ At("main", "wait") /\ turns > 0 /\ didintr
    /\ Call(Frame("excdr", "exscsi"), "quit")
    /\ UNCHANGED <<program, transport, environment>>
KillSelf ==
    /\ At("main", "quit")
    /\ disp' = [disp EXCEPT !["INT"] = "default"] /\ outcome' = "quit"
    /\ UNCHANGED <<stack, depth, masked, exfuncs, exflags, turns, didintr, left, did_stat, child,
                   transport, environment>>

\* The three calls of signal() before the burn
Install(at, sig, handler, next) ==
    /\ At("main", at)
    /\ disp' = [disp EXCEPT ![sig] = handler]
    /\ Goto(next)
    /\ UNCHANGED <<depth, masked, exfuncs, exflags, turns, didintr, left, did_stat, child, outcome,
                   transport, environment>>
NoMoreGrace ==
    /\ turns = 0
    /\ Install("wait", "INT", "default", "intfifo")
Handlers ==
    \/ Install("intfifo", "INT", "intfifo", "term")
    \/ Install("term", "TERM", "intfifo", "write")

\* The commands of the burn, the last statistics, and the regular end
Write ==
    /\ At("main", "write")
    /\ IF left > 0 THEN left' = left - 1 /\ Call(Command("write"), "write")
                   ELSE UNCHANGED left /\ Call(Command("fixate"), "fixate")
    /\ UNCHANGED <<depth, masked, exfuncs, exflags, disp, turns, didintr, did_stat, child, outcome,
                   transport, environment>>
\* cdr_stats() once; it asks the drive only if BURN-Free is in use
Stats(fn, at, next) ==
    /\ At(fn, at)
    /\ did_stat' = TRUE
    /\ \/ ~did_stat /\ Call(Command("stats"), next)
       \/ Goto(next)
    /\ UNCHANGED <<depth, masked, exfuncs, exflags, disp, turns, didintr, left, child, outcome,
                   transport, environment>>
End ==
    /\ At("main", "end")
    /\ CallComexit
    /\ UNCHANGED <<transport, environment>>

Main == Load \/ Fork \/ GiveUp \/ Grace \/ Wait \/ Quit \/ KillSelf \/ NoMoreGrace
            \/ Handlers \/ Write \/ Stats("main", "fixate", "end") \/ End
-----------------------------------------------------------------------------
(* comexit(): the list moves on only after its head has returned.          *)
CallHandler ==
    /\ At("comexit", "loop") /\ exfuncs # <<>>
    /\ Call(Frame(Head(exfuncs), IF Head(exfuncs) = "excdr" THEN "exscsi" ELSE "test"),
            "next")
    /\ UNCHANGED <<program, transport, environment>>
\* Mutated: the list of handlers does not move on
NextHandlerSame ==
    /\ At("comexit", "next")
    /\ Goto("loop")
    /\ UNCHANGED <<program, transport, environment>>
NextHandler ==
    /\ At("comexit", "next")
    /\ exfuncs' = Tail(exfuncs)
    /\ Goto("loop")
    /\ UNCHANGED <<depth, masked, exflags, disp, turns, didintr, left, did_stat, child, outcome,
                   transport, environment>>
Exit ==
    /\ At("comexit", "loop") /\ exfuncs = <<>>
    /\ outcome' = "exited"
    /\ UNCHANGED <<stack, depth, masked, exfuncs, exflags, disp, turns, didintr, left, did_stat,
                   child, transport, environment>>

\* excdr(): exscsi(), the statistics, then kill_faio() and wait_faio()
CallExscsi ==
    /\ At("excdr", "exscsi")
    /\ Call(Frame("exscsi", "test"), "stats")
    /\ UNCHANGED <<program, transport, environment>>
KillFaio ==
    /\ At("excdr", "kill")
    /\ child' = IF child = "alive" THEN "killed" ELSE child
    /\ Goto("wait")
    /\ UNCHANGED <<depth, masked, exfuncs, exflags, disp, turns, didintr, left, did_stat, outcome,
                   transport, environment>>
WaitFaio ==
    /\ At("excdr", "wait")
    /\ child' = IF child = "none" THEN "none" ELSE "reaped"
    /\ Return
    /\ UNCHANGED <<depth, masked, exfuncs, exflags, disp, turns, didintr, left, did_stat, outcome,
                   transport, environment>>

\* exscsi(): three commands, unless they were completed or one is running
Skip ==
    /\ At("exscsi", "test") /\ (exflags > 0 \/ running)
    /\ Return
    /\ UNCHANGED <<program, transport, environment>>
\* Mutated: exflags is set before the commands instead of behind them
RestoreMarked ==
    /\ \/ At("exscsi", "test") /\ exflags = 0 /\ ~running /\ Call(Command("flush"), "flushed")
       \/ At("exscsi", "flushed") /\ Call(Command("secsize"), "restored")
       \/ At("exscsi", "restored") /\ Call(Command("unlock"), "mark")
    /\ exflags' = 1
    /\ UNCHANGED <<depth, masked, exfuncs, disp, turns, didintr, left, did_stat, child,
                   outcome, transport, environment>>
Restore ==
    /\ \/ At("exscsi", "test") /\ exflags = 0 /\ ~running /\ Call(Command("flush"), "flushed")
       \/ At("exscsi", "flushed") /\ Call(Command("secsize"), "restored")
       \/ At("exscsi", "restored") /\ Call(Command("unlock"), "mark")
    /\ UNCHANGED <<program, transport, environment>>
Mark ==
    /\ At("exscsi", "mark")
    /\ exflags' = 1
    /\ Return
    /\ UNCHANGED <<depth, masked, exfuncs, disp, turns, didintr, left, did_stat, child, outcome,
                   transport, environment>>

ExitHandler == CallHandler \/ NextHandler \/ Exit \/ CallExscsi
                  \/ Stats("excdr", "stats", "kill") \/ KillFaio \/ WaitFaio
                  \/ Skip \/ Restore \/ Mark
-----------------------------------------------------------------------------
(* scg_cmd().  A command that finds another one running aborts the program. *)
InCommand(at) == \E c \in Commands : At(c, at)
AlreadyRunning ==
    /\ InCommand("test") /\ running
    /\ outcome' = "aborted"
    /\ UNCHANGED <<stack, depth, masked, exfuncs, exflags, disp, turns, didintr, left, did_stat,
                   child, transport, environment>>
ClearCallback ==
    /\ InCommand("test") /\ ~running
    /\ cb_fun' = FALSE
    /\ Goto("start")
    /\ UNCHANGED <<program, running, drive, bus, environment>>
SetRunning ==
    /\ InCommand("start")
    /\ running' = TRUE
    /\ Goto("send")
    /\ UNCHANGED <<program, cb_fun, drive, bus, environment>>

Effect(what) ==
    CASE what = "lock"    -> [drive EXCEPT !.locked = TRUE]
      [] what = "write"   -> [drive EXCEPT !.cached = TRUE]
      [] what = "flush"   -> [drive EXCEPT !.cached = FALSE]
      [] what = "secsize" -> [drive EXCEPT !.sized = FALSE]
      [] what = "unlock"  -> [drive EXCEPT !.locked = FALSE]
      [] OTHER            -> drive
Send ==
    /\ InCommand("send")
    /\ bus' \in {bus} \union (IF "bus" \in Faults THEN {"down"} ELSE {})
    /\ IF bus' = "up" THEN drive' = Effect(Last(stack).fn) /\ Goto("sent")
                      ELSE drive' = drive /\ Goto("failed")
    /\ UNCHANGED <<program, running, cb_fun, environment>>
ClearRunning ==
    /\ InCommand("sent") \/ InCommand("failed")
    /\ running' = FALSE
    /\ Goto(IF Last(stack).at = "sent" THEN "tail" ELSE "comerr")
    /\ UNCHANGED <<program, cb_fun, drive, bus, environment>>
\* Mutated: the callback is not looked at
CommandEndsDeaf ==
    /\ InCommand("tail")
    /\ Return
    /\ UNCHANGED <<program, transport, environment>>
\* scsi_cb() and comerr() lead to comexit()
CommandEnds ==
    /\ InCommand("tail") /\ ~cb_fun
    /\ Return
    /\ UNCHANGED <<program, transport, environment>>
CommandExits ==
    /\ InCommand("comerr") \/ (InCommand("tail") /\ cb_fun)
    /\ CallComexit
    /\ UNCHANGED <<transport, environment>>

ScgCmd == AlreadyRunning \/ ClearCallback \/ SetRunning \/ Send \/ ClearRunning
             \/ CommandEnds \/ CommandExits
-----------------------------------------------------------------------------
(* Signals.  While a handler runs its signal is blocked, unless delivery    *)
(* resets the disposition instead; intr() installs itself again.            *)
Blocked(sig) == sig \in masked \/ (~resets /\ sig \in Handling)
Deliver(sig) ==
    /\ outcome = "running" /\ sent < MaxSignals /\ ~Blocked(sig)
    /\ depth <= MaxDepth
    /\ sent' = sent + 1
    /\ CASE disp[sig] = "default" ->
              outcome' = "killed" /\ UNCHANGED <<stack, disp, didintr, caught>>
         [] disp[sig] = "intr" ->
              /\ didintr' = TRUE
              /\ caught' = (caught \/ (turns > 0 /\ At("main", "wait")))
              /\ UNCHANGED <<stack, disp, outcome>>
         [] disp[sig] = "intfifo" ->
              /\ stack' = Append(stack, Frame(sig, "running"))
              /\ disp' = IF resets THEN [disp EXCEPT ![sig] = "default"] ELSE disp
              /\ caught' = TRUE
              /\ UNCHANGED <<didintr, outcome>>
    /\ UNCHANGED <<depth, masked, exfuncs, exflags, turns, left, did_stat, child, transport,
                   resets, hard>>

\* intfifo(), one test or store at a time
InHandler(at) == \E s \in Signals : At(s, at)
LetRun ==
    /\ InHandler("running") /\ running
    /\ Goto("second")
    /\ UNCHANGED <<program, transport, environment>>
ExitAtOnce ==
    /\ \/ InHandler("running") /\ ~running /\ hard' = hard
       \/ InHandler("second") /\ cb_fun /\ hard' = TRUE
    /\ CallComexit
    /\ UNCHANGED <<transport, resets, sent, caught>>
First ==
    /\ InHandler("second") /\ ~cb_fun
    /\ Goto("store")
    /\ UNCHANGED <<program, transport, environment>>
SetCallback ==
    /\ InHandler("store")
    /\ cb_fun' = TRUE
    /\ Return
    /\ UNCHANGED <<program, running, drive, bus, environment>>

Handler == LetRun \/ ExitAtOnce \/ First \/ SetCallback

\* Calls without end exhaust the stack
Overflow ==
    /\ outcome = "running" /\ depth > MaxDepth
    /\ outcome' = "crashed"
    /\ UNCHANGED <<stack, depth, masked, exfuncs, exflags, disp, turns, didintr, left, did_stat,
                   child, transport, environment>>

Step == (depth <= MaxDepth /\ (Main \/ ExitHandler \/ ScgCmd \/ Handler)) \/ Overflow
Over == outcome # "running" /\ UNCHANGED vars
Next == Step \/ (\E sig \in Signals : Deliver(sig)) \/ Over

Spec == Init /\ [][Next]_vars
\* The program runs on; a command to the drive returns
FairSpec == Spec /\ WF_vars(Step)
-----------------------------------------------------------------------------
(* Properties                                                              *)

Places == {"load", "fork", "grace", "wait", "quit", "intfifo", "term", "write",
           "fixate", "end", "loop", "next", "exscsi", "stats", "kill", "test",
           "flushed", "restored", "mark", "start", "send", "sent", "failed", "tail",
           "comerr", "running", "second", "store"}
ExitTypeOK ==
    /\ stack \in Seq([fn : {"main", "comexit", "excdr", "exscsi"} \union Commands
                              \union Signals, at : Places])
    /\ stack # <<>> /\ depth \in 0 .. MaxDepth + 1 /\ masked \subseteq Signals
    /\ exfuncs \in Seq({"excdr", "exscsi"}) /\ exflags \in {0, 1}
    /\ {running, cb_fun, resets, didintr, did_stat, hard, caught} \subseteq BOOLEAN
    /\ disp \in [Signals -> {"default", "intr", "intfifo"}]
    /\ turns \in 0 .. GraceTime /\ left \in 0 .. Writes /\ sent \in 0 .. MaxSignals
    /\ child \in {"none", "alive", "killed", "reaped"}
    /\ drive \in [locked : BOOLEAN, cached : BOOLEAN, sized : BOOLEAN]
    /\ bus \in {"up", "down"}
    /\ outcome \in {"running", "exited", "quit", "killed", "aborted", "crashed"}

(* However the exit handlers are interrupted and entered again: a program   *)
(* that exits, or quits in the grace time, has stopped the FIFO process,    *)
(* and the drive has got its cache flushed, its sector size and its door    *)
(* back.  Only a second interrupt during a command leaves the drive as it   *)
(* is; only then can a command be issued while another one runs, which      *)
(* aborts the program.  The stack overflows only for want of the transport. *)
LeavesTidy ==
    /\ outcome \in {"exited", "quit"} => child \in {"none", "reaped"}
    /\ outcome \in {"exited", "quit"} /\ ~hard =>
          ~drive.locked /\ ~drive.cached /\ ~drive.sized
    /\ outcome = "aborted" => hard
    /\ outcome = "crashed" => bus = "down"

(* After a signal that the program catches, in the grace time or later, it  *)
(* starts no further write command.  (An interrupt between the last test of *)
(* the grace loop and the call of signal() behind it is lost.)              *)
NoNewWrite == [][caught => left' = left]_vars

(* The program comes to an end, whenever signals arrive and the transport   *)
(* goes away: no order of handler calls makes it run for ever.              *)
Ends == <>(outcome # "running")
=============================================================================
