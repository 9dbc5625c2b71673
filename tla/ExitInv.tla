------------------------------ MODULE ExitInv ------------------------------
(***************************************************************************)
(* The inductive invariant of ExitHandlers: which calls can be on the      *)
(* stack, what each of them has done by the place it has reached, and what *)
(* pays for another call of comexit().                                     *)
(***************************************************************************)
EXTENDS ExitHandlers

\* The places of a function in which it can be found
InFlight == {"send", "sent", "failed"}
Begun == InFlight \union {"start", "tail", "comerr"}
PlacesOf(fn) ==
    CASE fn = "main" -> {"load", "fork", "grace", "wait", "quit", "intfifo", "term",
                         "write", "fixate", "end"}
      [] fn = "comexit" -> {"loop", "next"}
      [] fn = "excdr" -> {"exscsi", "stats", "kill", "wait"}
      [] fn = "exscsi" -> {"test", "flushed", "restored", "mark"}
      [] fn \in Commands -> {"test"} \union Begun
      [] fn \in Signals -> {"running", "second", "store"}

\* Who calls whom, and where the caller goes on
CallSites ==
    {<<"main", "fork", "lock">>, <<"main", "grace", "speed">>, <<"main", "write", "write">>,
     <<"main", "fixate", "fixate">>, <<"main", "end", "stats">>, <<"main", "quit", "excdr">>,
     <<"comexit", "next", "excdr">>, <<"comexit", "next", "exscsi">>,
     <<"excdr", "stats", "exscsi">>, <<"excdr", "kill", "stats">>,
     <<"exscsi", "flushed", "flush">>, <<"exscsi", "restored", "secsize">>,
     <<"exscsi", "mark", "unlock">>}

(* The first b frames are the calls in progress, each made by the one below  *)
(* it; the handlers of signals stand on top of them.                        *)
Chain(b) ==
    /\ b \in 1 .. Len(stack)
    /\ stack[1].fn \in {"main", "comexit"}
    /\ \A i \in 1 .. b : stack[i].fn \notin Signals
    /\ \A i \in 1 .. b - 1 : <<stack[i].fn, stack[i].at, stack[i + 1].fn>> \in CallSites
    /\ \A i \in b + 1 .. Len(stack) : stack[i].fn \in Signals
    /\ \A i \in 1 .. Len(stack) : stack[i].at \in PlacesOf(stack[i].fn)

Bottom(fn, ats) == stack[1].fn = fn /\ stack[1].at \in ats
Exiting == stack[1].fn = "comexit"
InCmd(b) == stack[b].fn \in Commands

\* The lock is held by the command that runs; only a second interrupt leaves it behind
Lock(b) ==
    /\ ~hard => (running <=> InCmd(b) /\ stack[b].at \in InFlight)
    /\ hard => running /\ Exiting /\ (InCmd(b) => stack[b].at = "test")
    /\ \A i \in b + 1 .. Len(stack) : stack[i].at # "running" => running

Stopped == child \in {"none", "reaped"}
Restored == exflags = 1 \/ hard
\* What the calls have done by the places they have reached
Progress(b) ==
    /\ exfuncs \in {<<>>, <<"exscsi">>, <<"excdr", "exscsi">>}
    /\ Bottom("main", {"load", "fork"}) => exfuncs = <<"exscsi">>
    /\ exfuncs # <<"excdr", "exscsi">> => Stopped
    /\ exfuncs = <<>> => Restored
    /\ Bottom("main", {"quit"}) /\ b = 1 => Stopped /\ Restored
    /\ Bottom("comexit", {"next"}) =>
          /\ exfuncs # <<>>
          /\ IF b = 1 THEN (IF exfuncs[1] = "excdr" THEN Stopped ELSE Restored)
                      ELSE stack[2].fn = exfuncs[1]
    /\ \A i \in 1 .. b : stack[i].fn = "excdr" =>
          /\ stack[i].at = "stats" /\ i = b => Restored
          /\ stack[i].at = "kill" => Restored
          /\ stack[i].at = "wait" => Restored /\ child # "alive"

\* What the commands of exscsi() have done to the drive
Tidy == ~drive.locked /\ ~drive.cached /\ ~drive.sized
Drive(b) ==
    /\ exflags = 1 => Tidy /\ (Exiting \/ Bottom("main", {"quit"}))
    /\ \A i \in 1 .. b : stack[i].fn = "exscsi" =>
          /\ stack[i].at \in {"restored", "mark"} => ~drive.cached
          /\ stack[i].at = "mark" => ~drive.sized
          /\ i = b => CASE stack[i].at = "flushed"  -> ~drive.cached
                        [] stack[i].at = "restored" -> ~drive.sized
                        [] stack[i].at = "mark"     -> ~drive.locked
                        [] OTHER                    -> TRUE
    /\ InCmd(b) /\ stack[b].at \in {"sent", "tail"} =>
          CASE stack[b].fn = "flush"   -> ~drive.cached
            [] stack[b].fn = "secsize" -> ~drive.sized
            [] stack[b].fn = "unlock"  -> ~drive.locked
            [] OTHER                   -> TRUE

(* Each call of comexit() but main's own is paid for by a signal, as long as *)
(* the transport is there: a handler that runs, or one that has left its     *)
(* wish in cb_fun, has still to spend it.                                    *)
Owed(b) == IF cb_fun /\ InCmd(b) /\ stack[b].at \in Begun THEN 1 ELSE 0
Paid(b) ==
    /\ bus = "up" => depth + (Len(stack) - b) + Owed(b) <= sent + (IF Exiting THEN 1 ELSE 0)
    /\ InCmd(b) /\ stack[b].at \in {"failed", "comerr"} => bus = "down"

\* What keeps main from going on after a signal that it catches
Held(b) ==
    caught => \/ Exiting
              \/ Len(stack) > b
              \/ cb_fun /\ InCmd(b) /\ stack[b].at \in Begun
              \/ /\ Bottom("main", {"wait", "quit"})
                 /\ turns > 0 /\ didintr

CallInv(b) == Chain(b) /\ Lock(b) /\ Progress(b) /\ Drive(b) /\ Paid(b) /\ Held(b)
Inv == ExitTypeOK /\ LeavesTidy /\ \E b \in 1 .. Len(stack) : CallInv(b)
=============================================================================
