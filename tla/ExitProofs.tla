----------------------------- MODULE ExitProofs -----------------------------
(***************************************************************************)
(* That cdrecord leaves the drive and the FIFO process in order however it *)
(* is interrupted, and starts no write command after an interrupt, for     *)
(* every number of write commands, signals and nested calls.               *)
(***************************************************************************)
EXTENDS ExitInv, SequenceTheorems, TLAPS

FrameNames == {"main", "comexit", "excdr", "exscsi"} \union Commands \union Signals
Frames == [fn : FrameNames, at : Places]

(* What the model's operations on the stack do to its frames.              *)
LEMMA StackSteps ==
    ASSUME stack \in Seq(Frames), stack # <<>>
    PROVE  /\ Len(stack) \in Nat \ {0} /\ Last(stack) = stack[Len(stack)]
           /\ \A i \in 1 .. Len(stack) : stack[i] \in Frames
           /\ \A at \in Places : Goto(at) =>
                 /\ stack' \in Seq(Frames) /\ Len(stack') = Len(stack)
                 /\ stack'[Len(stack)] = Frame(stack[Len(stack)].fn, at)
                 /\ \A i \in 1 .. Len(stack) - 1 : stack'[i] = stack[i]
           /\ \A at \in Places, f \in Frames : Call(f, at) =>
                 /\ stack' \in Seq(Frames) /\ Len(stack') = Len(stack) + 1
                 /\ stack'[Len(stack) + 1] = f
                 /\ stack'[Len(stack)] = Frame(stack[Len(stack)].fn, at)
                 /\ \A i \in 1 .. Len(stack) - 1 : stack'[i] = stack[i]
           /\ Return =>
                 /\ stack' \in Seq(Frames) /\ Len(stack') = Len(stack) - 1
                 /\ \A i \in 1 .. Len(stack) - 1 : stack'[i] = stack[i]
           /\ \A f \in Frames : stack' = Append(stack, f) =>
                 /\ stack' \in Seq(Frames) /\ Len(stack') = Len(stack) + 1
                 /\ stack'[Len(stack) + 1] = f
                 /\ \A i \in 1 .. Len(stack) : stack'[i] = stack[i]
           /\ CallComexit =>
                 /\ stack' \in Seq(Frames) /\ Len(stack') = 1
                 /\ stack'[1] = Frame("comexit", "loop")
<1> DEFINE n == Len(stack)
           L == Front(stack)
<1>1. n \in Nat \ {0} /\ Last(stack) = stack[n] /\ \A i \in 1 .. n : stack[i] \in Frames
  BY EmptySeq DEF Last
<1>2. /\ L \in Seq(Frames) /\ Len(L) = n - 1
      /\ \A i \in 1 .. n - 1 : L[i] = stack[i]
  <2>1. /\ L = SubSeq(stack, 1, n - 1) /\ 1 \in 1 .. n - 1 + 1 /\ n - 1 \in 1 - 1 .. n
    BY <1>1 DEF Front
  <2>2. n = Len(stack)
    OBVIOUS
  <2> HIDE DEF n, L
  <2> QED
    BY <1>1, <2>1, <2>2, SubSeqProperties
<1>3. stack[n].fn \in FrameNames /\ \A fn \in FrameNames, at \in Places : Frame(fn, at) \in Frames
  BY <1>1 DEF Frames, Frame
<1> HIDE DEF n, L
<1>4. ASSUME NEW s \in Seq(Frames), NEW f \in Frames
      PROVE  /\ Append(s, f) \in Seq(Frames) /\ Len(Append(s, f)) = Len(s) + 1
             /\ Append(s, f)[Len(s) + 1] = f
             /\ \A i \in 1 .. Len(s) : Append(s, f)[i] = s[i]
  BY AppendProperties
<1>5. ASSUME NEW at \in Places, Goto(at)
      PROVE  /\ stack' \in Seq(Frames) /\ Len(stack') = n
             /\ stack'[n] = Frame(stack[n].fn, at)
             /\ \A i \in 1 .. n - 1 : stack'[i] = stack[i]
  <2>1. stack' = Append(L, Frame(stack[n].fn, at))
    BY <1>1, <1>5 DEF Goto, L
  <2> QED
    BY <1>1, <1>2, <1>3, <1>4, <2>1
<1>6. ASSUME NEW at \in Places, NEW f \in Frames, Call(f, at)
      PROVE  /\ stack' \in Seq(Frames) /\ Len(stack') = n + 1
             /\ stack'[n + 1] = f
             /\ stack'[n] = Frame(stack[n].fn, at)
             /\ \A i \in 1 .. n - 1 : stack'[i] = stack[i]
  <2> DEFINE g == Frame(stack[n].fn, at)
             R == <<g, f>>
  <2>1. stack' = L \o R
    BY <1>1, <1>6 DEF Call, L
  <2>2. g \in Frames
    BY <1>3
  <2> HIDE DEF g
  <2>3. R \in Seq(Frames) /\ Len(R) = 2 /\ R[1] = g /\ R[2] = f
    BY <2>2
  <2> HIDE DEF R
  <2>4. /\ L \o R \in Seq(Frames) /\ Len(L \o R) = Len(L) + Len(R)
        /\ \A i \in 1 .. Len(L) + Len(R) : (L \o R)[i] = IF i <= Len(L) THEN L[i] ELSE R[i - Len(L)]
    BY <1>2, <2>3, ConcatProperties
  <2> DEFINE Z == L \o R
  <2>5. /\ Len(Z) = n + 1 /\ Len(L) = n - 1 /\ n \in Nat \ {0}
        /\ \A i \in 1 .. n + 1 : Z[i] = IF i <= n - 1 THEN L[i] ELSE R[i - (n - 1)]
    <3>1. Len(L) + Len(R) = n + 1
      BY <1>1, <1>2, <2>3
    <3> QED
      BY <1>1, <1>2, <2>4, <3>1
  <2> HIDE DEF Z
  <2>6. /\ Z[n + 1] = R[2] /\ Z[n] = R[1]
        /\ \A i \in 1 .. n - 1 : Z[i] = L[i]
    BY <2>5
  <2>7. stack' = Z /\ Z \in Seq(Frames)
    BY <2>1, <2>4 DEF Z
  <2>8. g = Frame(stack[n].fn, at)
    BY DEF g
  <2> QED
    BY <1>2, <2>3, <2>5, <2>6, <2>7, <2>8
<1>7. CallComexit => /\ stack' \in Seq(Frames) /\ Len(stack') = 1
                     /\ stack'[1] = Frame("comexit", "loop")
  <2> DEFINE g == Frame("comexit", "loop")
  <2>1. g \in Frames
    BY <1>3 DEF FrameNames, Places
  <2>2. CallComexit => stack' = <<g>>
    BY DEF CallComexit
  <2> HIDE DEF g
  <2>3. <<g>> \in Seq(Frames) /\ Len(<<g>>) = 1 /\ <<g>>[1] = g
    BY <2>1
  <2>4. g = Frame("comexit", "loop")
    BY DEF g
  <2> QED
    BY <2>2, <2>3, <2>4
<1>8. Return => /\ stack' \in Seq(Frames) /\ Len(stack') = n - 1
                /\ \A i \in 1 .. n - 1 : stack'[i] = stack[i]
  BY <1>2 DEF Return, L
<1>9. \A at \in Places, f \in Frames : Call(f, at) =>
         /\ stack' \in Seq(Frames) /\ Len(stack') = n + 1
         /\ stack'[n + 1] = f
         /\ stack'[n] = Frame(stack[n].fn, at)
         /\ \A i \in 1 .. n - 1 : stack'[i] = stack[i]
  BY <1>6
<1>10. \A at \in Places : Goto(at) =>
          /\ stack' \in Seq(Frames) /\ Len(stack') = n
          /\ stack'[n] = Frame(stack[n].fn, at)
          /\ \A i \in 1 .. n - 1 : stack'[i] = stack[i]
  BY <1>5
<1>11. \A f \in Frames : stack' = Append(stack, f) =>
          /\ stack' \in Seq(Frames) /\ Len(stack') = n + 1
          /\ stack'[n + 1] = f
          /\ \A i \in 1 .. n : stack'[i] = stack[i]
  BY <1>4 DEF n
<1> QED
  BY <1>1, <1>7, <1>8, <1>9, <1>10, <1>11 DEF n
-----------------------------------------------------------------------------
(* Every step of the program, and every signal, keep the invariant.        *)
LEMMA InvKept ==
    ASSUME Inv, [Next]_vars
    PROVE  Inv'
<1> DEFINE n == Len(stack)
<1>1. PICK b \in 1 .. n : CallInv(b)
  BY DEF Inv
<1>2. ExitTypeOK /\ LeavesTidy
  BY DEF Inv
<1>3. /\ stack \in Seq(Frames) /\ stack # <<>>
      /\ \A fn \in FrameNames, at \in Places : Frame(fn, at) \in Frames
  BY <1>2 DEF ExitTypeOK, Frames, FrameNames, Frame
<1>4. /\ n \in Nat \ {0} /\ b \in Nat \ {0} /\ b <= n /\ Last(stack) = stack[n]
      /\ \A i \in 1 .. n : stack[i].fn \in FrameNames /\ stack[i].at \in Places
  <2>1. n \in Nat \ {0} /\ Last(stack) = stack[n] /\ \A i \in 1 .. n : stack[i] \in Frames
    BY <1>3, StackSteps
  <2> HIDE DEF n
  <2> QED
    BY <1>1, <2>1 DEF Frames
<1>5. /\ PlacesOf("main") = {"load", "fork", "grace", "wait", "quit", "intfifo", "term",
                             "write", "fixate", "end"}
      /\ PlacesOf("comexit") = {"loop", "next"}
      /\ PlacesOf("excdr") = {"exscsi", "stats", "kill", "wait"}
      /\ PlacesOf("exscsi") = {"test", "flushed", "restored", "mark"}
      /\ \A fn \in Commands : PlacesOf(fn) = {"test", "start", "send", "sent", "failed",
                                               "tail", "comerr"}
      /\ \A fn \in Signals : PlacesOf(fn) = {"running", "second", "store"}
  BY DEF PlacesOf, Commands, Signals, Begun, InFlight
<1>6. /\ Chain(b) /\ stack[1].fn \in {"main", "comexit"}
      /\ \A i \in 1 .. b : stack[i].fn \notin Signals
      /\ \A i \in 1 .. b - 1 : <<stack[i].fn, stack[i].at, stack[i + 1].fn>> \in CallSites
      /\ \A i \in b + 1 .. n : stack[i].fn \in Signals
      /\ \A i \in 1 .. n : stack[i].at \in PlacesOf(stack[i].fn)
  BY <1>1 DEF CallInv, Chain
<1>7. \A f, at, g : <<f, at, g>> \in CallSites =>
         /\ at \in PlacesOf(f) /\ at \in Places
         /\ f \in {"main", "comexit", "excdr", "exscsi"}
         /\ g \in {"excdr", "exscsi"} \union Commands
         /\ g = "excdr" => f \in {"main", "comexit"}
         /\ g = "exscsi" => f \in {"comexit", "excdr"}
         /\ f = "main" => at \in {"fork", "grace", "write", "fixate", "end", "quit"}
         /\ f = "comexit" => at = "next"
         /\ f = "excdr" => at \in {"stats", "kill"}
  BY <1>5 DEF CallSites, Places, Commands
<1>8. \A i \in 2 .. b : stack[i].fn \in {"excdr", "exscsi"} \union Commands
  <2> SUFFICES ASSUME NEW i \in 2 .. b
               PROVE  stack[i].fn \in {"excdr", "exscsi"} \union Commands
    OBVIOUS
  <2>1. PICK j \in 1 .. b - 1 : i = j + 1
    BY <1>4
  <2>2. <<stack[j].fn, stack[j].at, stack[i].fn>> \in CallSites
    BY <1>6, <2>1
  <2> QED
    BY <1>7, <2>2
\* The call in progress is the last of the chain, unless a handler stands on it
<1>9. ASSUME NEW fn, NEW at, At(fn, at)
      PROVE  /\ outcome = "running" /\ stack[n].fn = fn /\ stack[n].at = at
             /\ fn \notin Signals => n = b
             /\ fn \in Signals => n > b
             /\ fn \in {"main", "comexit"} => n = 1 /\ b = 1
  <2>1. outcome = "running" /\ stack[n].fn = fn /\ stack[n].at = at
    BY <1>4, <1>9 DEF At, Frame
  <2>2. fn \notin Signals => n = b
    BY <1>4, <1>6, <2>1
  <2>3. fn \in Signals => n > b
    BY <1>4, <1>6, <2>1
  <2>4. fn \in {"main", "comexit"} => n = 1 /\ b = 1
    <3>1. b = 1 \/ stack[b].fn \in {"excdr", "exscsi"} \union Commands
      BY <1>4, <1>8
    <3>2. fn \in {"main", "comexit"} => fn \notin {"excdr", "exscsi"} \union Commands \union Signals
      BY DEF Signals, Commands
    <3> QED
      BY <2>1, <2>2, <3>1, <3>2
  <2> QED
    BY <2>1, <2>2, <2>3, <2>4
\* The five operations on the stack keep the shape of the chain
<1>10. ASSUME NEW at, Goto(at), at \in PlacesOf(stack[n].fn), at \in Places
       PROVE  /\ stack' \in Seq(Frames) /\ Len(stack') = n
              /\ stack'[n].fn = stack[n].fn /\ stack'[n].at = at
              /\ \A i \in 1 .. n - 1 : stack'[i] = stack[i]
              /\ Chain(b)'
  <2>1. /\ stack' \in Seq(Frames) /\ Len(stack') = n
        /\ stack'[n].fn = stack[n].fn /\ stack'[n].at = at
        /\ \A i \in 1 .. n - 1 : stack'[i] = stack[i]
    <3>1. /\ stack' \in Seq(Frames) /\ Len(stack') = n
          /\ stack'[n] = Frame(stack[n].fn, at)
          /\ \A i \in 1 .. n - 1 : stack'[i] = stack[i]
      BY <1>3, <1>10, StackSteps
    <3>2. Frame(stack[n].fn, at).fn = stack[n].fn /\ Frame(stack[n].fn, at).at = at
      BY DEF Frame
    <3> QED
      BY <3>1, <3>2
  <2> HIDE DEF n
  <2>2. \A i \in 1 .. n : stack'[i].fn = stack[i].fn /\ stack'[i].at \in PlacesOf(stack'[i].fn)
    BY <1>4, <1>6, <1>10, <2>1
  <2>3. \A i \in 1 .. b - 1 : /\ stack'[i].at = stack[i].at /\ i \in 1 .. n
                              /\ i + 1 \in 1 .. n
    BY <1>4, <2>1
  <2>4. \A i \in 1 .. b - 1 : <<stack'[i].fn, stack'[i].at, stack'[i + 1].fn>> \in CallSites
    BY <1>6, <2>2, <2>3
  <2> QED
    BY <1>4, <1>6, <2>1, <2>2, <2>4 DEF Chain
<1>11. ASSUME NEW at, NEW f \in Frames, Call(f, at), n = b,
              <<stack[n].fn, at, f.fn>> \in CallSites, f.at \in PlacesOf(f.fn)
       PROVE  /\ stack' \in Seq(Frames) /\ Len(stack') = n + 1
              /\ stack'[n + 1] = f
              /\ stack'[n].fn = stack[n].fn /\ stack'[n].at = at
              /\ \A i \in 1 .. n - 1 : stack'[i] = stack[i]
              /\ Chain(b + 1)'
  <2>1. /\ stack' \in Seq(Frames) /\ Len(stack') = n + 1
        /\ stack'[n + 1] = f
        /\ stack'[n].fn = stack[n].fn /\ stack'[n].at = at
        /\ \A i \in 1 .. n - 1 : stack'[i] = stack[i]
    <3>1. at \in Places
      BY <1>7, <1>11
    <3>2. /\ stack' \in Seq(Frames) /\ Len(stack') = n + 1
          /\ stack'[n + 1] = f
          /\ stack'[n] = Frame(stack[n].fn, at)
          /\ \A i \in 1 .. n - 1 : stack'[i] = stack[i]
      BY <1>3, <1>11, <3>1, StackSteps
    <3>3. Frame(stack[n].fn, at).fn = stack[n].fn /\ Frame(stack[n].fn, at).at = at
      BY DEF Frame
    <3> QED
      BY <3>2, <3>3
  <2> HIDE DEF n
  <2>2. \A i \in 1 .. n : stack'[i].fn = stack[i].fn /\ stack'[i].at \in PlacesOf(stack'[i].fn)
    BY <1>4, <1>6, <1>7, <1>11, <2>1
  <2>3. \A i \in 1 .. n - 1 : /\ stack'[i].at = stack[i].at /\ i \in 1 .. n
                              /\ i + 1 \in 1 .. n
    BY <1>4, <2>1
  <2>4. \A i \in 1 .. n : <<stack'[i].fn, stack'[i].at, stack'[i + 1].fn>> \in CallSites
    <3> DEFINE Linked(i) == <<stack'[i].fn, stack'[i].at, stack'[i + 1].fn>> \in CallSites
    <3>1. \A i \in 1 .. n - 1 : Linked(i)
      BY <1>6, <1>11, <2>2, <2>3
    <3>2. Linked(n)
      BY <1>11, <2>1
    <3> HIDE DEF Linked
    <3>3. \A i \in 1 .. n : Linked(i)
      BY <1>4, <3>1, <3>2
    <3> QED
      BY <3>3 DEF Linked
  <2>5. f.fn \notin Signals
    BY <1>7, <1>11 DEF Signals, Commands
  <2>6. \A i \in 1 .. n + 1 : stack'[i].fn \notin Signals /\ stack'[i].at \in PlacesOf(stack'[i].fn)
    BY <1>4, <1>6, <1>11, <2>1, <2>2, <2>5
  <2> QED
    BY <1>4, <1>6, <1>11, <2>1, <2>2, <2>4, <2>6 DEF Chain
<1>12. ASSUME Return, n > 1
       PROVE  /\ stack' \in Seq(Frames) /\ Len(stack') = n - 1
              /\ \A i \in 1 .. n - 1 : stack'[i] = stack[i]
              /\ n = b => Chain(b - 1)'
              /\ n > b => Chain(b)'
  <2>1. /\ stack' \in Seq(Frames) /\ Len(stack') = n - 1
        /\ \A i \in 1 .. n - 1 : stack'[i] = stack[i]
    BY <1>3, <1>12, StackSteps
  <2> HIDE DEF n
  <2>2. ASSUME NEW c \in Nat \ {0}, c <= b, c <= n - 1, c = b \/ c = n - 1
        PROVE  Chain(c)'
    <3>1. \A i \in 1 .. c - 1 : <<stack'[i].fn, stack'[i].at, stack'[i + 1].fn>> \in CallSites
      <4>1. \A i \in 1 .. c - 1 : i \in 1 .. n - 1 /\ i + 1 \in 1 .. n - 1 /\ i \in 1 .. b - 1
        BY <1>4, <2>2
      <4> QED
        BY <1>6, <2>1, <4>1
    <3>2. \A i \in c + 1 .. n - 1 : stack'[i].fn \in Signals
      BY <1>4, <1>6, <2>1, <2>2
    <3>3. /\ c \in 1 .. n - 1 /\ stack'[1] = stack[1]
          /\ \A i \in 1 .. c : stack'[i].fn \notin Signals
          /\ \A i \in 1 .. n - 1 : stack'[i].at \in PlacesOf(stack'[i].fn)
      BY <1>4, <1>6, <2>1, <2>2
    <3> QED
      BY <1>6, <2>1, <3>1, <3>2, <3>3 DEF Chain
  <2> QED
    BY <1>4, <1>12, <2>1, <2>2
<1>13. ASSUME CallComexit
       PROVE  /\ stack' \in Seq(Frames) /\ Len(stack') = 1
              /\ stack'[1] = Frame("comexit", "loop") /\ Chain(1)'
  <2>1. /\ stack' \in Seq(Frames) /\ Len(stack') = 1
        /\ stack'[1] = Frame("comexit", "loop")
    BY <1>3, <1>13, StackSteps
  <2> QED
    BY <1>5, <2>1 DEF Chain, Frame, Signals
<1>14. ASSUME NEW sig \in Signals, stack' = Append(stack, Frame(sig, "running"))
       PROVE  /\ stack' \in Seq(Frames) /\ Len(stack') = n + 1
              /\ stack'[n + 1] = Frame(sig, "running")
              /\ \A i \in 1 .. n : stack'[i] = stack[i]
              /\ Chain(b)'
  <2>1. /\ stack' \in Seq(Frames) /\ Len(stack') = n + 1
        /\ stack'[n + 1] = Frame(sig, "running")
        /\ \A i \in 1 .. n : stack'[i] = stack[i]
    <3>1. Frame(sig, "running") \in Frames
      BY <1>3 DEF FrameNames, Places
    <3> QED
      BY <1>3, <1>14, <3>1, StackSteps
  <2> HIDE DEF n
  <2>2. stack'[n + 1].fn = sig /\ stack'[n + 1].at \in PlacesOf(sig)
    BY <1>5, <2>1 DEF Frame
  <2>3. \A i \in 1 .. b - 1 : <<stack'[i].fn, stack'[i].at, stack'[i + 1].fn>> \in CallSites
    <3>1. \A i \in 1 .. b - 1 : i \in 1 .. n /\ i + 1 \in 1 .. n
      BY <1>4
    <3> QED
      BY <1>6, <2>1, <3>1
  <2> QED
    BY <1>4, <1>6, <2>1, <2>2, <2>3 DEF Chain
<1>15. ASSUME stack' = stack
       PROVE  Chain(b)'
  BY <1>15, <1>6 DEF Chain
<1> HIDE DEF n
<1>16. Lock(b) /\ Progress(b) /\ Drive(b) /\ Paid(b) /\ Held(b)
  BY <1>1 DEF CallInv
<1>17. /\ \A c : InCmd(c) <=> stack[c].fn \in Commands
       /\ \A c : InCmd(c)' <=> stack'[c].fn \in Commands
       /\ \A s \in Signals : s \notin Commands
       /\ \A s \in {"main", "comexit", "excdr", "exscsi"} : s \notin Commands /\ s \notin Signals
       /\ n = Len(stack) /\ (Exiting <=> stack[1].fn = "comexit")
       /\ (Exiting' <=> stack'[1].fn = "comexit")
       /\ \A fn, ats : Bottom(fn, ats) <=> stack[1].fn = fn /\ stack[1].at \in ats
       /\ \A fn, ats : Bottom(fn, ats)' <=> stack'[1].fn = fn /\ stack'[1].at \in ats
  BY DEF InCmd, Commands, Signals, Exiting, Bottom, n
\* Steps that leave the stack alone
<1>18. ASSUME stack' = stack,
              UNCHANGED <<depth, exfuncs, exflags, running, cb_fun, child, drive, bus, hard>>,
              sent' \in Nat, sent' >= sent
       PROVE  Chain(b)' /\ Lock(b)' /\ Progress(b)' /\ Drive(b)' /\ Paid(b)'
  <2>1. Lock(b)' /\ Progress(b)' /\ Drive(b)'
    BY <1>16, <1>18 DEF Lock, Progress, Drive, InCmd, Exiting, Bottom, Stopped, Restored, Tidy
  <2>2. Paid(b)'
    <3>1. Owed(b)' = Owed(b) /\ Owed(b) \in Nat /\ depth \in Nat /\ sent \in Nat
      BY <1>2, <1>18 DEF Owed, InCmd, ExitTypeOK
    <3>2. Exiting' = Exiting
      BY <1>18 DEF Exiting
    <3> QED
      BY <1>4, <1>16, <1>17, <1>18, <3>1, <3>2 DEF Paid, InCmd
  <2> QED
    BY <1>15, <1>18, <2>1, <2>2
\* A call, which starts at its first place
<1>19. ASSUME NEW at, NEW f \in Frames, Call(f, at), n = b,
              <<stack[b].fn, at, f.fn>> \in CallSites, f.at \in {"test", "exscsi"},
              f.at \in PlacesOf(f.fn),
              UNCHANGED <<depth, exfuncs, exflags, running, cb_fun, child, drive, bus, sent,
                          hard, caught, turns, didintr>>,
              stack[b].fn = "main" => /\ stack[b].at \in {"wait", "quit"} => at = "quit"
                                      /\ at = "fork" => stack[b].at = "load"
                                      /\ at = "quit" => stack[b].at = "wait",
              stack[b].fn = "comexit" => exfuncs # <<>> /\ f.fn = exfuncs[1],
              stack[b].fn = "excdr" /\ at = "kill" => Restored,
              stack[b].fn = "exscsi" => /\ at \in {"restored", "mark"} => ~drive.cached
                                        /\ at = "mark" => ~drive.sized
       PROVE  /\ stack' \in Seq(Frames) /\ Len(stack') = n + 1
              /\ CallInv(b + 1)'
  <2>1. /\ stack' \in Seq(Frames) /\ Len(stack') = n + 1
        /\ stack'[n + 1] = f
        /\ stack'[n].fn = stack[n].fn /\ stack'[n].at = at
        /\ \A i \in 1 .. n - 1 : stack'[i] = stack[i]
        /\ Chain(b + 1)'
    BY <1>11, <1>19
  <2>2. /\ at \in PlacesOf(stack[b].fn)
        /\ stack[b].fn = "main" => at \in {"fork", "grace", "write", "fixate", "end", "quit"}
        /\ stack[b].fn = "excdr" => at \in {"stats", "kill"}
        /\ stack[b].fn \in {"main", "comexit", "excdr", "exscsi"}
        /\ f.fn \in {"excdr", "exscsi"} \union Commands /\ stack[b].fn \notin Commands
    BY <1>7, <1>17, <1>19
  <2>3. stack'[1].fn = stack[1].fn /\ (b # 1 => stack'[1] = stack[1])
    BY <1>4, <1>19, <2>1
  <2>9. /\ (running' <=> running) /\ (hard' <=> hard) /\ (Restored' <=> Restored)
        /\ (Stopped' <=> Stopped)
    BY <1>19, Zenon DEF Restored, Stopped
  <2>4. Lock(b + 1)'
    <3>1. /\ ~hard => ~running
          /\ hard => running /\ Exiting
          /\ ~InCmd(b + 1)' \/ stack'[b + 1].at = "test"
      <4>1. InCmd(b + 1)' => stack'[b + 1].at = "test"
        BY <1>5, <1>17, <1>19, <2>1
      <4> QED
        BY <1>16, <1>17, <1>19, <2>2, <4>1 DEF Lock
    <3>2. \A i \in b + 2 .. n + 1 : FALSE
      BY <1>4, <1>19
    <3> QED
      BY <1>17, <1>19, <2>1, <2>3, <2>9, <3>1, <3>2 DEF Lock, InFlight
  <2>5. Progress(b + 1)'
    <3>1. \A i \in 1 .. b + 1 : \/ i \in 1 .. b - 1 /\ stack'[i] = stack[i] /\ i # b /\ i # b + 1
                                \/ i = b /\ i # b + 1
                                \/ i = b + 1 /\ stack'[i] = f
      BY <1>4, <1>19, <2>1
    <3>2. \A i \in 1 .. b + 1 : stack'[i].fn = "excdr" =>
             /\ stack'[i].at = "stats" /\ i = b + 1 => Restored
             /\ stack'[i].at = "kill" => Restored
             /\ stack'[i].at = "wait" => Restored /\ child # "alive"
      BY <1>4, <1>16, <1>19, <2>1, <2>2, <3>1 DEF Progress
    <3>3. /\ exfuncs \in {<<>>, <<"exscsi">>, <<"excdr", "exscsi">>}
          /\ exfuncs # <<"excdr", "exscsi">> => Stopped
          /\ exfuncs = <<>> => Restored
      BY <1>16 DEF Progress
    <3>4. Bottom("main", {"load", "fork"})' => exfuncs = <<"exscsi">>
      BY <1>4, <1>5, <1>16, <1>17, <1>19, <2>1, <2>2, <2>3 DEF Progress
    <3>5. Bottom("comexit", {"next"})' => exfuncs # <<>> /\ stack'[2].fn = exfuncs[1]
      BY <1>4, <1>16, <1>17, <1>19, <2>1, <2>3 DEF Progress
    <3> QED
      BY <1>4, <1>19, <2>9, <3>2, <3>3, <3>4, <3>5 DEF Progress
  <2>6. Drive(b + 1)'
    BY <1>4, <1>16, <1>17, <1>19, <2>1, <2>2, <2>3 DEF Drive, Tidy
  <2>7. Paid(b + 1)'
    BY <1>4, <1>16, <1>17, <1>19, <2>1, <2>2, <2>3 DEF Paid, Owed, Begun, InFlight
  <2>8. Held(b + 1)'
    BY <1>4, <1>16, <1>17, <1>19, <2>1, <2>2, <2>3 DEF Held, Begun, InFlight
  <2> QED
    BY <2>1, <2>4, <2>5, <2>6, <2>7, <2>8 DEF CallInv
<1> DEFINE Kept == /\ stack' \in Seq(Frames) /\ stack' # <<>>
                   /\ \E c \in 1 .. Len(stack') : CallInv(c)'
<1>20. ASSUME NEW c, CallInv(c)', stack' \in Seq(Frames)
       PROVE  Kept
  BY <1>20, EmptySeq DEF CallInv, Chain
<1> HIDE DEF Kept
<1>21. /\ \A c \in Commands : Command(c) \in Frames /\ Command(c).fn = c /\ Command(c).at = "test"
       /\ \A fn, at : Frame(fn, at).fn = fn /\ Frame(fn, at).at = at
       /\ \A h \in {"excdr", "exscsi"}, at \in {"exscsi", "test"} : Frame(h, at) \in Frames
       /\ {"lock", "speed", "write", "fixate", "flush", "secsize", "unlock", "stats"} = Commands
  BY <1>3 DEF Command, Frame, FrameNames, Commands, Places
<1>22. ASSUME Load PROVE Kept
  <2>1. /\ n = b /\ b = 1 /\ stack[b].fn = "main" /\ stack[b].at = "load"
        /\ Call(Command("lock"), "fork")
    BY <1>9, <1>17, <1>22 DEF Load
  <2>2. UNCHANGED <<depth, exfuncs, exflags, running, cb_fun, child, drive, bus, sent,
                          hard, caught, turns, didintr>>
    BY <1>22 DEF Load, program, flags, transport, environment
  <2>3. <<"main", "fork", "lock">> \in CallSites
    BY DEF CallSites
  <2> DEFINE f == Command("lock")
  <2>4. f \in Frames /\ f.fn = "lock" /\ f.at = "test" /\ f.at \in PlacesOf(f.fn)
    BY <1>5, <1>21
  <2>5. Call(f, "fork")
    BY <2>1
  <2> HIDE DEF f
  <2>6. CallInv(b + 1)' /\ stack' \in Seq(Frames)
    BY <1>19, <2>1, <2>2, <2>3, <2>4, <2>5
  <2> QED
    BY <1>20, <2>6
<1>23. ASSUME Quit PROVE Kept
  <2>1. /\ n = b /\ b = 1 /\ stack[b].fn = "main" /\ stack[b].at = "wait"
        /\ Call(Frame("excdr", "exscsi"), "quit")
    BY <1>9, <1>17, <1>23 DEF Quit
  <2>2. UNCHANGED <<depth, exfuncs, exflags, running, cb_fun, child, drive, bus, sent,
                          hard, caught, turns, didintr>>
    BY <1>23 DEF Quit, program, flags, transport, environment
  <2>3. <<"main", "quit", "excdr">> \in CallSites
    BY DEF CallSites
  <2> QED
    BY <1>5, <1>19, <1>20, <1>21, <2>1, <2>2, <2>3
<1>24. ASSUME Write PROVE Kept
  <2>1. PICK f \in {"write", "fixate"} : Call(Command(f), f)
    BY <1>24 DEF Write
  <2>2. n = b /\ b = 1 /\ stack[b].fn = "main" /\ stack[b].at = "write"
    BY <1>9, <1>17, <1>24 DEF Write
  <2>3. UNCHANGED <<depth, exfuncs, exflags, running, cb_fun, child, drive, bus, sent,
                          hard, caught, turns, didintr>>
    BY <1>24 DEF Write, transport, environment
  <2>4. <<"main", f, f>> \in CallSites
    BY DEF CallSites
  <2> QED
    BY <1>5, <1>19, <1>20, <1>21, <2>1, <2>2, <2>3, <2>4
<1>25. ASSUME CallHandler PROVE Kept
  <2>1. /\ n = b /\ b = 1 /\ stack[b].fn = "comexit" /\ stack[b].at = "loop"
        /\ exfuncs # <<>>
        /\ Call(Frame(Head(exfuncs), IF Head(exfuncs) = "excdr" THEN "exscsi" ELSE "test"), "next")
    BY <1>9, <1>17, <1>25 DEF CallHandler
  <2>2. UNCHANGED <<depth, exfuncs, exflags, running, cb_fun, child, drive, bus, sent,
                          hard, caught, turns, didintr>>
    BY <1>25 DEF CallHandler, program, flags, transport, environment
  <2>3. exfuncs[1] \in {"excdr", "exscsi"} /\ Head(exfuncs) = exfuncs[1]
    BY <1>16, <2>1 DEF Progress
  <2>4. /\ <<"comexit", "next", "excdr">> \in CallSites
        /\ <<"comexit", "next", "exscsi">> \in CallSites
    BY DEF CallSites
  <2>5. CASE exfuncs[1] = "excdr"
    BY <1>5, <1>19, <1>20, <1>21, <2>1, <2>2, <2>3, <2>4, <2>5
  <2>6. CASE exfuncs[1] = "exscsi"
    BY <1>5, <1>19, <1>20, <1>21, <2>1, <2>2, <2>3, <2>4, <2>6
  <2> QED
    BY <2>3, <2>5, <2>6
<1>26. ASSUME CallExscsi PROVE Kept
  <2>1. /\ n = b /\ stack[b].fn = "excdr" /\ stack[b].at = "exscsi"
        /\ Call(Frame("exscsi", "test"), "stats")
    BY <1>9, <1>17, <1>26 DEF CallExscsi
  <2>2. UNCHANGED <<depth, exfuncs, exflags, running, cb_fun, child, drive, bus, sent,
                          hard, caught, turns, didintr>>
    BY <1>26 DEF CallExscsi, program, flags, transport, environment
  <2>3. <<"excdr", "stats", "exscsi">> \in CallSites
    BY DEF CallSites
  <2> QED
    BY <1>5, <1>19, <1>20, <1>21, <2>1, <2>2, <2>3
<1>27. ASSUME Restore PROVE Kept
  <2>1. PICK c \in {"flush", "secsize", "unlock"}, p \in {"flushed", "restored", "mark"} :
           /\ Call(Command(c), p) /\ <<"exscsi", p, c>> \in CallSites
           /\ \/ At("exscsi", "test") /\ p = "flushed"
              \/ At("exscsi", "flushed") /\ p = "restored"
              \/ At("exscsi", "restored") /\ p = "mark"
    <3>1. /\ <<"exscsi", "flushed", "flush">> \in CallSites
          /\ <<"exscsi", "restored", "secsize">> \in CallSites
          /\ <<"exscsi", "mark", "unlock">> \in CallSites
      BY DEF CallSites
    <3> QED
      BY <1>27, <3>1 DEF Restore
  <2>2. n = b /\ stack[b].fn = "exscsi"
    BY <1>9, <1>17, <2>1
  <2>3. UNCHANGED <<depth, exfuncs, exflags, running, cb_fun, child, drive, bus, sent,
                          hard, caught, turns, didintr>>
    BY <1>27 DEF Restore, program, flags, transport, environment
  <2>4. /\ p \in {"restored", "mark"} => ~drive.cached
        /\ p = "mark" => ~drive.sized
    <3>1. \/ stack[b].at = "test" /\ p = "flushed"
          \/ stack[b].at = "flushed" /\ p = "restored"
          \/ stack[b].at = "restored" /\ p = "mark"
      BY <1>9, <2>1, <2>2
    <3> QED
      BY <1>4, <1>16, <2>2, <3>1 DEF Drive
  <2> QED
    BY <1>5, <1>19, <1>20, <1>21, <2>1, <2>2, <2>3, <2>4
\* Steps of main, comexit() or excdr() that call nothing
<1>28. ASSUME NEW at, Goto(at), n = b, stack[b].fn \in {"main", "comexit", "excdr"},
              at \in PlacesOf(stack[b].fn), at \in Places,
              UNCHANGED <<depth, exflags, running, cb_fun, drive, bus, sent, hard, caught,
                          turns, didintr>>,
              stack[b].fn = "main" => /\ stack[b].at # "quit"
                                      /\ at \notin {"load", "fork", "quit"}
                                      /\ stack[b].at = "wait" => turns = 0,
              Progress(b)'
       PROVE  Kept
  <2>1. /\ stack' \in Seq(Frames) /\ Len(stack') = n
        /\ stack'[n].fn = stack[n].fn /\ stack'[n].at = at
        /\ \A i \in 1 .. n - 1 : stack'[i] = stack[i]
        /\ Chain(b)'
    BY <1>10, <1>28
  <2>2. stack'[1].fn = stack[1].fn /\ (b # 1 => stack'[1] = stack[1])
    BY <1>4, <1>28, <2>1
  <2>3. (running' <=> running) /\ (hard' <=> hard)
    BY <1>28, Zenon
  <2>4. Lock(b)'
    <3>1. /\ ~hard => ~running
          /\ hard => running /\ Exiting
          /\ ~InCmd(b)'
      BY <1>16, <1>17, <1>28, <2>1 DEF Lock
    <3>2. \A i \in b + 1 .. n : FALSE
      BY <1>4, <1>28
    <3> QED
      BY <1>17, <1>28, <2>1, <2>2, <2>3, <3>1, <3>2 DEF Lock
  <2>5. Drive(b)'
    BY <1>4, <1>16, <1>17, <1>28, <2>1, <2>2 DEF Drive, Tidy
  <2>6. Paid(b)'
    BY <1>4, <1>16, <1>17, <1>28, <2>1, <2>2 DEF Paid, Owed
  <2>7. Held(b)'
    BY <1>4, <1>16, <1>17, <1>28, <2>1, <2>2 DEF Held
  <2> QED
    BY <1>20, <1>28, <2>1, <2>4, <2>5, <2>6, <2>7 DEF CallInv
<1>29. ASSUME Grace \/ NoMoreGrace \/ Handlers
       PROVE  Kept
  <2>1. PICK p \in {"grace", "wait", "intfifo", "term"}, at \in {"wait", "intfifo", "term", "write"} :
           At("main", p) /\ Goto(at) /\ (p = "wait" => turns = 0)
    BY <1>29 DEF Grace, NoMoreGrace, Handlers, Install
  <2>2. n = b /\ b = 1 /\ stack[b].fn = "main" /\ stack[b].at = p
    BY <1>9, <1>17, <2>1
  <2>3. UNCHANGED <<depth, exflags, running, cb_fun, drive, bus, sent, hard, caught,
                    turns, didintr, exfuncs, child>>
    BY <1>29 DEF Grace, NoMoreGrace, Handlers, Install, transport, environment
  <2>4. at \in PlacesOf("main") /\ at \in Places
    BY <1>5 DEF Places
  <2>5. /\ Len(stack') = n /\ stack'[n].fn = stack[n].fn /\ stack'[n].at = at
    BY <1>10, <2>1, <2>2, <2>4
  <2>6. Progress(b)'
    <3>1. (Restored' <=> Restored) /\ (Stopped' <=> Stopped)
      BY <2>3, Zenon DEF Restored, Stopped
    <3> QED
      BY <1>16, <1>17, <2>2, <2>3, <2>5, <3>1 DEF Progress
  <2> QED
    BY <1>28, <2>1, <2>2, <2>3, <2>4, <2>6
\* The same for the statistics, which may ask the drive
<1>30. ASSUME Stats("main", "fixate", "end")
       PROVE  Kept
  <2>1. At("main", "fixate") /\ (Call(Command("stats"), "end") \/ Goto("end"))
    BY <1>30 DEF Stats
  <2>2. n = b /\ b = 1 /\ stack[b].fn = "main" /\ stack[b].at = "fixate"
    BY <1>9, <1>17, <2>1
  <2>3. UNCHANGED <<depth, exfuncs, exflags, running, cb_fun, child, drive, bus, sent,
                    hard, caught, turns, didintr>>
    BY <1>30 DEF Stats, transport, environment
  <2>4. CASE Call(Command("stats"), "end")
    <3>1. <<"main", "end", "stats">> \in CallSites
      BY DEF CallSites
    <3> QED
      BY <1>5, <1>19, <1>20, <1>21, <2>2, <2>3, <2>4, <3>1
  <2>5. CASE Goto("end")
    <3>1. "end" \in PlacesOf("main") /\ "end" \in Places
      BY <1>5 DEF Places
    <3>2. Len(stack') = n /\ stack'[n].fn = stack[n].fn /\ stack'[n].at = "end"
      BY <1>10, <2>2, <2>5, <3>1
    <3>3. (Restored' <=> Restored) /\ (Stopped' <=> Stopped)
      BY <2>3, Zenon DEF Restored, Stopped
    <3>4. Progress(b)'
      BY <1>16, <1>17, <2>2, <2>3, <3>2, <3>3 DEF Progress
    <3> QED
      BY <1>28, <2>2, <2>3, <2>5, <3>1, <3>4
  <2> QED
    BY <2>1, <2>4, <2>5
<1>31. ASSUME Stats("excdr", "stats", "kill")
       PROVE  Kept
  <2>1. At("excdr", "stats") /\ (Call(Command("stats"), "kill") \/ Goto("kill"))
    BY <1>31 DEF Stats
  <2>2. n = b /\ stack[b].fn = "excdr" /\ stack[b].at = "stats"
    BY <1>9, <1>17, <2>1
  <2>3. UNCHANGED <<depth, exfuncs, exflags, running, cb_fun, child, drive, bus, sent,
                    hard, caught, turns, didintr>>
    BY <1>31 DEF Stats, transport, environment
  <2>4. Restored
    BY <1>4, <1>16, <2>2 DEF Progress
  <2>5. CASE Call(Command("stats"), "kill")
    <3>1. <<"excdr", "kill", "stats">> \in CallSites
      BY DEF CallSites
    <3> QED
      BY <1>5, <1>19, <1>20, <1>21, <2>2, <2>3, <2>4, <2>5, <3>1
  <2>6. CASE Goto("kill")
    <3>1. "kill" \in PlacesOf("excdr") /\ "kill" \in Places
      BY <1>5 DEF Places
    <3>2. /\ Len(stack') = n /\ stack'[n].fn = stack[n].fn /\ stack'[n].at = "kill"
          /\ \A i \in 1 .. n - 1 : stack'[i] = stack[i]
      BY <1>10, <2>2, <2>6, <3>1
    <3>3. (Restored' <=> Restored) /\ (Stopped' <=> Stopped)
      BY <2>3, Zenon DEF Restored, Stopped
    <3>4. Progress(b)'
      BY <1>4, <1>6, <1>16, <1>17, <2>2, <2>3, <2>4, <3>2, <3>3 DEF Progress
    <3> QED
      BY <1>28, <2>2, <2>3, <2>6, <3>1, <3>4
  <2> QED
    BY <2>1, <2>5, <2>6
<1>32. ASSUME Fork
       PROVE  Kept
  <2>1. /\ At("main", "fork") /\ Call(Command("speed"), "grace")
        /\ \/ child' = "alive" /\ exfuncs' = <<"excdr">> \o exfuncs
           \/ UNCHANGED <<child, exfuncs>>
    BY <1>32 DEF Fork
  <2>2. n = b /\ b = 1 /\ stack[b].fn = "main" /\ stack[b].at = "fork"
    BY <1>9, <1>17, <2>1
  <2>3. UNCHANGED <<depth, exflags, running, cb_fun, drive, bus, sent,
                    hard, caught, turns, didintr>>
    BY <1>32 DEF Fork, transport, environment
  <2>4. exfuncs = <<"exscsi">>
    BY <1>16, <1>17, <2>2 DEF Progress
  <2>5. exfuncs' \in {<<"exscsi">>, <<"excdr", "exscsi">>} /\ (exfuncs' = <<"exscsi">> => Stopped')
    BY <1>16, <2>1, <2>4 DEF Progress, Stopped
  <2> DEFINE f == Command("speed")
  <2>6. f \in Frames /\ f.fn = "speed" /\ f.at = "test" /\ f.at \in PlacesOf(f.fn) /\ f.fn \in Commands
    BY <1>5, <1>21
  <2>7. <<"main", "grace", "speed">> \in CallSites
    BY DEF CallSites
  <2>8. Call(f, "grace")
    BY <2>1
  <2> HIDE DEF f
  <2>9. /\ stack' \in Seq(Frames) /\ Len(stack') = 2 /\ stack'[2] = f
        /\ stack'[1].fn = "main" /\ stack'[1].at = "grace" /\ Chain(2)'
    BY <1>11, <2>2, <2>6, <2>7, <2>8
  <2>10. (running' <=> running) /\ (hard' <=> hard)
    BY <2>3, Zenon
  <2>11. ~hard /\ ~running /\ exflags # 1
    BY <1>16, <1>17, <2>2 DEF Lock, Drive
  <2>12. Lock(2)' /\ Drive(2)'
    BY <1>17, <2>3, <2>6, <2>9, <2>10, <2>11 DEF Lock, Drive, InFlight
  <2>13. Progress(2)'
    <3>1. /\ exfuncs' \in {<<>>, <<"exscsi">>, <<"excdr", "exscsi">>}
          /\ exfuncs' # <<>> /\ (exfuncs' # <<"excdr", "exscsi">> => Stopped')
      BY <2>5
    <3>2. \A i \in 1 .. 2 : stack'[i].fn # "excdr"
      BY <1>17, <2>6, <2>9
    <3> QED
      BY <1>17, <2>9, <3>1, <3>2 DEF Progress
  <2>14. Paid(2)'
    BY <1>16, <1>17, <2>2, <2>3, <2>6, <2>9 DEF Paid, Owed, Begun, InFlight
  <2>15. Held(2)'
    BY <1>16, <1>17, <2>2, <2>3, <2>6, <2>9 DEF Held
  <2> QED
    BY <1>20, <2>9, <2>12, <2>13, <2>14, <2>15 DEF CallInv
<1>33. ASSUME NextHandler
       PROVE  Kept
  <2>1. At("comexit", "next") /\ Goto("loop") /\ exfuncs' = Tail(exfuncs)
    BY <1>33 DEF NextHandler
  <2>2. n = b /\ b = 1 /\ stack[b].fn = "comexit" /\ stack[b].at = "next"
    BY <1>9, <1>17, <2>1
  <2>3. UNCHANGED <<depth, exflags, running, cb_fun, drive, bus, sent, hard, caught,
                    turns, didintr, child>>
    BY <1>33 DEF NextHandler, transport, environment
  <2>4. "loop" \in PlacesOf("comexit") /\ "loop" \in Places
    BY <1>5 DEF Places
  <2>5. /\ Len(stack') = n /\ stack'[n].fn = stack[n].fn /\ stack'[n].at = "loop"
    BY <1>10, <2>1, <2>2, <2>4
  <2>6. Progress(b)'
    <3>1. (Restored' <=> Restored) /\ (Stopped' <=> Stopped)
      BY <2>3, Zenon DEF Restored, Stopped
    <3>2. \/ exfuncs = <<"exscsi">> /\ exfuncs' = <<>> /\ Restored /\ Stopped
          \/ exfuncs = <<"excdr", "exscsi">> /\ exfuncs' = <<"exscsi">> /\ Stopped
      <4>1. /\ Tail(<<"exscsi">>) = <<>> /\ Tail(<<"excdr", "exscsi">>) = <<"exscsi">>
            /\ <<"exscsi">>[1] = "exscsi" /\ <<"excdr", "exscsi">>[1] = "excdr"
            /\ <<"exscsi">> # <<"excdr", "exscsi">>
        OBVIOUS
      <4>2. exfuncs # <<>> /\ IF exfuncs[1] = "excdr" THEN Stopped ELSE Restored
        BY <1>16, <1>17, <2>2 DEF Progress
      <4>3. CASE exfuncs = <<"exscsi">>
        BY <1>16, <2>1, <4>1, <4>2, <4>3 DEF Progress
      <4>4. CASE exfuncs = <<"excdr", "exscsi">>
        BY <1>16, <2>1, <4>1, <4>2, <4>4 DEF Progress
      <4> QED
        BY <1>16, <4>2, <4>3, <4>4 DEF Progress
    <3> QED
      BY <1>17, <2>2, <2>5, <3>1, <3>2 DEF Progress
  <2> QED
    BY <1>28, <2>1, <2>2, <2>3, <2>4, <2>6
<1>34. ASSUME KillFaio
       PROVE  Kept
  <2>1. /\ At("excdr", "kill") /\ Goto("wait")
        /\ child' = IF child = "alive" THEN "killed" ELSE child
    BY <1>34 DEF KillFaio
  <2>2. n = b /\ stack[b].fn = "excdr" /\ stack[b].at = "kill"
    BY <1>9, <1>17, <2>1
  <2>3. UNCHANGED <<depth, exflags, running, cb_fun, drive, bus, sent, hard, caught,
                    turns, didintr, exfuncs>>
    BY <1>34 DEF KillFaio, transport, environment
  <2>4. "wait" \in PlacesOf("excdr") /\ "wait" \in Places
    BY <1>5 DEF Places
  <2>5. /\ Len(stack') = n /\ stack'[n].fn = stack[n].fn /\ stack'[n].at = "wait"
        /\ \A i \in 1 .. n - 1 : stack'[i] = stack[i]
    BY <1>10, <2>1, <2>2, <2>4
  <2>6. Progress(b)'
    <3>1. (Restored' <=> Restored) /\ (Stopped => Stopped') /\ child' # "alive"
      BY <2>1, <2>3 DEF Restored, Stopped
    <3>2. Restored
      BY <1>4, <1>16, <2>2 DEF Progress
    <3> QED
      BY <1>4, <1>6, <1>16, <1>17, <2>2, <2>3, <2>5, <3>1, <3>2 DEF Progress
  <2> QED
    BY <1>28, <2>1, <2>2, <2>3, <2>4, <2>6
\* Steps that return to the caller
<1>35. ASSUME n = b, Return, stack[b].fn \notin {"main", "comexit"}
       PROVE  /\ b > 1 /\ stack' \in Seq(Frames) /\ Len(stack') = b - 1 /\ Chain(b - 1)'
              /\ \A i \in 1 .. b - 1 : stack'[i] = stack[i]
              /\ <<stack[b - 1].fn, stack[b - 1].at, stack[b].fn>> \in CallSites
              /\ stack[b - 1].fn \in {"main", "comexit", "excdr", "exscsi"}
              /\ stack[b - 1].fn \in {"main", "comexit"} => b = 2
  <2>1. b > 1
    BY <1>4, <1>6, <1>35
  <2>2. /\ stack' \in Seq(Frames) /\ Len(stack') = b - 1 /\ Chain(b - 1)'
        /\ \A i \in 1 .. b - 1 : stack'[i] = stack[i]
    BY <1>12, <1>35, <2>1
  <2>3. PICK j \in 1 .. b - 1 : j = b - 1 /\ j + 1 = b
    BY <1>4, <2>1
  <2>4. <<stack[b - 1].fn, stack[b - 1].at, stack[b].fn>> \in CallSites
    BY <1>6, <2>3
  <2>5. stack[b - 1].fn \in {"main", "comexit"} => b = 2
    <3>1. b - 1 \in 2 .. b \/ b = 2
      BY <1>4, <2>1
    <3> QED
      BY <1>8, <1>17, <3>1
  <2> QED
    BY <1>7, <2>1, <2>2, <2>4, <2>5
<1>36. ASSUME n = b, Return, stack[b].fn \notin {"main", "comexit"},
              UNCHANGED <<depth, running, cb_fun, bus, sent, hard, caught, turns, didintr>>,
              InCmd(b) => stack[b].at = "tail" /\ ~cb_fun,
              Progress(b - 1)', Drive(b - 1)'
       PROVE  Kept
  <2>1. /\ b > 1 /\ stack' \in Seq(Frames) /\ Len(stack') = b - 1 /\ Chain(b - 1)'
        /\ \A i \in 1 .. b - 1 : stack'[i] = stack[i]
        /\ stack[b - 1].fn \in {"main", "comexit", "excdr", "exscsi"}
    BY <1>35, <1>36
  <2>2. stack'[1] = stack[1] /\ stack'[b - 1] = stack[b - 1]
    BY <1>4, <2>1
  <2>3. (running' <=> running) /\ (hard' <=> hard)
    BY <1>36, Zenon
  <2>4. Lock(b - 1)'
    <3>1. /\ ~hard => ~running
          /\ hard => running /\ Exiting
          /\ ~InCmd(b - 1)'
      BY <1>16, <1>17, <1>36, <2>1, <2>2 DEF Lock, InFlight
    <3>2. \A i \in (b - 1) + 1 .. b - 1 : FALSE
      BY <1>4
    <3> QED
      BY <1>17, <2>1, <2>2, <2>3, <3>1, <3>2 DEF Lock
  <2>5. Paid(b - 1)'
    <3>1. depth \in Nat /\ sent \in Nat
      BY <1>2 DEF ExitTypeOK
    <3> QED
      BY <1>4, <1>16, <1>17, <1>36, <2>1, <2>2, <3>1 DEF Paid, Owed
  <2>6. Held(b - 1)'
    BY <1>4, <1>16, <1>17, <1>36, <2>1, <2>2 DEF Held
  <2> QED
    BY <1>20, <1>36, <2>1, <2>4, <2>5, <2>6 DEF CallInv
<1>37. ASSUME WaitFaio
       PROVE  Kept
  <2>1. At("excdr", "wait") /\ Return /\ Stopped'
    BY <1>37 DEF WaitFaio, Stopped
  <2>2. n = b /\ stack[b].fn = "excdr" /\ stack[b].at = "wait"
    BY <1>9, <1>17, <2>1
  <2>3. UNCHANGED <<depth, running, cb_fun, bus, sent, hard, caught, turns, didintr, exfuncs,
                    exflags, drive>>
    BY <1>37 DEF WaitFaio, transport, environment
  <2>4. /\ b = 2 /\ Len(stack') = 1 /\ stack'[1] = stack[1]
        /\ \/ stack[1].fn = "main" /\ stack[1].at = "quit"
           \/ stack[1].fn = "comexit" /\ stack[1].at = "next"
    <3>1. /\ <<stack[b - 1].fn, stack[b - 1].at, "excdr">> \in CallSites
          /\ stack[b - 1].fn \in {"main", "comexit"} => b = 2
          /\ b > 1 /\ Len(stack') = b - 1 /\ \A i \in 1 .. b - 1 : stack'[i] = stack[i]
      BY <1>35, <2>1, <2>2
    <3>2. \A f, at : <<f, at, "excdr">> \in CallSites =>
             (f = "main" /\ at = "quit") \/ (f = "comexit" /\ at = "next")
      BY DEF CallSites
    <3> QED
      BY <1>4, <3>1, <3>2
  <2>5. Restored /\ (Restored' <=> Restored)
    BY <1>4, <1>16, <2>2, <2>3 DEF Progress, Restored
  <2>6. Progress(b - 1)'
    BY <1>4, <1>16, <1>17, <2>1, <2>3, <2>4, <2>5 DEF Progress
  <2>7. Drive(b - 1)'
    BY <1>4, <1>16, <1>17, <2>3, <2>4 DEF Drive, Tidy
  <2> QED
    BY <1>17, <1>36, <2>1, <2>2, <2>3, <2>6, <2>7
<1>38. ASSUME Skip \/ Mark
       PROVE  Kept
  <2>1. At("exscsi", "test") \/ At("exscsi", "mark")
    BY <1>38 DEF Skip, Mark
  <2>2. n = b /\ stack[b].fn = "exscsi" /\ (Mark => stack[b].at = "mark") /\ Return
    BY <1>9, <1>17, <1>38, <2>1 DEF Skip, Mark
  <2>3. UNCHANGED <<depth, running, cb_fun, bus, sent, hard, caught, turns, didintr, exfuncs,
                    child, drive>>
    BY <1>38 DEF Skip, Mark, program, flags, transport, environment
  <2>4. (Stopped' <=> Stopped) /\ Restored'
    <3>1. CASE Skip
      <4>1. (exflags > 0 \/ running) /\ exflags' = exflags
        BY <3>1 DEF Skip, program, flags
      <4>2. running => hard
        BY <1>16, <1>17, <2>2 DEF Lock
      <4>3. exflags \in {0, 1} /\ (exflags > 0 => exflags = 1)
        BY <1>2 DEF ExitTypeOK
      <4> QED
        BY <2>3, <4>1, <4>2, <4>3 DEF Restored, Stopped
    <3>2. CASE Mark
      BY <2>3, <3>2 DEF Mark, Restored, Stopped
    <3> QED
      BY <1>38, <3>1, <3>2
  <2>5. /\ b > 1 /\ Len(stack') = b - 1 /\ \A i \in 1 .. b - 1 : stack'[i] = stack[i]
        /\ <<stack[b - 1].fn, stack[b - 1].at, "exscsi">> \in CallSites
        /\ stack[b - 1].fn \in {"main", "comexit"} => b = 2
    BY <1>35, <2>2, <1>17
  <2>6. \/ b = 2 /\ stack[1].fn = "comexit" /\ stack[1].at = "next"
        \/ /\ b = 3 /\ stack[2].fn = "excdr"
           /\ Bottom("main", {"quit"}) \/ Exiting
    <3>1. /\ \A f, at : <<f, at, "exscsi">> \in CallSites =>
                (f = "comexit" /\ at = "next") \/ (f = "excdr" /\ at = "stats")
          /\ \A f, at : <<f, at, "excdr">> \in CallSites =>
                (f = "main" /\ at = "quit") \/ (f = "comexit" /\ at = "next")
      BY DEF CallSites
    <3>2. CASE stack[b - 1].fn = "comexit"
      BY <2>5, <3>1, <3>2
    <3>3. CASE stack[b - 1].fn = "excdr"
      <4>1. b - 1 > 1
        BY <1>4, <1>6, <2>5, <3>3
      <4>2. PICK j \in 1 .. b - 1 : j = b - 2 /\ j + 1 = b - 1
        BY <1>4, <4>1
      <4>3. <<stack[j].fn, stack[j].at, "excdr">> \in CallSites
        BY <1>6, <3>3, <4>2
      <4>4. (stack[j].fn = "main" /\ stack[j].at = "quit") \/ stack[j].fn = "comexit"
        BY <3>1, <4>3
      <4>5. j = 1
        <5>1. j = 1 \/ j \in 2 .. b
          BY <1>4, <4>1, <4>2
        <5> QED
          BY <1>8, <1>17, <4>4, <5>1
      <4>6. b = 3 /\ stack[2].fn = "excdr"
        BY <1>4, <3>3, <4>2, <4>5
      <4>7. Bottom("main", {"quit"}) \/ Exiting
        BY <1>17, <4>4, <4>5
      <4> QED
        BY <4>6, <4>7
    <3> QED
      BY <2>5, <3>1, <3>2, <3>3
  <2>7. Progress(b - 1)'
    BY <1>4, <1>16, <1>17, <2>2, <2>3, <2>4, <2>5, <2>6 DEF Progress
  <2>8. Drive(b - 1)'
    <3>1. exflags' = 1 => Tidy' /\ (Exiting' \/ Bottom("main", {"quit"})')
      <4>1. CASE Skip
        <5>1. UNCHANGED <<exflags, drive>>
          BY <4>1 DEF Skip, program, flags, transport
        <5> QED
          BY <1>4, <1>16, <1>17, <2>5, <5>1 DEF Drive, Tidy
      <4>2. CASE Mark
        <5>1. stack[b].at = "mark" /\ b \in 1 .. b /\ drive' = drive
          BY <1>4, <2>2, <2>3, <4>2
        <5>2. ~drive.cached /\ ~drive.sized /\ ~drive.locked
          BY <1>16, <2>2, <5>1 DEF Drive
        <5> QED
          BY <1>4, <1>17, <2>5, <2>6, <5>1, <5>2 DEF Tidy
      <4> QED
        BY <1>38, <4>1, <4>2
    <3>2. \A i \in 1 .. b - 1 : stack'[i].fn # "exscsi"
      BY <1>4, <1>6, <1>17, <2>5, <2>6
    <3>3. ~InCmd(b - 1)'
      BY <1>17, <2>5, <2>6
    <3> QED
      BY <1>17, <2>5, <3>1, <3>2, <3>3 DEF Drive
  <2> QED
    BY <1>17, <1>36, <2>2, <2>3, <2>7, <2>8
\* The steps of scg_cmd()
<1>39. ASSUME NEW p, InCommand(p)
       PROVE  /\ n = b /\ b > 1 /\ stack[b].fn \in Commands /\ stack[b].at = p
              /\ stack[b].fn \notin {"main", "comexit"}
              /\ outcome = "running"
  <2>1. PICK c \in Commands : At(c, p)
    BY <1>39 DEF InCommand
  <2>2. c \notin Signals /\ c \notin {"main", "comexit"}
    BY DEF Commands, Signals
  <2>3. n = b /\ stack[b].fn = c /\ stack[b].at = p /\ outcome = "running"
    BY <1>9, <2>1, <2>2
  <2> QED
    BY <1>4, <1>6, <2>2, <2>3
<1>40. ASSUME NEW p, NEW at, InCommand(p), Goto(at), at \in {"start", "send", "sent", "failed", "tail", "comerr"},
              UNCHANGED <<depth, exfuncs, exflags, child, sent, hard, caught, turns, didintr>>
       PROVE  /\ n = b /\ b > 1 /\ InCmd(b) /\ InCmd(b)' /\ stack[b].at = p
              /\ stack' \in Seq(Frames) /\ Len(stack') = b /\ stack'[b].at = at
              /\ stack'[b].fn = stack[b].fn
              /\ \A i \in 1 .. b - 1 : stack'[i] = stack[i]
              /\ stack'[1] = stack[1] /\ Chain(b)' /\ Progress(b)'
  <2>1. n = b /\ b > 1 /\ stack[b].fn \in Commands /\ stack[b].at = p
    BY <1>39, <1>40
  <2>2. at \in PlacesOf(stack[n].fn) /\ at \in Places
    BY <1>5, <1>40, <2>1 DEF Places
  <2>3. /\ stack' \in Seq(Frames) /\ Len(stack') = b /\ stack'[b].at = at
        /\ stack'[b].fn = stack[b].fn
        /\ \A i \in 1 .. b - 1 : stack'[i] = stack[i]
        /\ Chain(b)'
    BY <1>10, <1>40, <2>1, <2>2
  <2>4. stack'[1] = stack[1]
    BY <1>4, <2>1, <2>3
  <2>5. Progress(b)'
    <3>1. (Restored' <=> Restored) /\ (Stopped' <=> Stopped)
      BY <1>40, Zenon DEF Restored, Stopped
    <3>2. \A i \in 1 .. b : stack'[i].fn = "excdr" =>
             /\ stack'[i].at = "stats" /\ i = b => Restored
             /\ stack'[i].at = "kill" => Restored
             /\ stack'[i].at = "wait" => Restored /\ child # "alive"
      <4>1. \A i \in 1 .. b : (i \in 1 .. b - 1 /\ stack'[i] = stack[i]) \/ i = b
        BY <1>4, <2>3
      <4>2. stack'[b].fn # "excdr"
        BY <1>17, <2>1, <2>3
      <4> QED
        BY <1>16, <4>1, <4>2 DEF Progress
    <3>3. stack'[2].fn = stack[2].fn
      BY <1>4, <2>1, <2>3
    <3> QED
      BY <1>16, <1>17, <1>40, <2>1, <2>4, <3>1, <3>2, <3>3 DEF Progress
  <2> QED
    BY <1>17, <2>1, <2>3, <2>4, <2>5
<1>41. ASSUME ClearCallback
       PROVE  Kept
  <2>1. /\ InCommand("test") /\ Goto("start") /\ ~running /\ cb_fun' = FALSE
        /\ UNCHANGED <<depth, exfuncs, exflags, child, sent, hard, caught, turns, didintr,
                       running, drive, bus>>
    BY <1>41 DEF ClearCallback, program, flags, environment
  <2>2. /\ n = b /\ b > 1 /\ InCmd(b) /\ InCmd(b)' /\ stack[b].at = "test"
        /\ stack' \in Seq(Frames) /\ Len(stack') = b /\ stack'[b].at = "start"
        /\ stack'[b].fn = stack[b].fn
        /\ \A i \in 1 .. b - 1 : stack'[i] = stack[i]
        /\ stack'[1] = stack[1] /\ Chain(b)' /\ Progress(b)'
    BY <1>40, <2>1
  <2>3. ~hard' /\ ~running'
    BY <1>16, <2>1 DEF Lock
  <2>4. Lock(b)'
    BY <1>4, <2>2, <2>3 DEF Lock, InFlight
  <2>5. Drive(b)'
    BY <1>4, <1>16, <1>17, <2>1, <2>2 DEF Drive, Tidy
  <2>6. Paid(b)' /\ Held(b)'
    BY <1>16, <1>17, <2>1, <2>2 DEF Paid, Owed, Held, Begun, InFlight
  <2> QED
    BY <1>20, <2>2, <2>4, <2>5, <2>6 DEF CallInv
<1>42. ASSUME SetRunning
       PROVE  Kept
  <2>1. /\ InCommand("start") /\ Goto("send") /\ running' = TRUE
        /\ UNCHANGED <<depth, exfuncs, exflags, child, sent, hard, caught, turns, didintr,
                       cb_fun, drive, bus>>
    BY <1>42 DEF SetRunning, program, flags, environment
  <2>2. /\ n = b /\ b > 1 /\ InCmd(b) /\ InCmd(b)' /\ stack[b].at = "start"
        /\ stack' \in Seq(Frames) /\ Len(stack') = b /\ stack'[b].at = "send"
        /\ stack'[b].fn = stack[b].fn
        /\ \A i \in 1 .. b - 1 : stack'[i] = stack[i]
        /\ stack'[1] = stack[1] /\ Chain(b)' /\ Progress(b)'
    BY <1>40, <2>1
  <2>3. ~hard' /\ running'
    BY <1>16, <2>1, <2>2 DEF Lock
  <2>4. Lock(b)'
    BY <1>4, <2>2, <2>3 DEF Lock, InFlight
  <2>5. Drive(b)'
    BY <1>4, <1>16, <1>17, <2>1, <2>2 DEF Drive, Tidy
  <2>6. Paid(b)' /\ Held(b)'
    BY <1>16, <1>17, <2>1, <2>2 DEF Paid, Owed, Held, Begun, InFlight
  <2> QED
    BY <1>20, <2>2, <2>4, <2>5, <2>6 DEF CallInv
<1>43. ASSUME ClearRunning
       PROVE  Kept
  <2>1. PICK p \in {"sent", "failed"}, at \in {"tail", "comerr"} :
           /\ InCommand(p) /\ Goto(at) /\ (at = "tail" <=> Last(stack).at = "sent")
    BY <1>43 DEF ClearRunning
  <2>2. /\ running' = FALSE
        /\ UNCHANGED <<depth, exfuncs, exflags, child, sent, hard, caught, turns, didintr,
                       cb_fun, drive, bus>>
    BY <1>43 DEF ClearRunning, program, flags, environment
  <2>3. /\ n = b /\ b > 1 /\ InCmd(b) /\ InCmd(b)' /\ stack[b].at = p
        /\ stack' \in Seq(Frames) /\ Len(stack') = b /\ stack'[b].at = at
        /\ stack'[b].fn = stack[b].fn
        /\ \A i \in 1 .. b - 1 : stack'[i] = stack[i]
        /\ stack'[1] = stack[1] /\ Chain(b)' /\ Progress(b)'
    BY <1>40, <2>1, <2>2
  <2>4. at = "tail" <=> p = "sent"
    BY <1>4, <2>1, <2>3
  <2>5. ~hard' /\ ~running'
    BY <1>16, <2>2, <2>3 DEF Lock
  <2>6. Lock(b)'
    BY <1>4, <2>3, <2>5 DEF Lock, InFlight
  <2>7. Drive(b)'
    BY <1>4, <1>16, <1>17, <2>2, <2>3, <2>4 DEF Drive, Tidy
  <2>8. Paid(b)' /\ Held(b)'
    BY <1>16, <1>17, <2>2, <2>3, <2>4 DEF Paid, Owed, Held, Begun, InFlight
  <2> QED
    BY <1>20, <2>3, <2>6, <2>7, <2>8 DEF CallInv
<1>44. ASSUME Send
       PROVE  Kept
  <2>1. PICK at \in {"sent", "failed"} :
           /\ InCommand("send") /\ Goto(at) /\ bus' \in {bus, "down"}
           /\ IF at = "sent" THEN drive' = Effect(Last(stack).fn)
                             ELSE drive' = drive /\ bus' # "up"
    BY <1>44 DEF Send
  <2>2. UNCHANGED <<depth, exfuncs, exflags, child, sent, hard, caught, turns, didintr,
                    running, cb_fun>>
    BY <1>44 DEF Send, program, flags, environment
  <2>3. /\ n = b /\ b > 1 /\ InCmd(b) /\ InCmd(b)' /\ stack[b].at = "send"
        /\ stack' \in Seq(Frames) /\ Len(stack') = b /\ stack'[b].at = at
        /\ stack'[b].fn = stack[b].fn
        /\ \A i \in 1 .. b - 1 : stack'[i] = stack[i]
        /\ stack'[1] = stack[1] /\ Chain(b)' /\ Progress(b)'
    BY <1>40, <2>1, <2>2
  <2>4. bus' \in {"up", "down"} /\ (bus' = "up" => bus = "up") /\ (at = "failed" => bus' = "down")
    BY <1>2, <2>1 DEF ExitTypeOK
  <2>5. ~hard' /\ running'
    BY <1>16, <2>2, <2>3 DEF Lock, InFlight
  <2>6. Lock(b)'
    BY <1>4, <2>3, <2>5 DEF Lock, InFlight
  \* Only main locks the door and writes, and not while exscsi() is at work
  <2>7. stack[b].fn \in {"lock", "write"} =>
           b = 2 /\ stack[1].fn = "main" /\ stack[1].at # "quit"
    <3>1. PICK j \in 1 .. b - 1 : j = b - 1 /\ j + 1 = b
      BY <1>4, <2>3
    <3>2. <<stack[j].fn, stack[j].at, stack[b].fn>> \in CallSites
      BY <1>6, <3>1
    <3>3. \A f, at_, g : <<f, at_, g>> \in CallSites /\ g \in {"lock", "write"} =>
             f = "main" /\ at_ # "quit"
      BY DEF CallSites
    <3>4. j = 1 \/ j \in 2 .. b
      BY <1>4, <3>1
    <3> QED
      BY <1>4, <1>8, <1>17, <3>1, <3>2, <3>3, <3>4
  <2>8. /\ stack[b].fn \notin {"lock", "write"} =>
              /\ drive'.locked => drive.locked
              /\ drive'.cached => drive.cached
              /\ drive'.sized => drive.sized
        /\ at = "sent" => CASE stack[b].fn = "flush"   -> ~drive'.cached
                            [] stack[b].fn = "secsize" -> ~drive'.sized
                            [] stack[b].fn = "unlock"  -> ~drive'.locked
                            [] OTHER                   -> TRUE
    <3>1. drive \in [locked : BOOLEAN, cached : BOOLEAN, sized : BOOLEAN]
      BY <1>2 DEF ExitTypeOK
    <3>2. Last(stack).fn = stack[b].fn
      BY <1>4, <2>3
    <3> QED
      BY <2>1, <3>1, <3>2 DEF Effect
  <2>9. Drive(b)'
    <3>1. exflags' = 1 => Tidy' /\ (Exiting' \/ Bottom("main", {"quit"})')
      <4> SUFFICES ASSUME exflags' = 1
                   PROVE  Tidy' /\ (Exiting' \/ Bottom("main", {"quit"})')
        OBVIOUS
      <4>1. exflags = 1
        BY <2>2
      <4>2. Tidy /\ (Exiting \/ Bottom("main", {"quit"}))
        BY <1>16, <4>1 DEF Drive
      <4>3. stack[b].fn \notin {"lock", "write"}
        BY <1>17, <2>7, <4>2
      <4>4. Tidy'
        BY <2>8, <4>2, <4>3 DEF Tidy
      <4> QED
        BY <1>17, <2>3, <4>2, <4>4
    <3>2. \A i \in 1 .. b : stack'[i].fn = "exscsi" =>
             /\ i \in 1 .. b - 1 /\ i # b /\ stack'[i] = stack[i]
             /\ stack[b].fn \notin {"lock", "write"}
      <4>1. \A i \in 1 .. b : (i \in 1 .. b - 1 /\ i # b) \/ i = b
        BY <1>4
      <4>2. stack'[b].fn # "exscsi"
        BY <1>17, <2>3
      <4>3. stack[b].fn \in {"lock", "write"} => \A i \in 1 .. b - 1 : stack'[i].fn # "exscsi"
        BY <2>3, <2>7
      <4> QED
        BY <2>3, <4>1, <4>2, <4>3
    <3>3. \A i \in 1 .. b : stack'[i].fn = "exscsi" =>
             /\ stack'[i].at \in {"restored", "mark"} => ~drive'.cached
             /\ stack'[i].at = "mark" => ~drive'.sized
             /\ i # b
      BY <1>16, <2>8, <3>2 DEF Drive
    <3>4. InCmd(b)' /\ stack'[b].at \in {"sent", "tail"} =>
             CASE stack'[b].fn = "flush"   -> ~drive'.cached
               [] stack'[b].fn = "secsize" -> ~drive'.sized
               [] stack'[b].fn = "unlock"  -> ~drive'.locked
               [] OTHER                    -> TRUE
      BY <2>1, <2>3, <2>8
    <3> QED
      BY <3>1, <3>3, <3>4 DEF Drive
  <2>10. Paid(b)'
    <3>1. Owed(b)' = Owed(b)
      BY <1>17, <2>2, <2>3 DEF Owed, Begun, InFlight
    <3>2. Exiting' <=> Exiting
      BY <1>17, <2>3
    <3> QED
      BY <1>16, <1>17, <2>2, <2>3, <2>4, <3>1, <3>2 DEF Paid
  <2>11. Held(b)'
    BY <1>16, <1>17, <2>2, <2>3 DEF Held, Begun, InFlight
  <2> QED
    BY <1>20, <2>3, <2>6, <2>9, <2>10, <2>11 DEF CallInv
<1>45. ASSUME CommandEnds
       PROVE  Kept
  <2>1. InCommand("tail") /\ ~cb_fun /\ Return
    BY <1>45 DEF CommandEnds
  <2>2. UNCHANGED <<depth, running, cb_fun, bus, sent, hard, caught, turns, didintr, exfuncs,
                    exflags, child, drive>>
    BY <1>45 DEF CommandEnds, program, flags, transport, environment
  <2>3. /\ n = b /\ stack[b].fn \in Commands /\ stack[b].at = "tail"
        /\ stack[b].fn \notin {"main", "comexit"}
    BY <1>39, <2>1
  <2>4. /\ b > 1 /\ Len(stack') = b - 1 /\ \A i \in 1 .. b - 1 : stack'[i] = stack[i]
        /\ <<stack[b - 1].fn, stack[b - 1].at, stack[b].fn>> \in CallSites
        /\ stack[b - 1].fn \in {"main", "comexit", "excdr", "exscsi"}
        /\ stack[b - 1].fn \in {"main", "comexit"} => b = 2
    BY <1>35, <2>1, <2>3
  <2>5. /\ stack'[1] = stack[1] /\ stack'[b - 1] = stack[b - 1]
        /\ b # 2 => stack'[2] = stack[2]
    BY <1>4, <2>4
  <2>6. /\ stack[b - 1].fn # "comexit"
        /\ stack[b - 1].fn = "main" => stack[b - 1].at # "quit"
        /\ stack[b - 1].fn = "excdr" => stack[b - 1].at = "kill"
        /\ stack[b - 1].fn = "exscsi" =>
              \/ stack[b - 1].at = "flushed" /\ stack[b].fn = "flush"
              \/ stack[b - 1].at = "restored" /\ stack[b].fn = "secsize"
              \/ stack[b - 1].at = "mark" /\ stack[b].fn = "unlock"
    <3>1. \A f, at, g : <<f, at, g>> \in CallSites /\ g \in Commands =>
             /\ f # "comexit" /\ (f = "main" => at # "quit") /\ (f = "excdr" => at = "kill")
             /\ f = "exscsi" => \/ at = "flushed" /\ g = "flush"
                                \/ at = "restored" /\ g = "secsize"
                                \/ at = "mark" /\ g = "unlock"
      BY DEF CallSites, Commands
    <3> QED
      BY <2>3, <2>4, <3>1
  <2>7. Progress(b - 1)'
    <3>1. (Restored' <=> Restored) /\ (Stopped' <=> Stopped)
      BY <2>2, Zenon DEF Restored, Stopped
    <3>2. \A i \in 1 .. b - 1 : stack'[i].fn = "excdr" =>
             /\ i = b - 1 => stack'[i].at = "kill"
             /\ stack'[i].at = "kill" => Restored
             /\ stack'[i].at = "wait" => Restored /\ child # "alive"
      <4>1. \A i \in 1 .. b - 1 : i \in 1 .. b
        BY <1>4
      <4> QED
        BY <1>16, <2>4, <2>6, <4>1 DEF Progress
    <3>3. /\ ~(Bottom("main", {"quit"})' /\ b - 1 = 1)
          /\ Bottom("comexit", {"next"})' => b # 2
      BY <1>4, <1>17, <2>5, <2>6
    <3>4. /\ exfuncs \in {<<>>, <<"exscsi">>, <<"excdr", "exscsi">>}
          /\ exfuncs # <<"excdr", "exscsi">> => Stopped
          /\ exfuncs = <<>> => Restored
      BY <1>16 DEF Progress
    <3>5. Bottom("main", {"load", "fork"})' => exfuncs = <<"exscsi">>
      BY <1>16, <1>17, <2>5 DEF Progress
    <3>6. Bottom("comexit", {"next"})' =>
             exfuncs # <<>> /\ b - 1 # 1 /\ stack'[2].fn = exfuncs[1]
      BY <1>4, <1>16, <1>17, <2>4, <2>5, <3>3 DEF Progress
    <3>7. exfuncs' = exfuncs /\ child' = child
      BY <2>2
    <3> QED
      BY <3>1, <3>2, <3>3, <3>4, <3>5, <3>6, <3>7 DEF Progress
  <2>8. Drive(b - 1)'
    <3>1. /\ stack[b].fn = "flush" => ~drive.cached
          /\ stack[b].fn = "secsize" => ~drive.sized
          /\ stack[b].fn = "unlock" => ~drive.locked
      BY <1>16, <1>17, <2>3 DEF Drive
    <3>2. \A i \in 1 .. b - 1 : stack'[i].fn = "exscsi" =>
             /\ stack'[i].at \in {"restored", "mark"} => ~drive.cached
             /\ stack'[i].at = "mark" => ~drive.sized
             /\ i = b - 1 => CASE stack'[i].at = "flushed"  -> ~drive.cached
                               [] stack'[i].at = "restored" -> ~drive.sized
                               [] stack'[i].at = "mark"     -> ~drive.locked
                               [] OTHER                     -> TRUE
      <4>1. \A i \in 1 .. b - 1 : i \in 1 .. b
        BY <1>4
      <4>2. \A i \in 1 .. b - 1 : stack'[i].fn = "exscsi" =>
               /\ stack'[i].at \in {"restored", "mark"} => ~drive.cached
               /\ stack'[i].at = "mark" => ~drive.sized
        BY <1>16, <2>4, <4>1 DEF Drive
      <4>3. stack'[b - 1].fn = "exscsi" =>
               CASE stack'[b - 1].at = "flushed"  -> ~drive.cached
                 [] stack'[b - 1].at = "restored" -> ~drive.sized
                 [] stack'[b - 1].at = "mark"     -> ~drive.locked
                 [] OTHER                         -> TRUE
        BY <2>5, <2>6, <3>1
      <4> QED
        BY <4>2, <4>3
    <3>3. ~InCmd(b - 1)'
      BY <1>17, <2>4, <2>5
    <3>4. exflags' = 1 => Tidy' /\ (Exiting' \/ Bottom("main", {"quit"})')
      BY <1>16, <1>17, <2>2, <2>5 DEF Drive, Tidy
    <3>5. drive' = drive
      BY <2>2
    <3> QED
      BY <3>2, <3>3, <3>4, <3>5 DEF Drive
  <2> QED
    BY <1>17, <1>36, <2>1, <2>2, <2>3, <2>7, <2>8
\* A call of comexit(), from wherever it is made
<1>46. ASSUME CallComexit, UNCHANGED <<running, cb_fun, drive, bus, sent>>,
              ~hard => (running => hard'), hard => hard', hard' => running, hard' \in BOOLEAN,
              bus = "up" => depth + 1 <= sent + 1
       PROVE  Kept
  <2>1. /\ stack' \in Seq(Frames) /\ Len(stack') = 1
        /\ stack'[1].fn = "comexit" /\ stack'[1].at = "loop" /\ Chain(1)'
    BY <1>13, <1>46 DEF Frame
  <2>2. depth' = depth + 1 /\ UNCHANGED <<exfuncs, exflags, child, turns, didintr>>
    BY <1>46 DEF CallComexit, flags
  <2>3. Lock(1)'
    <3>1. hard' <=> running'
      BY <1>46
    <3> QED
      BY <1>17, <2>1, <3>1 DEF Lock
  <2>4. Progress(1)'
    <3>1. (Stopped' <=> Stopped) /\ (Restored => Restored')
      BY <1>46, <2>2 DEF Stopped, Restored
    <3> QED
      BY <1>16, <1>17, <2>1, <2>2, <3>1 DEF Progress
  <2>5. Drive(1)'
    BY <1>16, <1>17, <1>46, <2>1, <2>2 DEF Drive, Tidy
  <2>6. Paid(1)'
    BY <1>17, <1>46, <2>1, <2>2 DEF Paid, Owed
  <2>7. Held(1)'
    BY <1>17, <2>1 DEF Held
  <2> QED
    BY <1>20, <2>1, <2>3, <2>4, <2>5, <2>6, <2>7 DEF CallInv
<1>47. ASSUME GiveUp \/ End
       PROVE  Kept
  <2>1. PICK p \in {"grace", "write", "fixate", "end"} : At("main", p) /\ CallComexit
    BY <1>47 DEF GiveUp, End
  <2>2. UNCHANGED <<running, cb_fun, drive, bus, sent, hard>>
    BY <1>47 DEF GiveUp, End, transport, environment
  <2>3. n = 1 /\ b = 1 /\ stack[1].fn = "main"
    BY <1>9, <1>17, <2>1
  <2>4. ~hard /\ ~running /\ ~Exiting /\ ~InCmd(b)
    BY <1>16, <1>17, <2>3 DEF Lock
  <2>5. bus = "up" => depth + 1 <= sent + 1
    <3>1. depth \in Nat /\ sent \in Nat
      BY <1>2 DEF ExitTypeOK
    <3>2. bus = "up" => depth + (1 - 1) + 0 <= sent + 0
      BY <1>16, <1>17, <2>3, <2>4 DEF Paid, Owed
    <3> QED
      BY <3>1, <3>2
  <2>6. hard' = hard /\ hard \in BOOLEAN
    BY <1>2, <2>2 DEF ExitTypeOK
  <2> QED
    BY <1>46, <2>1, <2>2, <2>4, <2>5, <2>6
<1>48. ASSUME CommandExits
       PROVE  Kept
  <2>1. /\ InCommand("comerr") \/ (InCommand("tail") /\ cb_fun)
        /\ CallComexit
    BY <1>48 DEF CommandExits
  <2>2. UNCHANGED <<running, cb_fun, drive, bus, sent, hard>>
    BY <1>48 DEF CommandExits, transport, environment
  <2>3. /\ n = b /\ InCmd(b) /\ stack[b].at \in {"comerr", "tail"}
        /\ stack[b].at = "tail" => cb_fun
    BY <1>17, <1>39, <2>1
  <2>4. ~hard /\ ~running
    BY <1>16, <2>3 DEF Lock, InFlight
  <2>5. bus = "up" => depth + 1 <= sent + 1
    <3>1. depth \in Nat /\ sent \in Nat
      BY <1>2 DEF ExitTypeOK
    <3>2. bus = "up" => stack[b].at = "tail" /\ cb_fun
      BY <1>16, <2>3 DEF Paid
    <3>3. bus = "up" => depth + (b - b) + 1 <= sent + (IF Exiting THEN 1 ELSE 0)
      BY <1>16, <1>17, <2>3, <3>2 DEF Paid, Owed, Begun
    <3> QED
      BY <1>4, <3>1, <3>3
  <2>6. hard' = hard /\ hard \in BOOLEAN
    BY <1>2, <2>2 DEF ExitTypeOK
  <2> QED
    BY <1>46, <2>1, <2>2, <2>4, <2>5, <2>6
\* intfifo()
<1>49. ASSUME NEW p, InHandler(p)
       PROVE  /\ n > b /\ n \in b + 1 .. n /\ stack[n].fn \in Signals /\ stack[n].at = p
              /\ p # "running" => running
              /\ outcome = "running"
  <2>1. PICK s \in Signals : At(s, p)
    BY <1>49 DEF InHandler
  <2>2. n > b /\ stack[n].fn = s /\ stack[n].at = p /\ outcome = "running"
    BY <1>9, <2>1
  <2>3. n \in b + 1 .. n
    BY <1>4, <2>2
  <2> QED
    BY <1>16, <1>17, <2>2, <2>3 DEF Lock
<1>50. ASSUME ExitAtOnce
       PROVE  Kept
  <2>1. PICK p \in {"running", "second"} :
           /\ InHandler(p) /\ CallComexit
           /\ \/ p = "running" /\ ~running /\ hard' = hard
              \/ p = "second" /\ hard' = TRUE
    BY <1>50 DEF ExitAtOnce
  <2>2. UNCHANGED <<running, cb_fun, drive, bus, sent>>
    BY <1>50 DEF ExitAtOnce, transport
  <2>3. n > b /\ (p = "second" => running)
    BY <1>49, <2>1
  <2>4. bus = "up" => depth + 1 <= sent + 1
    <3> DEFINE o == Owed(b)
               e == IF Exiting THEN 1 ELSE 0
    <3>1. depth \in Nat /\ sent \in Nat /\ o \in {0, 1} /\ e \in {0, 1}
      BY <1>2 DEF ExitTypeOK, Owed
    <3>2. bus = "up" => depth + (n - b) + o <= sent + e
      BY <1>16, <1>17 DEF Paid
    <3> HIDE DEF o, e
    <3> QED
      BY <1>4, <2>3, <3>1, <3>2
  <2>5. /\ ~hard => (running => hard')
        /\ hard => hard'
        /\ hard' => running
        /\ hard' \in BOOLEAN
    <3>1. hard \in BOOLEAN /\ (hard => running)
      BY <1>2, <1>16 DEF ExitTypeOK, Lock
    <3>2. (~running /\ hard' = hard) \/ (running /\ hard' = TRUE)
      BY <2>1, <2>3
    <3>3. CASE ~running /\ hard' = hard
      <4>1. hard = FALSE /\ hard' = FALSE
        BY <3>1, <3>3
      <4> QED
        BY <3>3, <4>1
    <3>4. CASE running /\ hard' = TRUE
      BY <3>4
    <3> QED
      BY <3>2, <3>3, <3>4
  <2> QED
    BY <1>46, <2>1, <2>2, <2>4, <2>5
<1>51. ASSUME LetRun \/ First
       PROVE  Kept
  <2>1. PICK p \in {"running", "second"}, at \in {"second", "store"} :
           InHandler(p) /\ Goto(at) /\ (p = "running" => running)
    BY <1>51 DEF LetRun, First
  <2>2. UNCHANGED <<depth, exfuncs, exflags, running, cb_fun, child, drive, bus, sent,
                    hard, caught, turns, didintr>>
    BY <1>51 DEF LetRun, First, program, flags, transport, environment
  <2>3. n > b /\ stack[n].fn \in Signals /\ running
    BY <1>49, <2>1
  <2>4. at \in PlacesOf(stack[n].fn) /\ at \in Places
    BY <1>5, <2>3 DEF Places
  <2>5. /\ stack' \in Seq(Frames) /\ Len(stack') = n
        /\ \A i \in 1 .. n - 1 : stack'[i] = stack[i]
        /\ Chain(b)'
    BY <1>10, <2>1, <2>4
  <2>6. /\ \A i \in 1 .. b : stack'[i] = stack[i]
        /\ stack'[1] = stack[1] /\ stack'[b] = stack[b] /\ (b # 1 => stack'[2] = stack[2])
    BY <1>4, <2>3, <2>5
  <2>7. (running' <=> running) /\ (hard' <=> hard)
    BY <2>2, Zenon
  <2>8. Lock(b)'
    BY <1>16, <1>17, <2>3, <2>6, <2>7 DEF Lock
  <2>9. Progress(b)'
    BY <1>4, <1>16, <1>17, <2>2, <2>6 DEF Progress, Stopped, Restored
  <2>10. Drive(b)'
    BY <1>16, <1>17, <2>2, <2>6 DEF Drive, Tidy
  <2>11. Paid(b)' /\ Held(b)'
    BY <1>4, <1>16, <1>17, <2>2, <2>3, <2>5, <2>6 DEF Paid, Owed, Held
  <2> QED
    BY <1>20, <2>5, <2>8, <2>9, <2>10, <2>11 DEF CallInv
<1>52. ASSUME SetCallback
       PROVE  Kept
  <2>1. InHandler("store") /\ cb_fun' = TRUE /\ Return
    BY <1>52 DEF SetCallback
  <2>2. UNCHANGED <<depth, exfuncs, exflags, running, child, drive, bus, sent,
                    hard, caught, turns, didintr>>
    BY <1>52 DEF SetCallback, program, flags, environment
  <2>3. n > b /\ running
    BY <1>49, <2>1
  <2>4. /\ stack' \in Seq(Frames) /\ Len(stack') = n - 1
        /\ \A i \in 1 .. n - 1 : stack'[i] = stack[i]
        /\ Chain(b)'
    BY <1>4, <1>12, <2>1, <2>3
  <2>5. /\ \A i \in 1 .. b : stack'[i] = stack[i]
        /\ stack'[1] = stack[1] /\ stack'[b] = stack[b] /\ (b # 1 => stack'[2] = stack[2])
    BY <1>4, <2>3, <2>4
  <2>6. (running' <=> running) /\ (hard' <=> hard)
    BY <2>2, Zenon
  <2>7. Lock(b)'
    BY <1>16, <1>17, <2>3, <2>5, <2>6 DEF Lock
  <2>8. Progress(b)'
    BY <1>4, <1>16, <1>17, <2>2, <2>5 DEF Progress, Stopped, Restored
  <2>9. Drive(b)'
    BY <1>16, <1>17, <2>2, <2>5 DEF Drive, Tidy
  <2>10. Paid(b)'
    <3>1. depth \in Nat /\ sent \in Nat /\ Owed(b) \in Nat /\ Owed(b)' \in {0, 1}
      BY <1>2 DEF ExitTypeOK, Owed
    <3>2. bus = "up" => depth + (n - b) + Owed(b) <= sent + (IF Exiting THEN 1 ELSE 0)
      BY <1>16, <1>17 DEF Paid
    <3>3. bus = "up" => depth + ((n - 1) - b) + Owed(b)' <= sent + (IF Exiting THEN 1 ELSE 0)
      BY <1>4, <2>3, <3>1, <3>2
    <3> QED
      BY <1>16, <1>17, <2>2, <2>4, <2>5, <3>3 DEF Paid
  <2>11. Held(b)'
    BY <1>16, <1>17, <2>1, <2>3, <2>5 DEF Held, Lock, Begun
  <2> QED
    BY <1>20, <2>4, <2>7, <2>8, <2>9, <2>10, <2>11 DEF CallInv
\* Steps that leave the stack and what the invariant says of it alone
<1>53. ASSUME stack' = stack,
              UNCHANGED <<depth, exfuncs, exflags, running, cb_fun, child, drive, bus, hard>>,
              sent' \in Nat, sent' >= sent, Held(b)'
       PROVE  Kept
  <2>1. Chain(b)' /\ Lock(b)' /\ Progress(b)' /\ Drive(b)' /\ Paid(b)'
    BY <1>18, <1>53
  <2> QED
    BY <1>3, <1>20, <1>53, <2>1 DEF CallInv
<1>54. UNCHANGED <<stack, cb_fun, caught, turns, didintr>> => Held(b)'
  BY <1>16 DEF Held, Exiting, InCmd, Bottom
<1>55. sent \in Nat /\ sent >= sent /\ sent + 1 \in Nat /\ sent + 1 >= sent
  BY <1>2 DEF ExitTypeOK
<1>56. ASSUME Wait
       PROVE  Kept
  <2>1. /\ n = 1 /\ b = 1 /\ stack[1].fn = "main" /\ ~didintr
        /\ UNCHANGED <<stack, depth, exfuncs, exflags, running, cb_fun, child, drive, bus,
                       hard, sent, caught>>
    BY <1>9, <1>56 DEF Wait, transport, environment
  <2>2. ~caught
    BY <1>16, <1>17, <2>1 DEF Held
  <2>3. Held(b)'
    BY <2>1, <2>2 DEF Held
  <2> QED
    BY <1>53, <1>55, <2>1, <2>3
<1>57. ASSUME KillSelf \/ Exit \/ AlreadyRunning \/ Overflow \/ UNCHANGED vars
       PROVE  Kept
  <2>1. UNCHANGED <<stack, depth, exfuncs, exflags, running, cb_fun, child, drive, bus,
                    hard, sent, caught, turns, didintr>>
    BY <1>57 DEF KillSelf, Exit, AlreadyRunning, Overflow, vars, transport, environment
  <2> QED
    BY <1>53, <1>54, <1>55, <2>1
\* A signal, by its disposition
<1>58. ASSUME NEW sig \in Signals, Deliver(sig)
       PROVE  Kept
  <2>1. /\ outcome = "running" /\ sent' = sent + 1
        /\ UNCHANGED <<depth, exfuncs, exflags, running, cb_fun, child, drive, bus, hard, turns>>
    BY <1>58 DEF Deliver, transport
  <2>2. CASE disp[sig] = "default"
    <3>1. UNCHANGED <<stack, didintr, caught>>
      BY <1>58, <2>2 DEF Deliver
    <3> QED
      BY <1>53, <1>54, <1>55, <2>1, <3>1
  <2>3. CASE disp[sig] = "intr"
    <3>1. /\ stack' = stack /\ didintr' = TRUE
          /\ caught' = (caught \/ (turns > 0 /\ At("main", "wait")))
      BY <1>58, <2>3 DEF Deliver
    <3>2. /\ caught' => caught \/ (turns > 0 /\ stack[1].fn = "main" /\ stack[1].at = "wait")
      <4>1. At("main", "wait") => stack[1].fn = "main" /\ stack[1].at = "wait"
        BY <1>9
      <4> QED
        BY <3>1, <4>1
    <3>3. Held(b)'
      BY <1>16, <1>17, <2>1, <3>1, <3>2 DEF Held
    <3> QED
      BY <1>53, <1>55, <2>1, <3>1, <3>3
  <2>4. CASE disp[sig] = "intfifo"
    <3>1. stack' = Append(stack, Frame(sig, "running"))
      BY <1>58, <2>4 DEF Deliver
    <3>2. /\ stack' \in Seq(Frames) /\ Len(stack') = n + 1
          /\ stack'[n + 1].at = "running"
          /\ \A i \in 1 .. n : stack'[i] = stack[i]
          /\ Chain(b)'
      <4>1. /\ stack' \in Seq(Frames) /\ Len(stack') = n + 1
            /\ stack'[n + 1] = Frame(sig, "running")
            /\ \A i \in 1 .. n : stack'[i] = stack[i]
            /\ Chain(b)'
        BY <1>14, <3>1
      <4> QED
        BY <4>1 DEF Frame
    <3>3. /\ \A i \in 1 .. b : stack'[i] = stack[i]
          /\ stack'[1] = stack[1] /\ stack'[b] = stack[b] /\ (b # 1 => stack'[2] = stack[2])
      BY <1>4, <3>2
    <3>4. (running' <=> running) /\ (hard' <=> hard)
      BY <2>1, Zenon
    <3>5. \A i \in b + 1 .. n + 1 : stack'[i].at # "running" => running
      <4>1. \A i \in b + 1 .. n + 1 : i = n + 1 \/ (i \in b + 1 .. n /\ i \in 1 .. n)
        BY <1>4
      <4>2. \A i \in b + 1 .. n : stack[i].at # "running" => running
        BY <1>16, <1>17 DEF Lock
      <4> QED
        BY <3>2, <4>1, <4>2
    <3>6. Lock(b)'
      BY <1>16, <1>17, <3>2, <3>3, <3>4, <3>5 DEF Lock
    <3>7. Progress(b)'
      BY <1>4, <1>16, <1>17, <2>1, <3>3 DEF Progress, Stopped, Restored
    <3>8. Drive(b)'
      BY <1>16, <1>17, <2>1, <3>3 DEF Drive, Tidy
    <3>9. Paid(b)'
      <4> DEFINE o == Owed(b)
                 e == IF Exiting THEN 1 ELSE 0
      <4>1. depth \in Nat /\ sent \in Nat /\ o \in {0, 1} /\ e \in {0, 1}
        BY <1>2 DEF ExitTypeOK, Owed
      <4>2. bus = "up" => depth + (n - b) + o <= sent + e
        BY <1>16, <1>17 DEF Paid
      <4>3. o = Owed(b)' /\ e = IF Exiting' THEN 1 ELSE 0
        BY <1>17, <2>1, <3>3 DEF Owed
      <4> HIDE DEF o, e
      <4>4. bus = "up" => depth + ((n + 1) - b) + o <= (sent + 1) + e
        BY <1>4, <4>1, <4>2
      <4>5. InCmd(b)' /\ stack'[b].at \in {"failed", "comerr"} => bus = "down"
        BY <1>16, <1>17, <3>3 DEF Paid
      <4> QED
        BY <2>1, <3>2, <4>3, <4>4, <4>5 DEF Paid
    <3>10. Held(b)'
      BY <1>4, <3>2 DEF Held
    <3> QED
      BY <1>20, <3>2, <3>6, <3>7, <3>8, <3>9, <3>10 DEF CallInv
  <2>5. disp[sig] \in {"default", "intr", "intfifo"}
    BY <1>2 DEF ExitTypeOK
  <2> QED
    BY <2>2, <2>3, <2>4, <2>5
<1>59. Kept
  <2>1. Next => \/ Main \/ ExitHandler \/ ScgCmd \/ Handler \/ Overflow
                \/ \E sig \in Signals : Deliver(sig)
                \/ UNCHANGED vars
    BY DEF Next, Step, Over
  <2>2. Main => Kept
    BY <1>22, <1>23, <1>24, <1>29, <1>30, <1>32, <1>47, <1>56, <1>57 DEF Main
  <2>3. ExitHandler => Kept
    BY <1>25, <1>26, <1>27, <1>31, <1>33, <1>34, <1>37, <1>38, <1>57 DEF ExitHandler
  <2>4. ScgCmd => Kept
    BY <1>41, <1>42, <1>43, <1>44, <1>45, <1>48, <1>57 DEF ScgCmd
  <2>5. Handler => Kept
    BY <1>50, <1>51, <1>52 DEF Handler
  <2>6. [Next]_vars => Next \/ UNCHANGED vars
    OBVIOUS
  <2> QED
    BY <1>57, <1>58, <2>1, <2>2, <2>3, <2>4, <2>5, <2>6
\* What a step does to the outcome
<1>60. LeavesTidy'
  <2>1. CASE outcome' = "running"
    BY <2>1 DEF LeavesTidy
  <2>2. CASE UNCHANGED vars
    BY <1>2, <2>2 DEF LeavesTidy, vars
  <2>3. CASE outcome' = "killed"
    BY <2>3 DEF LeavesTidy
  <2>4. ASSUME KillSelf \/ Exit
        PROVE  LeavesTidy'
    <3>1. n = 1 /\ b = 1 /\ Stopped /\ Restored
      <4>1. CASE KillSelf
        <5>1. n = 1 /\ b = 1 /\ stack[1].fn = "main" /\ stack[1].at = "quit"
          BY <1>9, <4>1 DEF KillSelf
        <5> QED
          BY <1>16, <1>17, <5>1 DEF Progress
      <4>2. CASE Exit
        <5>1. n = 1 /\ b = 1 /\ exfuncs = <<>>
          BY <1>9, <4>2 DEF Exit
        <5> QED
          BY <1>16, <5>1 DEF Progress
      <4> QED
        BY <2>4, <4>1, <4>2
    <3>2. outcome' \in {"exited", "quit"} /\ UNCHANGED <<child, drive, hard, exflags>>
      BY <2>4 DEF KillSelf, Exit, transport, environment
    <3>3. ~hard => Tidy
      BY <1>16, <3>1 DEF Restored, Drive
    <3> QED
      BY <3>1, <3>2, <3>3 DEF LeavesTidy, Stopped, Tidy
  <2>5. ASSUME AlreadyRunning
        PROVE  LeavesTidy'
    <3>1. InCommand("test") /\ running /\ outcome' = "aborted" /\ hard' = hard
      BY <2>5 DEF AlreadyRunning, environment
    <3>2. stack[b].at = "test"
      BY <1>39, <3>1
    <3>3. hard
      BY <1>16, <3>1, <3>2 DEF Lock, InFlight
    <3> QED
      BY <3>1, <3>3 DEF LeavesTidy
  <2>6. ASSUME Overflow
        PROVE  LeavesTidy'
    <3>1. depth > MaxDepth /\ outcome' = "crashed" /\ bus' = bus
      BY <2>6 DEF Overflow, transport
    <3>2. bus # "up"
      <4> DEFINE o == Owed(b)
                 e == IF Exiting THEN 1 ELSE 0
      <4>1. depth \in Nat /\ sent \in 0 .. MaxSignals /\ o \in {0, 1} /\ e \in {0, 1}
        BY <1>2 DEF ExitTypeOK, Owed
      <4>2. bus = "up" => depth + (n - b) + o <= sent + e
        BY <1>16, <1>17 DEF Paid
      <4>3. MaxSignals \in Nat /\ MaxDepth \in Nat /\ MaxSignals < MaxDepth
        BY BoundsAssumption, StackAssumption
      <4> HIDE DEF o, e
      <4> QED
        BY <1>4, <3>1, <4>1, <4>2, <4>3
    <3>3. bus' = "down"
      BY <1>2, <3>1, <3>2 DEF ExitTypeOK
    <3> QED
      BY <3>1, <3>3 DEF LeavesTidy
  <2>7. \/ outcome' = "running" \/ UNCHANGED vars \/ outcome' = "killed"
        \/ KillSelf \/ Exit \/ AlreadyRunning \/ Overflow
    <3>1. Main => KillSelf \/ outcome' = "running"
      <4>1. CallComexit => outcome' = outcome
        BY DEF CallComexit, flags
      <4> QED
        BY <4>1 DEF Main, Load, Fork, GiveUp, Grace, Wait, Quit, NoMoreGrace, Handlers, Install,
                    Write, Stats, End, At, program, flags
    <3>2. ExitHandler => Exit \/ outcome' = "running"
      BY DEF ExitHandler, CallHandler, NextHandler, CallExscsi, Stats, KillFaio, WaitFaio, Skip,
             Restore, Mark, At, program, flags
    <3>3. ScgCmd => AlreadyRunning \/ outcome' = "running"
      <4>1. CallComexit => outcome' = outcome
        BY DEF CallComexit, flags
      <4> QED
        BY <1>39, <4>1 DEF ScgCmd, ClearCallback, SetRunning, Send, ClearRunning, CommandEnds,
                           CommandExits, program, flags
    <3>4. Handler => outcome' = "running"
      <4>1. CallComexit => outcome' = outcome
        BY DEF CallComexit, flags
      <4> QED
        BY <1>49, <4>1 DEF Handler, LetRun, ExitAtOnce, First, SetCallback, program, flags
    <3>5. ASSUME NEW sig \in Signals, Deliver(sig)
          PROVE  outcome' \in {"running", "killed"}
      <4>1. disp[sig] \in {"default", "intr", "intfifo"}
        BY <1>2 DEF ExitTypeOK
      <4> QED
        BY <3>5, <4>1 DEF Deliver
    <3>6. Next => \/ Main \/ ExitHandler \/ ScgCmd \/ Handler \/ Overflow
                  \/ \E sig \in Signals : Deliver(sig)
                  \/ UNCHANGED vars
      BY DEF Next, Step, Over
    <3> QED
      BY <3>1, <3>2, <3>3, <3>4, <3>5, <3>6
  <2> QED
    BY <2>1, <2>2, <2>3, <2>4, <2>5, <2>6, <2>7
\* The types
<1>61. PICK c \in 1 .. Len(stack') : CallInv(c)'
  BY <1>59 DEF Kept
<1>62. ExitTypeOK'
  <2> DEFINE Dispositions == [Signals -> {"default", "intr", "intfifo"}]
             Drives == [locked : BOOLEAN, cached : BOOLEAN, sized : BOOLEAN]
             \* what main and the handlers change, and what scg_cmd() and signals do
             Own == /\ depth \in 0 .. MaxDepth + 1 /\ masked \subseteq Signals
                    /\ turns \in 0 .. GraceTime /\ left \in 0 .. Writes
                    /\ didintr \in BOOLEAN /\ did_stat \in BOOLEAN
                    /\ exflags \in {0, 1} /\ disp \in Dispositions
                    /\ child \in {"none", "alive", "killed", "reaped"}
                    /\ outcome \in {"running", "exited", "quit", "killed", "aborted", "crashed"}
             Rest == /\ running \in BOOLEAN /\ cb_fun \in BOOLEAN /\ resets \in BOOLEAN
                     /\ hard \in BOOLEAN /\ caught \in BOOLEAN
                     /\ drive \in Drives /\ bus \in {"up", "down"} /\ sent \in 0 .. MaxSignals
  <2>1. Own /\ Rest
    BY <1>2 DEF ExitTypeOK
  <2>2. stack' \in Seq([fn : {"main", "comexit", "excdr", "exscsi"} \union Commands
                                \union Signals, at : Places]) /\ stack' # <<>>
    BY <1>59 DEF Kept, Frames, FrameNames
  <2>3. exfuncs' \in Seq({"excdr", "exscsi"})
    <3>1. Progress(c)'
      BY <1>61 DEF CallInv
    <3>2. exfuncs' \in {<<>>, <<"exscsi">>, <<"excdr", "exscsi">>}
      BY <3>1 DEF Progress
    <3>3. /\ <<>> \in Seq({"excdr", "exscsi"}) /\ <<"exscsi">> \in Seq({"excdr", "exscsi"})
          /\ <<"excdr", "exscsi">> \in Seq({"excdr", "exscsi"})
      OBVIOUS
    <3> QED
      BY <3>2, <3>3
  <2>4. GraceTime \in Nat /\ Writes \in Nat /\ MaxSignals \in Nat /\ MaxDepth \in Nat
    BY BoundsAssumption
  <2>5. \A sig \in Signals, h \in {"default", "intr", "intfifo"} :
           [disp EXCEPT ![sig] = h] \in Dispositions
    BY <2>1
  <2> HIDE DEF Dispositions, Drives
  <2>6. UNCHANGED <<depth, masked, turns, left, didintr, did_stat, exflags, disp, child, outcome>>
           => Own'
    BY <2>1
  <2>7. UNCHANGED <<running, cb_fun, resets, hard, caught, drive, bus, sent>> => Rest'
    BY <2>1
  <2>8. CallComexit /\ depth <= MaxDepth => Own'
    <3>1. Handling \subseteq Signals
      BY DEF Handling
    <3> QED
      BY <2>1, <2>4, <3>1 DEF CallComexit, flags
  <2> HIDE DEF Rest
  <2>9. ASSUME Main, depth <= MaxDepth
        PROVE  Own' /\ Rest'
    <3>1. Load \/ Quit => Own'
      BY <2>6 DEF Load, Quit, program, flags
    <3>2. Fork => Own'
      BY <2>1 DEF Fork
    <3>3. GiveUp \/ End => Own'
      BY <2>8, <2>9 DEF GiveUp, End
    <3>4. Grace => Own'
      BY <2>1, <2>5 DEF Grace, Signals
    <3>5. Wait => Own'
      BY <2>1, <2>4 DEF Wait
    <3>6. KillSelf => Own'
      BY <2>1, <2>5 DEF KillSelf, Signals
    <3>7. NoMoreGrace \/ Handlers => Own'
      BY <2>1, <2>5 DEF NoMoreGrace, Handlers, Install, Signals
    <3>8. Write => Own'
      BY <2>1, <2>4 DEF Write
    <3>9. Stats("main", "fixate", "end") => Own'
      BY <2>1 DEF Stats
    <3>10. Main => UNCHANGED <<running, cb_fun, resets, hard, caught, drive, bus, sent>>
      BY DEF Main, Load, Fork, GiveUp, Grace, Wait, Quit, KillSelf, NoMoreGrace, Handlers,
             Install, Write, Stats, End, transport, environment
    <3> QED
      BY <2>7, <2>9, <3>1, <3>2, <3>3, <3>4, <3>5, <3>6, <3>7, <3>8, <3>9, <3>10 DEF Main
  <2>10. ASSUME ExitHandler
         PROVE  Own' /\ Rest'
    <3>1. CallHandler \/ CallExscsi \/ Skip \/ Restore \/ NextHandler => Own'
      BY <2>6 DEF CallHandler, CallExscsi, Skip, Restore, NextHandler, program, flags
    <3>2. Exit \/ Mark \/ KillFaio \/ WaitFaio \/ Stats("excdr", "stats", "kill") => Own'
      BY <2>1 DEF Exit, Mark, KillFaio, WaitFaio, Stats
    <3>3. ExitHandler => UNCHANGED <<running, cb_fun, resets, hard, caught, drive, bus, sent>>
      BY DEF ExitHandler, CallHandler, NextHandler, Exit, CallExscsi, Stats, KillFaio, WaitFaio,
             Skip, Restore, Mark, transport, environment
    <3> QED
      BY <2>7, <2>10, <3>1, <3>2, <3>3 DEF ExitHandler
  <2>11. ASSUME ScgCmd, depth <= MaxDepth
         PROVE  Own' /\ Rest'
    <3>1. ClearCallback \/ SetRunning \/ Send \/ ClearRunning \/ CommandEnds => Own'
      BY <2>6 DEF ClearCallback, SetRunning, Send, ClearRunning, CommandEnds, program, flags
    <3>2. AlreadyRunning => Own'
      BY <2>1 DEF AlreadyRunning
    <3>3. CommandExits => Own'
      BY <2>8, <2>11 DEF CommandExits
    <3>4. AlreadyRunning \/ CommandEnds \/ CommandExits => Rest'
      BY <2>7 DEF AlreadyRunning, CommandEnds, CommandExits, transport, environment
    <3>5. ClearCallback \/ SetRunning \/ ClearRunning => Rest'
      BY <2>1 DEF ClearCallback, SetRunning, ClearRunning, environment, Rest
    <3>6. Send => Rest'
      <4>1. \A what : Effect(what) \in Drives
        BY <2>1 DEF Effect, Rest, Drives
      <4> QED
        BY <2>1, <4>1 DEF Send, environment, Rest
    <3> QED
      BY <2>11, <3>1, <3>2, <3>3, <3>4, <3>5, <3>6 DEF ScgCmd
  <2>12. ASSUME Handler, depth <= MaxDepth
         PROVE  Own' /\ Rest'
    <3>1. LetRun \/ First \/ SetCallback => Own'
      BY <2>6 DEF LetRun, First, SetCallback, program, flags
    <3>2. ExitAtOnce => Own'
      BY <2>8, <2>12 DEF ExitAtOnce
    <3>3. LetRun \/ First => Rest'
      BY <2>7 DEF LetRun, First, transport, environment
    <3>4. SetCallback \/ ExitAtOnce => Rest'
      BY <2>1 DEF SetCallback, ExitAtOnce, transport, environment, Rest
    <3> QED
      BY <2>12, <3>1, <3>2, <3>3, <3>4 DEF Handler
  <2>13. ASSUME NEW sig \in Signals, Deliver(sig)
         PROVE  Own' /\ Rest'
    <3>1. /\ sent' = sent + 1 /\ sent < MaxSignals
          /\ UNCHANGED <<depth, masked, exflags, turns, left, did_stat, child, running, cb_fun,
                         drive, bus, resets, hard>>
      BY <2>13 DEF Deliver, transport
    <3>2. disp[sig] \in {"default", "intr", "intfifo"}
      BY <1>2 DEF ExitTypeOK
    <3>3. /\ didintr' \in BOOLEAN /\ caught' \in BOOLEAN
          /\ outcome' \in {outcome, "killed"}
          /\ disp' \in {disp, [disp EXCEPT ![sig] = "default"]}
      <4>1. CASE disp[sig] = "default"
        BY <2>1, <2>13, <4>1 DEF Deliver, Rest
      <4>2. CASE disp[sig] = "intr"
        BY <2>1, <2>13, <4>2 DEF Deliver, Rest
      <4>3. CASE disp[sig] = "intfifo"
        BY <2>1, <2>13, <4>3 DEF Deliver, Rest
      <4> QED
        BY <3>2, <4>1, <4>2, <4>3
    <3>4. Own'
      BY <2>1, <2>5, <3>1, <3>3
    <3>5. Rest'
      BY <2>1, <2>4, <3>1, <3>3 DEF Rest
    <3> QED
      BY <3>4, <3>5
  <2>14. Overflow => Own' /\ Rest'
    BY <2>1, <2>7 DEF Overflow, transport, environment
  <2>15. UNCHANGED vars => Own' /\ Rest'
    BY <2>6, <2>7 DEF vars
  <2>16. [Next]_vars => \/ depth <= MaxDepth /\ (Main \/ ScgCmd \/ Handler)
                        \/ ExitHandler \/ Overflow
                        \/ \E sig \in Signals : Deliver(sig)
                        \/ UNCHANGED vars
    BY DEF Next, Step, Over
  <2>17. Own' /\ Rest'
    BY <2>9, <2>10, <2>11, <2>12, <2>13, <2>14, <2>15, <2>16
  <2> QED
    BY <2>2, <2>3, <2>17 DEF ExitTypeOK, Rest, Dispositions, Drives
<1> QED
  BY <1>60, <1>61, <1>62 DEF Inv
-----------------------------------------------------------------------------
(* What is on the stack, what each call has done by the place it has        *)
(* reached, and what pays for the next call of comexit(): always.           *)
THEOREM ExitInvariant == Spec => []Inv
<1>1. Init => Inv
  <2> SUFFICES ASSUME Init
               PROVE  Inv
    OBVIOUS
  <2> DEFINE f == Frame("main", "load")
  <2>1. f \in Frames /\ f.fn = "main" /\ f.at = "load"
    BY DEF Frame, Frames, FrameNames, Places
  <2>2. stack = <<f>>
    BY DEF Init
  <2> HIDE DEF f
  <2>3. stack \in Seq(Frames) /\ stack # <<>> /\ Len(stack) = 1 /\ stack[1] = f
    BY <2>1, <2>2
  <2>4. stack[1].fn = "main" /\ stack[1].at = "load" /\ "main" \notin Signals /\ "main" \notin Commands
    BY <2>1, <2>3 DEF Signals, Commands
  <2>5. Chain(1)
    BY <2>3, <2>4 DEF Chain, PlacesOf
  <2>6. ~Exiting /\ ~InCmd(1) /\ ~Bottom("main", {"quit"}) /\ ~Bottom("comexit", {"next"})
    BY <2>4 DEF Exiting, InCmd, Bottom
  <2>7. Lock(1) /\ Progress(1) /\ Held(1)
    BY <2>3, <2>4, <2>6 DEF Init, Lock, Progress, Held, Stopped
  <2>8. Drive(1) /\ Paid(1)
    BY <2>3, <2>4, <2>6 DEF Init, Drive, Paid, Owed
  <2>9. ExitTypeOK
    <3>1. /\ turns \in 0 .. GraceTime /\ left \in 0 .. Writes /\ depth \in 0 .. MaxDepth + 1
          /\ sent \in 0 .. MaxSignals
      BY BoundsAssumption DEF Init
    <3>2. exfuncs \in Seq({"excdr", "exscsi"})
      <4>1. <<"exscsi">> \in Seq({"excdr", "exscsi"})
        OBVIOUS
      <4> QED
        BY <4>1 DEF Init
    <3>3. stack \in Seq([fn : {"main", "comexit", "excdr", "exscsi"} \union Commands
                                \union Signals, at : Places])
      BY <2>3 DEF Frames, FrameNames
    <3>4. /\ masked \subseteq Signals /\ disp \in [Signals -> {"default", "intr", "intfifo"}]
          /\ drive \in [locked : BOOLEAN, cached : BOOLEAN, sized : BOOLEAN]
      BY DEF Init
    <3>5. /\ exflags \in {0, 1} /\ child \in {"none", "alive", "killed", "reaped"}
          /\ bus \in {"up", "down"}
          /\ outcome \in {"running", "exited", "quit", "killed", "aborted", "crashed"}
      BY DEF Init
    <3>6. {running, cb_fun, resets, didintr, did_stat, hard, caught} \subseteq BOOLEAN
      BY DEF Init
    <3> QED
      BY <2>3, <3>1, <3>2, <3>3, <3>4, <3>5, <3>6 DEF ExitTypeOK
  <2>10. LeavesTidy
    BY DEF Init, LeavesTidy
  <2> QED
    BY <2>3, <2>5, <2>7, <2>8, <2>9, <2>10 DEF CallInv, Inv
<1> QED
  BY <1>1, InvKept, PTL DEF Spec

(* However the exit handlers are interrupted and entered again, a program  *)
(* that ends by itself has reaped the FIFO process and given the drive     *)
(* back in order; only a second interrupt leaves it as it is.              *)
THEOREM LeavesTidyProved == Spec => []LeavesTidy
<1>1. Inv => LeavesTidy
  BY DEF Inv
<1> QED
  BY <1>1, ExitInvariant, PTL

(* After a signal that the program catches no write command is started:    *)
(* main is not where it writes, or something above it will not return.     *)
THEOREM NoNewWriteProved == Spec => NoNewWrite
<1>1. ASSUME Inv, [Next]_vars
      PROVE  [caught => left' = left]_vars
  <2>1. [Next]_vars => left' = left \/ Write
    <3>1. CallComexit => left' = left
      BY DEF CallComexit, flags
    <3>2. Main => left' = left \/ Write
      BY <3>1 DEF Main, Load, Fork, GiveUp, Grace, Wait, Quit, KillSelf, NoMoreGrace, Handlers,
                  Install, Stats, End, program, flags
    <3>3. ExitHandler => left' = left
      BY DEF ExitHandler, CallHandler, NextHandler, Exit, CallExscsi, Stats, KillFaio, WaitFaio,
             Skip, Restore, Mark, program, flags
    <3>4. ScgCmd => left' = left
      BY <3>1 DEF ScgCmd, AlreadyRunning, ClearCallback, SetRunning, Send, ClearRunning,
                  CommandEnds, CommandExits, program, flags
    <3>5. Handler => left' = left
      BY <3>1 DEF Handler, LetRun, ExitAtOnce, First, SetCallback, program, flags
    <3>6. /\ \A sig \in Signals : Deliver(sig) => left' = left
          /\ Overflow \/ Over \/ UNCHANGED vars => left' = left
      BY DEF Deliver, Overflow, Over, vars
    <3> QED
      BY <3>2, <3>3, <3>4, <3>5, <3>6 DEF Next, Step
  <2>2. ASSUME Write
        PROVE  ~caught
    <3>1. PICK b \in 1 .. Len(stack) : CallInv(b)
      BY <1>1 DEF Inv
    <3>2. /\ Len(stack) \in Nat \ {0} /\ stack[Len(stack)].fn = "main"
          /\ stack[Len(stack)].at = "write"
      <4>1. /\ stack \in Seq(Frames) /\ stack # <<>>
        BY <1>1 DEF Inv, ExitTypeOK, Frames, FrameNames
      <4>2. Len(stack) \in Nat \ {0} /\ Last(stack) = stack[Len(stack)]
        BY <4>1, StackSteps
      <4>3. Last(stack) = Frame("main", "write")
        BY <2>2 DEF Write, At
      <4> QED
        BY <4>2, <4>3 DEF Frame
    <3>3. Len(stack) = b
      BY <3>1, <3>2 DEF CallInv, Chain, Signals
    <3>4. b = 1
      <4>1. \A f, at, g : <<f, at, g>> \in CallSites => g # "main"
        BY DEF CallSites
      <4>2. \A i \in 1 .. b - 1 : stack[i + 1].fn # "main"
        BY <3>1, <4>1 DEF CallInv, Chain
      <4>3. b # 1 => b - 1 \in 1 .. b - 1
        BY <3>2, <3>3
      <4> QED
        BY <3>2, <3>3, <4>2, <4>3
    <3> QED
      BY <3>1, <3>2, <3>3, <3>4 DEF CallInv, Held, Exiting, InCmd, Bottom, Commands
  <2> QED
    BY <1>1, <2>1, <2>2
<1> QED
  BY <1>1, ExitInvariant, PTL DEF Spec, NoNewWrite
=============================================================================
