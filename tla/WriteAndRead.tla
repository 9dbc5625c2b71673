---------------------------- MODULE WriteAndRead ----------------------------
(***************************************************************************)
(* A disc burnt by cdrecord and then copied by readcd: what the options of *)
(* the first must be for the second to give the data back.                 *)
(***************************************************************************)
EXTENDS TrackWrite

\* What readcd may be asked to do and may meet: see Readcd
CONSTANTS Options, NoCapacity, Worn, ReadFaults

ASSUME OptionsAssumption ==
    /\ Options \subseteq [noerror : BOOLEAN, retries : Nat, chunk : Nat \ {0}]
    /\ Options # {}
    /\ NoCapacity \in Nat \ {0} /\ Worn \subseteq Nat
    /\ ReadFaults \subseteq {"output", "intr"}

VARIABLES hard, weak, opt, rpc, addr, cnt, end, sbuf, try, errors, saved,
          didintr, reason

\* The reader sees the medium from address 0 on
Medium == SubSeq(disc, 1 - Base, Len(disc))
Reader == INSTANCE Readcd WITH medium <- Medium

copy == <<hard, weak, opt, rpc, addr, cnt, end, sbuf, try, errors, saved,
          didintr, reason>>
allvars == <<vars, copy>>

BothInit == Init /\ Reader!ReadInit
BurnStep == Burn /\ UNCHANGED copy
CopyStep == outcome = "ok" /\ Reader!Copy /\ UNCHANGED vars
Signal == Reader!Interrupt /\ UNCHANGED vars
Ended == pc = "done" /\ (outcome = "ok" => rpc = "done")
Finished == Ended /\ UNCHANGED allvars
Next == BurnStep \/ CopyStep \/ Signal \/ Finished

Spec == BothInit /\ [][Next]_allvars

\* Reads from the input and commands to the drive return
FairSpec == Spec /\ WF_allvars(BurnStep) /\ WF_allvars(CopyStep)
-----------------------------------------------------------------------------
BothTypeOK == TypeOK /\ Reader!ReadTypeOK
ReadInPlace == Reader!InPlace

(* What was burnt without an error comes back from an undamaged disc in     *)
(* full, in its place and with nothing added, if the copy goes on over       *)
(* errors, or the disc has no run-out blocks (SAO), or the last track's      *)
(* padding fills what a chunk with the run-out blocks in it may take with   *)
(* it: read_generic() drops the whole chunk in which a sector fails.        *)
LastTrack == session.tracks[Len(session.tracks)]
PadFills ==
    /\ Len(session.tracks) = 1 /\ LastTrack.pkt # "variable" /\ ~padlost
    /\ LastTrack.pad >= opt.chunk - 1
DataSurvives ==
    /\ outcome = "ok" /\ reason \in {"finished", "readerr"}
    /\ hard \union weak = {}
    /\ opt.noerror \/ (opt.retries > 0 /\ (session.sao \/ PadFills))
    => /\ \A p \in 1 .. Len(Medium) :
             Medium[p][1] = "data" => p <= Len(saved) /\ saved[p] = Medium[p]
       /\ \A p \in 1 .. Len(saved) :
             saved[p][1] = "data" => p <= Len(Medium) /\ saved[p] = Medium[p]

(* Both programs come to an end: retries are bounded, also on a medium      *)
(* whose capacity is not known.                                             *)
BothEnd == <>Ended
=============================================================================
