---------------------------- MODULE RoundTripInv ----------------------------
(***************************************************************************)
(* The inductive invariant of WriteAndRead: that of the writer, and where  *)
(* the reader is on a medium that no longer changes.                       *)
(***************************************************************************)
EXTENDS WriteAndRead, TrackInv

(* The chunk at hand: as much of it was read as lies in sbuf, and the       *)
(* sector a copy ended at could be read in no attempt.                      *)
Reading ==
    /\ rpc = "chunk" => sbuf = <<>> /\ cnt \in 1 .. opt.chunk
    /\ rpc \in {"retry", "save"} \/ reason = "readerr" =>
          cnt \in 1 .. opt.chunk /\ addr + cnt <= end
    /\ rpc = "retry" => Len(sbuf) < cnt /\ (opt.retries > 0 => try < opt.retries)
    /\ rpc = "save" => Len(sbuf) = cnt
    /\ reason = "finished" => addr >= end
    /\ reason = "readerr" =>
          /\ ~opt.noerror /\ Len(sbuf) \in 1 .. cnt
          /\ opt.retries > 0 => Reader!MayFail(addr + Len(sbuf) - 1)

ReadInv ==
    /\ addr = Len(saved)
    /\ rpc = "idle" => sbuf = <<>> /\ saved = <<>> /\ errors = 0
    /\ rpc # "idle" =>
          /\ outcome = "ok"
          /\ end = IF Len(Medium) = 0 THEN NoCapacity ELSE Len(Medium)
    /\ rpc # "done" <=> reason = "running"
    /\ Reading
    /\ ReadInPlace

(* The types of both, the writer's invariant and the reader's.             *)
BothInv == BurnInv /\ Reader!ReadTypeOK /\ ReadInv
=============================================================================
