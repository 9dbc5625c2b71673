------------------------------- MODULE Readcd -------------------------------
(***************************************************************************)
(* readcd copies a medium to a file: read_generic() reads it in chunks,    *)
(* read_retry() reads the sectors of a chunk that failed one by one.       *)
(* Sectors hold what the writer left there; "gap" sectors are the run-out  *)
(* and link blocks, which no drive delivers.                               *)
(***************************************************************************)
EXTENDS Integers, Sequences, FiniteSets, Functions

CONSTANTS
    Options,    \* settings: noerror, retries, sectors per chunk (Sbufsize)
    NoCapacity, \* end of a medium without a capacity, 10000000 in the code
    Worn,       \* addresses that may be damaged
    ReadFaults  \* what else may happen: "output", "intr"

VARIABLES
    medium,  \* the sectors from address 0 on
    hard,    \* addresses that can never be read,
    weak,    \* and those a read may or may not deliver
    opt,     \* the options of this run
    rpc,     \* "idle", "chunk", "retry", "save", "done"
    addr,    \* address of the chunk
    cnt,     \* its length
    end,     \* address behind the last sector to copy
    sbuf,    \* sectors of the chunk read so far
    try,     \* failed attempts at the current sector
    errors,  \* rp->errors
    saved,   \* the output file
    didintr, \* a signal was caught
    reason   \* why the copy ended

rvars == <<hard, weak, opt, rpc, addr, cnt, end, sbuf, try, errors, saved,
           didintr, reason>>

Zeros == <<"zero", 0, 0>>

Exists(a) == a < Len(medium) /\ medium[a + 1][1] # "gap"
MayRead(a) == Exists(a) /\ a \notin hard
MayFail(a) == ~Exists(a) \/ a \in hard \union weak

ReadInit ==
    /\ hard = {} /\ weak = {} /\ opt = CHOOSE o \in Options : TRUE
    /\ rpc = "idle" /\ addr = 0 /\ cnt = 0 /\ end = 0 /\ sbuf = <<>> /\ try = 0
    /\ errors = 0 /\ saved = <<>> /\ didintr = FALSE /\ reason = "running"

\* readcd is called with options, the medium damaged or not; its capacity
Start ==
    /\ rpc = "idle"
    /\ hard' \in SUBSET Worn /\ weak' \in SUBSET (Worn \ hard')
    /\ end' = IF Len(medium) = 0 THEN NoCapacity ELSE Len(medium)
    /\ opt' \in Options /\ cnt' = opt'.chunk
    /\ rpc' = "chunk"
    /\ UNCHANGED <<addr, sbuf, try, errors, saved, didintr, reason>>

Leave(why) == rpc' = "done" /\ reason' = why

\* One turn of the loop of read_generic(): a read of the whole chunk
Size == IF addr + cnt > end THEN end - addr ELSE cnt
ReadChunk ==
    /\ rpc = "chunk" /\ ~didintr /\ addr < end
    /\ cnt' = Size /\ try' = 0
    /\ \/ /\ \A k \in 0 .. Size - 1 : MayRead(addr + k)
          /\ sbuf' = SubSeq(medium, addr + 1, addr + Size)
          /\ rpc' = "save"
       \/ /\ \E k \in 0 .. Size - 1 : MayFail(addr + k)
          /\ sbuf' = <<>>
          /\ rpc' = "retry"
    /\ UNCHANGED <<hard, weak, opt, addr, end, errors, saved, didintr, reason>>
\* Mutated: a chunk that reaches the end is not read
AllReadEarly ==
    /\ rpc = "chunk" /\ addr + cnt > end
    /\ Leave("finished")
    /\ UNCHANGED <<hard, weak, opt, addr, cnt, end, sbuf, try, errors, saved, didintr>>
AllRead ==
    /\ rpc = "chunk" /\ addr >= end
    /\ Leave("finished")
    /\ UNCHANGED <<hard, weak, opt, addr, cnt, end, sbuf, try, errors, saved, didintr>>

(* read_retry(): one attempt at the next sector.  After 10 of them it reads  *)
(* other sectors in between, into a buffer nobody looks at.                  *)
\* Mutated: the sector behind
SectorAhead == addr + Len(sbuf) + 1
Sector == addr + Len(sbuf)
Settle(content, failed) ==
    /\ sbuf' = Append(sbuf, content)
    /\ errors' = IF failed THEN errors + 1 ELSE errors
    /\ try' = 0
    /\ IF failed /\ ~opt.noerror
       THEN Leave("readerr")
       ELSE /\ rpc' = IF Len(sbuf') = cnt THEN "save" ELSE "retry"
            /\ UNCHANGED reason
Retry ==
    /\ rpc = "retry" /\ ~didintr
    /\ MayRead(Sector)
    /\ Settle(medium[Sector + 1], try >= opt.retries)
    /\ UNCHANGED <<hard, weak, opt, addr, cnt, end, saved, didintr>>
\* Mutated: the attempts are not counted
RetryFailsForever ==
    /\ rpc = "retry" /\ ~didintr
    /\ MayFail(Sector)
    /\ IF try + 1 < opt.retries
       THEN try' = try /\ UNCHANGED <<rpc, sbuf, errors, reason>>
       ELSE Settle(Zeros, TRUE)
    /\ UNCHANGED <<hard, weak, opt, addr, cnt, end, saved, didintr>>
RetryFails ==
    /\ rpc = "retry" /\ ~didintr
    /\ MayFail(Sector)
    /\ IF try + 1 < opt.retries
       THEN try' = try + 1 /\ UNCHANGED <<rpc, sbuf, errors, reason>>
       ELSE Settle(Zeros, TRUE)
    /\ UNCHANGED <<hard, weak, opt, addr, cnt, end, saved, didintr>>

\* filewrite() and the step of the loop
Save ==
    /\ rpc = "save"
    /\ saved' = saved \o sbuf
    /\ addr' = addr + cnt /\ sbuf' = <<>>
    /\ rpc' = "chunk"
    /\ UNCHANGED <<hard, weak, opt, cnt, end, try, errors, didintr, reason>>
SaveFails ==
    /\ rpc = "save" /\ "output" \in ReadFaults
    /\ Leave("writeerr")
    /\ UNCHANGED <<hard, weak, opt, addr, cnt, end, sbuf, try, errors, saved, didintr>>

\* intr() only notes the signal; the loops poll it before each read
Interrupt ==
    /\ rpc \notin {"idle", "done"} /\ ~didintr /\ "intr" \in ReadFaults
    /\ didintr' = TRUE
    /\ UNCHANGED <<hard, weak, opt, rpc, addr, cnt, end, sbuf, try, errors, saved, reason>>
Interrupted ==
    /\ rpc = "retry" \/ (rpc = "chunk" /\ addr < end) 
    /\ didintr
    /\ Leave("intr")
    /\ UNCHANGED <<hard, weak, opt, addr, cnt, end, sbuf, try, errors, saved, didintr>>

Copy == Start \/ ReadChunk \/ AllRead \/ Retry \/ RetryFails \/ Save \/ SaveFails
            \/ Interrupted
-----------------------------------------------------------------------------
(* Properties                                                              *)

ReadTypeOK ==
    /\ hard \union weak \subseteq Nat /\ opt \in Options
    /\ rpc \in {"idle", "chunk", "retry", "save", "done"}
    /\ {addr, cnt, end, try, errors} \subseteq Nat
    /\ sbuf \in Seq(Range(medium) \union {Zeros})
    /\ saved \in Seq(Range(medium) \union {Zeros})
    /\ didintr \in BOOLEAN
    /\ reason \in {"running", "finished", "readerr", "writeerr", "intr"}

(* The file holds, at the place of each sector, that sector, or under       *)
(* -noerror a substitute for one the drive would not deliver; rereading     *)
(* neither skips nor repeats one.  "errors" counts the substitutes          *)
(* (retries=0 apart, which also counts sectors that were read).             *)
InPlace ==
    LET file == saved \o sbuf
        wrong == {i \in 1 .. Len(file) : i > Len(medium) \/ file[i] # medium[i]}
    IN  /\ \A i \in wrong : file[i] = Zeros /\ MayFail(i - 1)
        /\ opt.noerror /\ opt.retries > 0 => errors = Cardinality(wrong)
        /\ ~opt.noerror => errors <= 1 /\ (errors = 1 <=> reason = "readerr")
=============================================================================
