-------------------------- MODULE CddaRingProofs ---------------------------
(***************************************************************************)
(* Theorems about CddaRing for every number of buffers, every length of the *)
(* recording and every combination of faults.  One lemma for each part of   *)
(* the inductive invariant, with one step for each action.                  *)
(***************************************************************************)
EXTENDS CddaRingInv, SequenceTheorems, TLAPS

USE BAssumption, SegmentsAssumption
USE DEF counts, pointers, flags, ends, pipes, signals, readerVars, writerVars,
        NULL, ReaderAt, WriterAt

\* Every action keeps the types; for the indices this says that they stay in the
\* ring, for the bytes that a pipe never holds two of them.
LEMMA TypeKept ==
  ASSUME RingInv, [Next]_vars
  PROVE  TypeOK'
  <1>1. CASE ReaderRequest
    BY <1>1, SMT DEF ReaderRequest, RingInv, TypeOK, Counters, Wanted,
       Bytes, OneByteEach, Defined, Buffers, INC, ReaderOut
  <1>2. CASE ReaderFinish
    BY <1>2, SMT DEF ReaderFinish, RingInv, TypeOK, Counters, Wanted,
       Bytes, OneByteEach, Defined, Buffers, INC, ReaderOut
  <1>3. CASE ReaderFlag
    BY <1>3, SMT DEF ReaderFlag, RingInv, TypeOK, Counters, Wanted,
       Bytes, OneByteEach, Defined, Buffers, INC, ReaderOut
  <1>4. CASE ReaderWoken
    <2>1. stale' \in BOOLEAN
      BY <1>4 DEF ReaderWoken, RingInv, TypeOK
    <2>2. p2c' \in {0, 1}
      <3>1. p2c > 0 /\ p2c' = p2c - 1
        BY <1>4 DEF ReaderWoken
      <3> QED
        BY <3>1, SMT DEF RingInv, TypeOK
    <2>3. /\ rpc' = "occupy"
          /\ UNCHANGED <<counts, pointers, flags, ends, data, c2p, signals, iloop,
                         wpc, nSamplesDone, retval, left, saved>>
      BY <1>4 DEF ReaderWoken
    <2> QED
      BY <2>1, <2>2, <2>3 DEF RingInv, TypeOK, Buffers
  <1>5. CASE ReaderHangup
    BY <1>5, SMT DEF ReaderHangup, RingInv, TypeOK, Counters, Wanted,
       Bytes, OneByteEach, Defined, Buffers, INC, ReaderOut
  <1>6. CASE ReaderOccupy
    BY <1>6, SMT DEF ReaderOccupy, RingInv, TypeOK, Counters, Wanted,
       Bytes, OneByteEach, Defined, Buffers, INC, ReaderOut
  <1>7. CASE ReaderRead
    <2>1. data' \in [Buffers -> Nat]
      <3>1. total_segments_read + 1 \in Nat /\ data \in [Buffers -> Nat]
        BY SMT DEF RingInv, TypeOK
      <3>2. data' = [data EXCEPT ![he_fill_buffer] = total_segments_read + 1]
        BY <1>7 DEF ReaderRead, FillBuffer
      <3> QED
        BY <3>1, <3>2
    <2> QED
      BY <1>7, <2>1, SMT DEF ReaderRead, RingInv, TypeOK, Counters,
         Wanted, Bytes, OneByteEach, Defined, Buffers, INC, ReaderOut
  <1>8. CASE ReaderRealEnd
    <2>1. data' \in [Buffers -> Nat]
      <3>1. total_segments_read + 1 \in Nat /\ data \in [Buffers -> Nat]
        BY SMT DEF RingInv, TypeOK
      <3>2. data' = [data EXCEPT ![he_fill_buffer] = total_segments_read + 1]
        BY <1>8 DEF ReaderRealEnd, FillBuffer
      <3> QED
        BY <3>1, <3>2
    <2> QED
      BY <1>8, <2>1, SMT DEF ReaderRealEnd, RingInv, TypeOK,
         Counters, Wanted, Bytes, OneByteEach, Defined, Buffers, INC,
         ReaderOut
  <1>9. CASE ReaderTrim
    BY <1>9, SMT DEF ReaderTrim, RingInv, TypeOK, Counters, Wanted,
       Bytes, OneByteEach, Defined, Buffers, INC, ReaderOut
  <1>10. CASE ReaderFails
    BY <1>10, SMT DEF ReaderFails, RingInv, TypeOK, Counters, Wanted,
       Bytes, OneByteEach, Defined, Buffers, INC, ReaderOut
  <1>11. CASE ReaderSetLast
    BY <1>11, SMT DEF ReaderSetLast, RingInv, TypeOK, Counters, Wanted,
       Bytes, OneByteEach, Defined, Buffers, INC, ReaderOut
  <1>12. CASE ReaderCount
    BY <1>12, SMT DEF ReaderCount, RingInv, TypeOK, Counters, Wanted,
       Bytes, OneByteEach, Defined, Buffers, INC, ReaderOut
  <1>13. CASE ReaderTest
    BY <1>13, SMT DEF ReaderTest, RingInv, TypeOK, Counters, Wanted,
       Bytes, OneByteEach, Defined, Buffers, INC, ReaderOut
  <1>14. CASE ReaderClear
    BY <1>14, SMT DEF ReaderClear, RingInv, TypeOK, Counters, Wanted,
       Bytes, OneByteEach, Defined, Buffers, INC, ReaderOut
  <1>15. CASE ReaderWake
    BY <1>15, SMT DEF ReaderWake, RingInv, TypeOK, Counters, Wanted,
       Bytes, OneByteEach, Defined, Buffers, INC, ReaderOut
  <1>16. CASE ReaderClose
    BY <1>16, SMT DEF ReaderClose, RingInv, TypeOK, Counters, Wanted,
       Bytes, OneByteEach, Defined, Buffers, INC, ReaderOut
  <1>17. CASE ReaderReap
    BY <1>17, SMT DEF ReaderReap, RingInv, TypeOK, Counters, Wanted,
       Bytes, OneByteEach, Defined, Buffers, INC, ReaderOut
  <1>18. CASE ReaderSignalled
    <2>1. rsig' \in BOOLEAN /\ wsig' \in BOOLEAN /\ stale' \in BOOLEAN
      BY <1>18 DEF ReaderSignalled, RingInv, TypeOK
    <2>2. rpc' \in {"closing", "gone"}
      BY <1>18, SMT DEF ReaderSignalled
    <2> QED
      BY <1>18, <2>1, <2>2, SMT DEF ReaderSignalled, RingInv, TypeOK
  <1>19. CASE WriterLoop
    BY <1>19, SMT DEF WriterLoop, RingInv, TypeOK, Counters, Wanted,
       Bytes, OneByteEach, Defined, Buffers, INC, ReaderOut
  <1>20. CASE WriterEnd
    BY <1>20, SMT DEF WriterEnd, RingInv, TypeOK, Counters, Wanted,
       Bytes, OneByteEach, Defined, Buffers, INC, ReaderOut
  <1>21. CASE WriterDrained
    BY <1>21, SMT DEF WriterDrained, RingInv, TypeOK, Counters, Wanted,
       Bytes, OneByteEach, Defined, Buffers, INC, ReaderOut
  <1>22. CASE WriterRequest
    BY <1>22, SMT DEF WriterRequest, RingInv, TypeOK, Counters, Wanted,
       Bytes, OneByteEach, Defined, Buffers, INC, ReaderOut
  <1>23. CASE WriterFlag
    BY <1>23, SMT DEF WriterFlag, RingInv, TypeOK, Counters, Wanted,
       Bytes, OneByteEach, Defined, Buffers, INC, ReaderOut
  <1>24. CASE WriterWoken
    <2>1. stale' \in BOOLEAN
      BY <1>24 DEF WriterWoken, RingInv, TypeOK
    <2>2. c2p' \in {0, 1}
      <3>1. c2p > 0 /\ c2p' = c2p - 1
        BY <1>24 DEF WriterWoken
      <3> QED
        BY <3>1, SMT DEF RingInv, TypeOK
    <2>3. /\ wpc' = "get"
          /\ UNCHANGED <<counts, pointers, flags, ends, data, p2c, signals, iloop,
                         rpc, nSamplesDone, retval, left, saved>>
      BY <1>24 DEF WriterWoken
    <2> QED
      BY <2>1, <2>2, <2>3 DEF RingInv, TypeOK, Buffers
  <1>25. CASE WriterHangup
    BY <1>25, SMT DEF WriterHangup, RingInv, TypeOK, Counters, Wanted,
       Bytes, OneByteEach, Defined, Buffers, INC, ReaderOut
  <1>26. CASE WriterGet
    BY <1>26, SMT DEF WriterGet, RingInv, TypeOK, Counters, Wanted,
       Bytes, OneByteEach, Defined, Buffers, INC, ReaderOut
  <1>27. CASE WriterWrite
    <2>1. data[retval] \in Nat
      BY <1>27, SMT DEF WriterWrite, RingInv, TypeOK, Counters, Buffers
    <2>2. saved' \in Seq(Nat)
      <3>1. Append(saved, data[retval]) \in Seq(Nat)
        BY <2>1, SMT DEF RingInv, TypeOK
      <3> QED
        BY <1>27, <3>1 DEF WriterWrite, RingInv, TypeOK
    <2>3. nSamplesDone' \in Nat
      BY <1>27, SMT DEF WriterWrite, RingInv, TypeOK
    <2> QED
      BY <1>27, <2>2, <2>3, SMT DEF WriterWrite, RingInv, TypeOK
  <1>28. CASE WriterFails
    BY <1>28, SMT DEF WriterFails, RingInv, TypeOK, Counters, Wanted,
       Bytes, OneByteEach, Defined, Buffers, INC, ReaderOut
  <1>29. CASE WriterDrop
    BY <1>29, SMT DEF WriterDrop, RingInv, TypeOK, Counters, Wanted,
       Bytes, OneByteEach, Defined, Buffers, INC, ReaderOut
  <1>30. CASE WriterCount
    BY <1>30, SMT DEF WriterCount, RingInv, TypeOK, Counters, Wanted,
       Bytes, OneByteEach, Defined, Buffers, INC, ReaderOut
  <1>31. CASE WriterTest
    BY <1>31, SMT DEF WriterTest, RingInv, TypeOK, Counters, Wanted,
       Bytes, OneByteEach, Defined, Buffers, INC, ReaderOut
  <1>32. CASE WriterClear
    BY <1>32, SMT DEF WriterClear, RingInv, TypeOK, Counters, Wanted,
       Bytes, OneByteEach, Defined, Buffers, INC, ReaderOut
  <1>33. CASE WriterWake
    BY <1>33, SMT DEF WriterWake, RingInv, TypeOK, Counters, Wanted,
       Bytes, OneByteEach, Defined, Buffers, INC, ReaderOut
  <1>34. CASE WriterClose
    BY <1>34, SMT DEF WriterClose, RingInv, TypeOK, Counters, Wanted,
       Bytes, OneByteEach, Defined, Buffers, INC, ReaderOut
  <1>35. CASE WriterSignalled
    <2>1. wsig' \in BOOLEAN /\ rsig' \in BOOLEAN /\ stale' \in BOOLEAN
      BY <1>35 DEF WriterSignalled, RingInv, TypeOK
    <2>2. wpc' \in {"closing", "gone"}
      BY <1>35, SMT DEF WriterSignalled
    <2> QED
      BY <1>35, <2>1, <2>2, SMT DEF WriterSignalled, RingInv, TypeOK
  <1>36. CASE Interrupt
    BY <1>36, SMT DEF Interrupt, RingInv, TypeOK, Counters, Wanted,
       Bytes, OneByteEach, Defined, Buffers, INC, ReaderOut
  <1>37. CASE Kill
    BY <1>37, SMT DEF Kill, RingInv, TypeOK, Counters, Wanted, Bytes,
       OneByteEach, Defined, Buffers, INC, ReaderOut
  <1>38. CASE UNCHANGED vars
    BY <1>38, SMT DEF vars, RingInv, TypeOK, Counters, Wanted, Bytes,
       OneByteEach, Defined, Buffers, INC, ReaderOut
  <1> QED
    BY <1>1, <1>2, <1>3, <1>4, <1>5, <1>6, <1>7, <1>8, <1>9, <1>10, <1>11,
       <1>12, <1>13, <1>14, <1>15, <1>16, <1>17, <1>18, <1>19, <1>20,
       <1>21, <1>22, <1>23, <1>24, <1>25, <1>26, <1>27, <1>28, <1>29,
       <1>30, <1>31, <1>32, <1>33, <1>34, <1>35, <1>36, <1>37, <1>38 DEF
       Next, ReaderStep, WriterStep, Idle

\* The counters of define_buffer() and drop_buffer() are never more than the ring
\* apart, in any order of the two processes' steps.
LEMMA CountersKept ==
  ASSUME RingInv, [Next]_vars
  PROVE  Counters'
  <1>1. CASE ReaderRequest
    BY <1>1, SMT DEF ReaderRequest, RingInv, Counters, TypeOK, Defined,
       Buffers, INC
  <1>2. CASE ReaderFinish
    BY <1>2, SMT DEF ReaderFinish, RingInv, Counters, TypeOK, Defined,
       Buffers, INC
  <1>3. CASE ReaderFlag
    BY <1>3, SMT DEF ReaderFlag, RingInv, Counters, TypeOK, Defined,
       Buffers, INC
  <1>4. CASE ReaderWoken
    BY <1>4, SMT DEF ReaderWoken, RingInv, Counters, TypeOK, Defined,
       Buffers, INC
  <1>5. CASE ReaderHangup
    BY <1>5, SMT DEF ReaderHangup, RingInv, Counters, TypeOK, Defined,
       Buffers, INC
  <1>6. CASE ReaderOccupy
    BY <1>6, SMT DEF ReaderOccupy, RingInv, Counters, TypeOK, Defined,
       Buffers, INC
  <1>7. CASE ReaderRead
    BY <1>7, SMT DEF ReaderRead, RingInv, Counters, TypeOK, Defined,
       Buffers, INC
  <1>8. CASE ReaderRealEnd
    BY <1>8, SMT DEF ReaderRealEnd, RingInv, Counters, TypeOK, Defined,
       Buffers, INC
  <1>9. CASE ReaderTrim
    BY <1>9, SMT DEF ReaderTrim, RingInv, Counters, TypeOK, Defined,
       Buffers, INC
  <1>10. CASE ReaderFails
    BY <1>10, SMT DEF ReaderFails, RingInv, Counters, TypeOK, Defined,
       Buffers, INC
  <1>11. CASE ReaderSetLast
    BY <1>11, SMT DEF ReaderSetLast, RingInv, Counters, TypeOK,
       Defined, Buffers, INC
  <1>12. CASE ReaderCount
    BY <1>12, SMT DEF ReaderCount, RingInv, Counters, TypeOK, Defined,
       Buffers, INC
  <1>13. CASE ReaderTest
    BY <1>13, SMT DEF ReaderTest, RingInv, Counters, TypeOK, Defined,
       Buffers, INC
  <1>14. CASE ReaderClear
    BY <1>14, SMT DEF ReaderClear, RingInv, Counters, TypeOK, Defined,
       Buffers, INC
  <1>15. CASE ReaderWake
    BY <1>15, SMT DEF ReaderWake, RingInv, Counters, TypeOK, Defined,
       Buffers, INC
  <1>16. CASE ReaderClose
    BY <1>16, SMT DEF ReaderClose, RingInv, Counters, TypeOK, Defined,
       Buffers, INC
  <1>17. CASE ReaderReap
    BY <1>17, SMT DEF ReaderReap, RingInv, Counters, TypeOK, Defined,
       Buffers, INC
  <1>18. CASE ReaderSignalled
    BY <1>18, SMT DEF ReaderSignalled, RingInv, Counters, TypeOK,
       Defined, Buffers, INC
  <1>19. CASE WriterLoop
    BY <1>19, SMT DEF WriterLoop, RingInv, Counters, TypeOK, Defined,
       Buffers, INC
  <1>20. CASE WriterEnd
    BY <1>20, SMT DEF WriterEnd, RingInv, Counters, TypeOK, Defined,
       Buffers, INC
  <1>21. CASE WriterDrained
    BY <1>21, SMT DEF WriterDrained, RingInv, Counters, TypeOK,
       Defined, Buffers, INC
  <1>22. CASE WriterRequest
    BY <1>22, SMT DEF WriterRequest, RingInv, Counters, TypeOK,
       Defined, Buffers, INC
  <1>23. CASE WriterFlag
    BY <1>23, SMT DEF WriterFlag, RingInv, Counters, TypeOK, Defined,
       Buffers, INC
  <1>24. CASE WriterWoken
    BY <1>24, SMT DEF WriterWoken, RingInv, Counters, TypeOK, Defined,
       Buffers, INC
  <1>25. CASE WriterHangup
    BY <1>25, SMT DEF WriterHangup, RingInv, Counters, TypeOK, Defined,
       Buffers, INC
  <1>26. CASE WriterGet
    BY <1>26, SMT DEF WriterGet, RingInv, Counters, TypeOK, Defined,
       Buffers, INC
  <1>27. CASE WriterWrite
    BY <1>27, SMT DEF WriterWrite, RingInv, Counters, TypeOK, Defined,
       Buffers, INC
  <1>28. CASE WriterFails
    BY <1>28, SMT DEF WriterFails, RingInv, Counters, TypeOK, Defined,
       Buffers, INC
  <1>29. CASE WriterDrop
    BY <1>29, SMT DEF WriterDrop, RingInv, Counters, TypeOK, Defined,
       Buffers, INC
  <1>30. CASE WriterCount
    BY <1>30, SMT DEF WriterCount, RingInv, Counters, TypeOK, Defined,
       Buffers, INC
  <1>31. CASE WriterTest
    BY <1>31, SMT DEF WriterTest, RingInv, Counters, TypeOK, Defined,
       Buffers, INC
  <1>32. CASE WriterClear
    BY <1>32, SMT DEF WriterClear, RingInv, Counters, TypeOK, Defined,
       Buffers, INC
  <1>33. CASE WriterWake
    BY <1>33, SMT DEF WriterWake, RingInv, Counters, TypeOK, Defined,
       Buffers, INC
  <1>34. CASE WriterClose
    BY <1>34, SMT DEF WriterClose, RingInv, Counters, TypeOK, Defined,
       Buffers, INC
  <1>35. CASE WriterSignalled
    BY <1>35, SMT DEF WriterSignalled, RingInv, Counters, TypeOK,
       Defined, Buffers, INC
  <1>36. CASE Interrupt
    BY <1>36, SMT DEF Interrupt, RingInv, Counters, TypeOK, Defined,
       Buffers, INC
  <1>37. CASE Kill
    BY <1>37, SMT DEF Kill, RingInv, Counters, TypeOK, Defined,
       Buffers, INC
  <1>38. CASE UNCHANGED vars
    BY <1>38, SMT DEF vars, RingInv, Counters, TypeOK, Defined,
       Buffers, INC
  <1> QED
    BY <1>1, <1>2, <1>3, <1>4, <1>5, <1>6, <1>7, <1>8, <1>9, <1>10, <1>11,
       <1>12, <1>13, <1>14, <1>15, <1>16, <1>17, <1>18, <1>19, <1>20,
       <1>21, <1>22, <1>23, <1>24, <1>25, <1>26, <1>27, <1>28, <1>29,
       <1>30, <1>31, <1>32, <1>33, <1>34, <1>35, <1>36, <1>37, <1>38 DEF
       Next, ReaderStep, WriterStep, Idle

\* What is still wanted covers what is still to be read, at a real end too.
LEMMA WantedKept ==
  ASSUME RingInv, [Next]_vars
  PROVE  Wanted'
  <1>1. CASE ReaderRequest
    BY <1>1, SMT DEF ReaderRequest, RingInv, Wanted, TypeOK, ReaderOut
  <1>2. CASE ReaderFinish
    BY <1>2, SMT DEF ReaderFinish, RingInv, Wanted, TypeOK, ReaderOut
  <1>3. CASE ReaderFlag
    BY <1>3, SMT DEF ReaderFlag, RingInv, Wanted, TypeOK, ReaderOut
  <1>4. CASE ReaderWoken
    BY <1>4, SMT DEF ReaderWoken, RingInv, Wanted, TypeOK, ReaderOut
  <1>5. CASE ReaderHangup
    BY <1>5, SMT DEF ReaderHangup, RingInv, Wanted, TypeOK, ReaderOut
  <1>6. CASE ReaderOccupy
    BY <1>6, SMT DEF ReaderOccupy, RingInv, Wanted, TypeOK, ReaderOut
  <1>7. CASE ReaderRead
    BY <1>7, SMT DEF ReaderRead, RingInv, Wanted, TypeOK, ReaderOut
  <1>8. CASE ReaderRealEnd
    BY <1>8, SMT DEF ReaderRealEnd, RingInv, Wanted, TypeOK, ReaderOut
  <1>9. CASE ReaderTrim
    <2>1. PICK got \in {0, 1} : nSamplesToDo' = nSamplesToDo - (iloop - got)
      BY <1>9 DEF ReaderTrim
    <2>2. /\ rpc = "trim" /\ rpc' = "last" /\ iloop' = 0
          /\ UNCHANGED <<eorecording, total_segments_read>>
      BY <1>9 DEF ReaderTrim
    <2>3. nSamplesToDo >= total_segments_read + iloop
      BY <2>2, SMT DEF RingInv, Wanted, TypeOK, ReaderOut
    <2>4. eorecording = 1
      BY <2>2 DEF RingInv, Wanted
    <2> QED
      BY <2>1, <2>2, <2>3, <2>4, SMT DEF RingInv, Wanted, TypeOK, ReaderOut
  <1>10. CASE ReaderFails
    BY <1>10, SMT DEF ReaderFails, RingInv, Wanted, TypeOK, ReaderOut
  <1>11. CASE ReaderSetLast
    BY <1>11, SMT DEF ReaderSetLast, RingInv, Wanted, TypeOK, ReaderOut
  <1>12. CASE ReaderCount
    BY <1>12, SMT DEF ReaderCount, RingInv, Wanted, TypeOK, ReaderOut
  <1>13. CASE ReaderTest
    BY <1>13, SMT DEF ReaderTest, RingInv, Wanted, TypeOK, ReaderOut
  <1>14. CASE ReaderClear
    BY <1>14, SMT DEF ReaderClear, RingInv, Wanted, TypeOK, ReaderOut
  <1>15. CASE ReaderWake
    BY <1>15, SMT DEF ReaderWake, RingInv, Wanted, TypeOK, ReaderOut
  <1>16. CASE ReaderClose
    BY <1>16, SMT DEF ReaderClose, RingInv, Wanted, TypeOK, ReaderOut
  <1>17. CASE ReaderReap
    BY <1>17, SMT DEF ReaderReap, RingInv, Wanted, TypeOK, ReaderOut
  <1>18. CASE ReaderSignalled
    BY <1>18, SMT DEF ReaderSignalled, RingInv, Wanted, TypeOK,
       ReaderOut
  <1>19. CASE WriterLoop
    BY <1>19, SMT DEF WriterLoop, RingInv, Wanted, TypeOK, ReaderOut
  <1>20. CASE WriterEnd
    BY <1>20, SMT DEF WriterEnd, RingInv, Wanted, TypeOK, ReaderOut
  <1>21. CASE WriterDrained
    BY <1>21, SMT DEF WriterDrained, RingInv, Wanted, TypeOK, ReaderOut
  <1>22. CASE WriterRequest
    BY <1>22, SMT DEF WriterRequest, RingInv, Wanted, TypeOK, ReaderOut
  <1>23. CASE WriterFlag
    BY <1>23, SMT DEF WriterFlag, RingInv, Wanted, TypeOK, ReaderOut
  <1>24. CASE WriterWoken
    BY <1>24, SMT DEF WriterWoken, RingInv, Wanted, TypeOK, ReaderOut
  <1>25. CASE WriterHangup
    BY <1>25, SMT DEF WriterHangup, RingInv, Wanted, TypeOK, ReaderOut
  <1>26. CASE WriterGet
    BY <1>26, SMT DEF WriterGet, RingInv, Wanted, TypeOK, ReaderOut
  <1>27. CASE WriterWrite
    BY <1>27, SMT DEF WriterWrite, RingInv, Wanted, TypeOK, ReaderOut
  <1>28. CASE WriterFails
    BY <1>28, SMT DEF WriterFails, RingInv, Wanted, TypeOK, ReaderOut
  <1>29. CASE WriterDrop
    BY <1>29, SMT DEF WriterDrop, RingInv, Wanted, TypeOK, ReaderOut
  <1>30. CASE WriterCount
    BY <1>30, SMT DEF WriterCount, RingInv, Wanted, TypeOK, ReaderOut
  <1>31. CASE WriterTest
    BY <1>31, SMT DEF WriterTest, RingInv, Wanted, TypeOK, ReaderOut
  <1>32. CASE WriterClear
    BY <1>32, SMT DEF WriterClear, RingInv, Wanted, TypeOK, ReaderOut
  <1>33. CASE WriterWake
    BY <1>33, SMT DEF WriterWake, RingInv, Wanted, TypeOK, ReaderOut
  <1>34. CASE WriterClose
    BY <1>34, SMT DEF WriterClose, RingInv, Wanted, TypeOK, ReaderOut
  <1>35. CASE WriterSignalled
    BY <1>35, SMT DEF WriterSignalled, RingInv, Wanted, TypeOK,
       ReaderOut
  <1>36. CASE Interrupt
    BY <1>36, SMT DEF Interrupt, RingInv, Wanted, TypeOK, ReaderOut
  <1>37. CASE Kill
    BY <1>37, SMT DEF Kill, RingInv, Wanted, TypeOK, ReaderOut
  <1>38. CASE UNCHANGED vars
    BY <1>38, SMT DEF vars, RingInv, Wanted, TypeOK, ReaderOut
  <1> QED
    BY <1>1, <1>2, <1>3, <1>4, <1>5, <1>6, <1>7, <1>8, <1>9, <1>10, <1>11,
       <1>12, <1>13, <1>14, <1>15, <1>16, <1>17, <1>18, <1>19, <1>20,
       <1>21, <1>22, <1>23, <1>24, <1>25, <1>26, <1>27, <1>28, <1>29,
       <1>30, <1>31, <1>32, <1>33, <1>34, <1>35, <1>36, <1>37, <1>38 DEF
       Next, ReaderStep, WriterStep, Idle

\* A raised flag, a byte on its way and a sleeping process exclude each other as
\* semrequest() and semrelease() need it.
LEMMA BytesKept ==
  ASSUME RingInv, [Next]_vars
  PROVE  Bytes'
  <1>1. CASE ReaderRequest
    BY <1>1, SMT DEF ReaderRequest, RingInv, Bytes, OneByteEach, TypeOK
  <1>2. CASE ReaderFinish
    BY <1>2, SMT DEF ReaderFinish, RingInv, Bytes, OneByteEach, TypeOK
  <1>3. CASE ReaderFlag
    BY <1>3, SMT DEF ReaderFlag, RingInv, Bytes, OneByteEach, TypeOK
  <1>4. CASE ReaderWoken
    BY <1>4, SMT DEF ReaderWoken, RingInv, Bytes, OneByteEach, TypeOK
  <1>5. CASE ReaderHangup
    BY <1>5, SMT DEF ReaderHangup, RingInv, Bytes, OneByteEach, TypeOK
  <1>6. CASE ReaderOccupy
    BY <1>6, SMT DEF ReaderOccupy, RingInv, Bytes, OneByteEach, TypeOK
  <1>7. CASE ReaderRead
    BY <1>7, SMT DEF ReaderRead, RingInv, Bytes, OneByteEach, TypeOK
  <1>8. CASE ReaderRealEnd
    BY <1>8, SMT DEF ReaderRealEnd, RingInv, Bytes, OneByteEach, TypeOK
  <1>9. CASE ReaderTrim
    BY <1>9, SMT DEF ReaderTrim, RingInv, Bytes, OneByteEach, TypeOK
  <1>10. CASE ReaderFails
    BY <1>10, SMT DEF ReaderFails, RingInv, Bytes, OneByteEach, TypeOK
  <1>11. CASE ReaderSetLast
    BY <1>11, SMT DEF ReaderSetLast, RingInv, Bytes, OneByteEach,
       TypeOK
  <1>12. CASE ReaderCount
    BY <1>12, SMT DEF ReaderCount, RingInv, Bytes, OneByteEach, TypeOK
  <1>13. CASE ReaderTest
    BY <1>13, SMT DEF ReaderTest, RingInv, Bytes, OneByteEach, TypeOK
  <1>14. CASE ReaderClear
    BY <1>14, SMT DEF ReaderClear, RingInv, Bytes, OneByteEach, TypeOK
  <1>15. CASE ReaderWake
    BY <1>15, SMT DEF ReaderWake, RingInv, Bytes, OneByteEach, TypeOK
  <1>16. CASE ReaderClose
    BY <1>16, SMT DEF ReaderClose, RingInv, Bytes, OneByteEach, TypeOK
  <1>17. CASE ReaderReap
    BY <1>17, SMT DEF ReaderReap, RingInv, Bytes, OneByteEach, TypeOK
  <1>18. CASE ReaderSignalled
    BY <1>18, SMT DEF ReaderSignalled, RingInv, Bytes, OneByteEach,
       TypeOK
  <1>19. CASE WriterLoop
    BY <1>19, SMT DEF WriterLoop, RingInv, Bytes, OneByteEach, TypeOK
  <1>20. CASE WriterEnd
    BY <1>20, SMT DEF WriterEnd, RingInv, Bytes, OneByteEach, TypeOK
  <1>21. CASE WriterDrained
    BY <1>21, SMT DEF WriterDrained, RingInv, Bytes, OneByteEach,
       TypeOK
  <1>22. CASE WriterRequest
    BY <1>22, SMT DEF WriterRequest, RingInv, Bytes, OneByteEach,
       TypeOK
  <1>23. CASE WriterFlag
    BY <1>23, SMT DEF WriterFlag, RingInv, Bytes, OneByteEach, TypeOK
  <1>24. CASE WriterWoken
    BY <1>24, SMT DEF WriterWoken, RingInv, Bytes, OneByteEach, TypeOK
  <1>25. CASE WriterHangup
    BY <1>25, SMT DEF WriterHangup, RingInv, Bytes, OneByteEach, TypeOK
  <1>26. CASE WriterGet
    BY <1>26, SMT DEF WriterGet, RingInv, Bytes, OneByteEach, TypeOK
  <1>27. CASE WriterWrite
    BY <1>27, SMT DEF WriterWrite, RingInv, Bytes, OneByteEach, TypeOK
  <1>28. CASE WriterFails
    BY <1>28, SMT DEF WriterFails, RingInv, Bytes, OneByteEach, TypeOK
  <1>29. CASE WriterDrop
    BY <1>29, SMT DEF WriterDrop, RingInv, Bytes, OneByteEach, TypeOK
  <1>30. CASE WriterCount
    BY <1>30, SMT DEF WriterCount, RingInv, Bytes, OneByteEach, TypeOK
  <1>31. CASE WriterTest
    BY <1>31, SMT DEF WriterTest, RingInv, Bytes, OneByteEach, TypeOK
  <1>32. CASE WriterClear
    BY <1>32, SMT DEF WriterClear, RingInv, Bytes, OneByteEach, TypeOK
  <1>33. CASE WriterWake
    BY <1>33, SMT DEF WriterWake, RingInv, Bytes, OneByteEach, TypeOK
  <1>34. CASE WriterClose
    BY <1>34, SMT DEF WriterClose, RingInv, Bytes, OneByteEach, TypeOK
  <1>35. CASE WriterSignalled
    BY <1>35, SMT DEF WriterSignalled, RingInv, Bytes, OneByteEach,
       TypeOK
  <1>36. CASE Interrupt
    BY <1>36, SMT DEF Interrupt, RingInv, Bytes, OneByteEach, TypeOK
  <1>37. CASE Kill
    BY <1>37, SMT DEF Kill, RingInv, Bytes, OneByteEach, TypeOK
  <1>38. CASE UNCHANGED vars
    BY <1>38, SMT DEF vars, RingInv, Bytes, OneByteEach, TypeOK
  <1> QED
    BY <1>1, <1>2, <1>3, <1>4, <1>5, <1>6, <1>7, <1>8, <1>9, <1>10, <1>11,
       <1>12, <1>13, <1>14, <1>15, <1>16, <1>17, <1>18, <1>19, <1>20,
       <1>21, <1>22, <1>23, <1>24, <1>25, <1>26, <1>27, <1>28, <1>29,
       <1>30, <1>31, <1>32, <1>33, <1>34, <1>35, <1>36, <1>37, <1>38 DEF
       Next, ReaderStep, WriterStep, Idle

\* The indices agree with the counters and the two ends stay apart.
LEMMA RingKept ==
  ASSUME RingInv, [Next]_vars
  PROVE  Ring'
  <1>1. CASE ReaderRequest
    BY <1>1, SMT DEF ReaderRequest, RingInv, Ring, TypeOK, Counters,
       Defined, Buffers, INC, Ahead, Behind, Occupied, ReaderOut,
       WriterOut
  <1>2. CASE ReaderFinish
    BY <1>2, SMT DEF ReaderFinish, RingInv, Ring, TypeOK, Counters,
       Defined, Buffers, INC, Ahead, Behind, Occupied, ReaderOut,
       WriterOut
  <1>3. CASE ReaderFlag
    BY <1>3, SMT DEF ReaderFlag, RingInv, Ring, TypeOK, Counters,
       Defined, Buffers, INC, Ahead, Behind, Occupied, ReaderOut,
       WriterOut
  <1>4. CASE ReaderWoken
    BY <1>4, SMT DEF ReaderWoken, RingInv, Ring, TypeOK, Counters,
       Defined, Buffers, INC, Ahead, Behind, Occupied, ReaderOut,
       WriterOut
  <1>5. CASE ReaderHangup
    BY <1>5, SMT DEF ReaderHangup, RingInv, Ring, TypeOK, Counters,
       Defined, Buffers, INC, Ahead, Behind, Occupied, ReaderOut,
       WriterOut
  <1>6. CASE ReaderOccupy
    BY <1>6, SMT DEF ReaderOccupy, RingInv, Ring, TypeOK, Counters,
       Defined, Buffers, INC, Ahead, Behind, Occupied, ReaderOut,
       WriterOut
  <1>7. CASE ReaderRead
    BY <1>7, SMT DEF ReaderRead, RingInv, Ring, TypeOK, Counters,
       Defined, Buffers, INC, Ahead, Behind, Occupied, ReaderOut,
       WriterOut
  <1>8. CASE ReaderRealEnd
    BY <1>8, SMT DEF ReaderRealEnd, RingInv, Ring, TypeOK, Counters,
       Defined, Buffers, INC, Ahead, Behind, Occupied, ReaderOut,
       WriterOut
  <1>9. CASE ReaderTrim
    BY <1>9, SMT DEF ReaderTrim, RingInv, Ring, TypeOK, Counters,
       Defined, Buffers, INC, Ahead, Behind, Occupied, ReaderOut,
       WriterOut
  <1>10. CASE ReaderFails
    BY <1>10, SMT DEF ReaderFails, RingInv, Ring, TypeOK, Counters,
       Defined, Buffers, INC, Ahead, Behind, Occupied, ReaderOut,
       WriterOut
  <1>11. CASE ReaderSetLast
    <2>1. CASE last_buffer = NULL
      <3>1. /\ rpc = "last" /\ rpc' \in {"count", "gone"}
            /\ last_buffer' \in {last_buffer, he_fill_buffer}
            /\ Defined < B => last_buffer' = he_fill_buffer /\ rpc' = "count"
            /\ rpc' = "count" => Defined < B
            /\ UNCHANGED <<he_fill_buffer, total_segments_read, left, stale, wpc,
                           total_segments_written, retval>>
        BY <1>11, <2>1, SMT DEF ReaderSetLast
      <3>2. total_segments_read = 0 /\ Defined = 0 /\ wpc \notin {"write", "drop", "count"}
        BY <2>1, SMT DEF RingInv, TypeOK, Counters, Defined
      <3>3. Defined' = 0 /\ Behind' = 0
        BY <3>1, <3>2, SMT DEF Defined, Behind
      <3>4. CASE stale
        BY <3>1, <3>4 DEF Ring
      <3>5. CASE ~stale
        <4>1. /\ he_fill_buffer # NULL
              /\ rpc' = "count" => he_fill_buffer = Ahead(he_fill_buffer, 0)
          BY <3>1, <3>5, SMT DEF RingInv, Ring, TypeOK, Occupied, Ahead, Buffers
        <4>2. rpc' # "gone"
          BY <3>1, <3>2, <3>5, SMT DEF Defined
        <4> QED
          BY <3>1, <3>2, <3>3, <3>5, <4>1, <4>2, SMT
          DEF RingInv, Ring, Occupied, ReaderOut, WriterOut
      <3> QED
        BY <3>4, <3>5 DEF RingInv, TypeOK
    <2>2. CASE last_buffer # NULL
      <3>1. /\ rpc = "last" /\ rpc' \in {"count", "gone"}
            /\ rpc' = "count" => Defined < B
            /\ UNCHANGED <<he_fill_buffer, last_buffer, total_segments_read, left, stale,
                           wpc, total_segments_written, retval>>
        BY <1>11, <2>2, SMT DEF ReaderSetLast
      <3> QED
        BY <2>2, <3>1, SMT DEF RingInv, Ring, TypeOK, Defined, Behind, Occupied,
           ReaderOut, Ahead
    <2> QED
      BY <2>1, <2>2
  <1>12. CASE ReaderCount
    BY <1>12, SMT DEF ReaderCount, RingInv, Ring, TypeOK, Counters,
       Defined, Buffers, INC, Ahead, Behind, Occupied, ReaderOut,
       WriterOut
  <1>13. CASE ReaderTest
    BY <1>13, SMT DEF ReaderTest, RingInv, Ring, TypeOK, Counters,
       Defined, Buffers, INC, Ahead, Behind, Occupied, ReaderOut,
       WriterOut
  <1>14. CASE ReaderClear
    BY <1>14, SMT DEF ReaderClear, RingInv, Ring, TypeOK, Counters,
       Defined, Buffers, INC, Ahead, Behind, Occupied, ReaderOut,
       WriterOut
  <1>15. CASE ReaderWake
    BY <1>15, SMT DEF ReaderWake, RingInv, Ring, TypeOK, Counters,
       Defined, Buffers, INC, Ahead, Behind, Occupied, ReaderOut,
       WriterOut
  <1>16. CASE ReaderClose
    BY <1>16, SMT DEF ReaderClose, RingInv, Ring, TypeOK, Counters,
       Defined, Buffers, INC, Ahead, Behind, Occupied, ReaderOut,
       WriterOut
  <1>17. CASE ReaderReap
    BY <1>17, SMT DEF ReaderReap, RingInv, Ring, TypeOK, Counters,
       Defined, Buffers, INC, Ahead, Behind, Occupied, ReaderOut,
       WriterOut
  <1>18. CASE ReaderSignalled
    BY <1>18, SMT DEF ReaderSignalled, RingInv, Ring, TypeOK, Counters,
       Defined, Buffers, INC, Ahead, Behind, Occupied, ReaderOut,
       WriterOut
  <1>19. CASE WriterLoop
    BY <1>19, SMT DEF WriterLoop, RingInv, Ring, TypeOK, Counters,
       Defined, Buffers, INC, Ahead, Behind, Occupied, ReaderOut,
       WriterOut
  <1>20. CASE WriterEnd
    BY <1>20, SMT DEF WriterEnd, RingInv, Ring, TypeOK, Counters,
       Defined, Buffers, INC, Ahead, Behind, Occupied, ReaderOut,
       WriterOut
  <1>21. CASE WriterDrained
    BY <1>21, SMT DEF WriterDrained, RingInv, Ring, TypeOK, Counters,
       Defined, Buffers, INC, Ahead, Behind, Occupied, ReaderOut,
       WriterOut
  <1>22. CASE WriterRequest
    BY <1>22, SMT DEF WriterRequest, RingInv, Ring, TypeOK, Counters,
       Defined, Buffers, INC, Ahead, Behind, Occupied, ReaderOut,
       WriterOut
  <1>23. CASE WriterFlag
    BY <1>23, SMT DEF WriterFlag, RingInv, Ring, TypeOK, Counters,
       Defined, Buffers, INC, Ahead, Behind, Occupied, ReaderOut,
       WriterOut
  <1>24. CASE WriterWoken
    BY <1>24, SMT DEF WriterWoken, RingInv, Ring, TypeOK, Counters,
       Defined, Buffers, INC, Ahead, Behind, Occupied, ReaderOut,
       WriterOut
  <1>25. CASE WriterHangup
    BY <1>25, SMT DEF WriterHangup, RingInv, Ring, TypeOK, Counters,
       Defined, Buffers, INC, Ahead, Behind, Occupied, ReaderOut,
       WriterOut
  <1>26. CASE WriterGet
    BY <1>26, SMT DEF WriterGet, RingInv, Ring, TypeOK, Counters,
       Defined, Buffers, INC, Ahead, Behind, Occupied, ReaderOut,
       WriterOut
  <1>27. CASE WriterWrite
    BY <1>27, SMT DEF WriterWrite, RingInv, Ring, TypeOK, Counters,
       Defined, Buffers, INC, Ahead, Behind, Occupied, ReaderOut,
       WriterOut
  <1>28. CASE WriterFails
    BY <1>28, SMT DEF WriterFails, RingInv, Ring, TypeOK, Counters,
       Defined, Buffers, INC, Ahead, Behind, Occupied, ReaderOut,
       WriterOut
  <1>29. CASE WriterDrop
    <2>1. /\ wpc = "drop" /\ wpc' \in {"count", "gone"}
          /\ wpc' = "count" => Defined > 0 /\ last_buffer' = INC(last_buffer)
          /\ wpc' = "gone" => Defined <= 0
          /\ last_buffer' = INC(last_buffer) \/ last_buffer' = last_buffer
          /\ left' = left \/ Defined <= 0
          /\ UNCHANGED <<he_fill_buffer, total_segments_read, stale, rpc,
                         total_segments_written, retval>>
      BY <1>29, SMT DEF WriterDrop, RingInv, TypeOK, Defined
    <2>2. last_buffer \in Buffers /\ he_fill_buffer \in Buffers \cup {NULL} /\ Defined \in 0 .. B
      BY <2>1 DEF RingInv, TypeOK, Counters
    <2>3. Ahead(INC(last_buffer), Defined - 1) = Ahead(last_buffer, Defined)
            \/ Defined = 0
      BY <2>2, SMT DEF Ahead, INC, Buffers
    <2>4. Defined' = Defined /\ (wpc' = "count" => Behind' = Defined - 1)
          /\ Behind = Defined
      BY <2>1, SMT DEF Behind, Defined
    <2>5. CASE stale
      BY <2>1, <2>5 DEF Ring
    <2>6. CASE ~stale
      <3>1. /\ rpc = "occupy" \/ Occupied => Defined < B
            /\ Defined > 0 \/ rpc = "gone"
            /\ rpc \notin ReaderOut /\ last_buffer # NULL =>
                IF Occupied THEN he_fill_buffer = Ahead(last_buffer, Defined)
                            ELSE INC(he_fill_buffer) = Ahead(last_buffer, Defined)
            /\ Occupied => he_fill_buffer # NULL
            /\ left \in {"assert", "crash"} => rpc = "gone"
        BY <2>1, <2>4, <2>6 DEF RingInv, Ring, WriterOut
      <3>2. last_buffer # NULL
        BY <2>1, <2>2, SMT DEF Buffers
      <3>3. left' = left \/ rpc = "gone"
        BY <2>1, <2>2, <3>1, SMT
      <3>4. rpc \notin ReaderOut =>
              /\ wpc' = "count" /\ last_buffer' = INC(last_buffer)
              /\ Behind' = Defined - 1
              /\ Ahead(INC(last_buffer), Defined - 1) = Ahead(last_buffer, Defined)
        BY <2>1, <2>2, <2>3, <2>4, <3>1, SMT DEF ReaderOut
      <3>5. rpc \notin ReaderOut =>
              /\ Ahead(last_buffer', Behind') = Ahead(last_buffer, Defined)
              /\ Ahead(last_buffer, Behind)' = Ahead(last_buffer', Behind')
              /\ INC(he_fill_buffer)' = INC(he_fill_buffer)
        BY <2>1, <3>4 DEF Ahead, INC
      <3> QED
        BY <2>1, <2>4, <3>1, <3>2, <3>3, <3>4, <3>5 DEF Ring, Occupied, WriterOut
    <2> QED
      BY <2>5, <2>6 DEF RingInv, TypeOK
  <1>30. CASE WriterCount
    BY <1>30, SMT DEF WriterCount, RingInv, Ring, TypeOK, Counters,
       Defined, Buffers, INC, Ahead, Behind, Occupied, ReaderOut,
       WriterOut
  <1>31. CASE WriterTest
    BY <1>31, SMT DEF WriterTest, RingInv, Ring, TypeOK, Counters,
       Defined, Buffers, INC, Ahead, Behind, Occupied, ReaderOut,
       WriterOut
  <1>32. CASE WriterClear
    BY <1>32, SMT DEF WriterClear, RingInv, Ring, TypeOK, Counters,
       Defined, Buffers, INC, Ahead, Behind, Occupied, ReaderOut,
       WriterOut
  <1>33. CASE WriterWake
    BY <1>33, SMT DEF WriterWake, RingInv, Ring, TypeOK, Counters,
       Defined, Buffers, INC, Ahead, Behind, Occupied, ReaderOut,
       WriterOut
  <1>34. CASE WriterClose
    BY <1>34, SMT DEF WriterClose, RingInv, Ring, TypeOK, Counters,
       Defined, Buffers, INC, Ahead, Behind, Occupied, ReaderOut,
       WriterOut
  <1>35. CASE WriterSignalled
    BY <1>35, SMT DEF WriterSignalled, RingInv, Ring, TypeOK, Counters,
       Defined, Buffers, INC, Ahead, Behind, Occupied, ReaderOut,
       WriterOut
  <1>36. CASE Interrupt
    BY <1>36, SMT DEF Interrupt, RingInv, Ring, TypeOK, Counters,
       Defined, Buffers, INC, Ahead, Behind, Occupied, ReaderOut,
       WriterOut
  <1>37. CASE Kill
    BY <1>37, SMT DEF Kill, RingInv, Ring, TypeOK, Counters, Defined,
       Buffers, INC, Ahead, Behind, Occupied, ReaderOut, WriterOut
  <1>38. CASE UNCHANGED vars
    BY <1>38, SMT DEF vars, RingInv, Ring, TypeOK, Counters, Defined,
       Buffers, INC, Ahead, Behind, Occupied, ReaderOut, WriterOut
  <1> QED
    BY <1>1, <1>2, <1>3, <1>4, <1>5, <1>6, <1>7, <1>8, <1>9, <1>10, <1>11,
       <1>12, <1>13, <1>14, <1>15, <1>16, <1>17, <1>18, <1>19, <1>20,
       <1>21, <1>22, <1>23, <1>24, <1>25, <1>26, <1>27, <1>28, <1>29,
       <1>30, <1>31, <1>32, <1>33, <1>34, <1>35, <1>36, <1>37, <1>38 DEF
       Next, ReaderStep, WriterStep, Idle

\* RingInv holds in every reachable state: whatever the two processes do, in
\* any order, the ring of ringbuff.c and the flags and bytes of semshm.c agree.
THEOREM RingInvariant == Spec => []RingInv
  <1>1. ASSUME Init
        PROVE  RingInv
    <2>1. TypeOK
      <3>1. data \in [Buffers -> Nat] /\ saved \in Seq(Nat)
        BY <1>1 DEF Init
      <3>2. stale \in BOOLEAN /\ rsig \in BOOLEAN /\ wsig \in BOOLEAN
        BY <1>1 DEF Init
      <3> QED
        BY <1>1, <3>1, <3>2, SMT DEF Init, TypeOK
    <2>2. Counters /\ Wanted
      BY <1>1, SMT DEF Init, Counters, Defined, Wanted, ReaderOut
    <2>3. Bytes
      BY <1>1, SMT DEF Init, Bytes, OneByteEach
    <2>4. Ring
      BY <1>1, SMT DEF Init, Ring, Occupied, ReaderOut, WriterOut
    <2> QED
      BY <2>1, <2>2, <2>3, <2>4 DEF RingInv
  <1>2. RingInv /\ [Next]_vars => RingInv'
    BY TypeKept, CountersKept, WantedKept, BytesKept, RingKept DEF RingInv
  <1> QED
    BY <1>1, <1>2, PTL DEF Spec

\* The two indices stay in the ring, what is left to read is never negative and
\* neither pipe ever holds more than one byte.
THEOREM RingTypes == Spec => []TypeOK
  <1>1. RingInv => TypeOK
    BY DEF RingInv
  <1> QED
    BY RingInvariant, <1>1, PTL

\* Every byte written by semrelease() is answered by one sleeping or dying
\* receiver whose flag is already lowered, for every interleaving and failure.
THEOREM BytesAnswerFlags == Spec => []OneByteEach
  <1>1. RingInv => OneByteEach
    BY DEF RingInv, Bytes
  <1> QED
    BY RingInvariant, <1>1, PTL

\* Without a stale wake-up the assertions of define_buffer() and drop_buffer()
\* hold as long as both processes live.
THEOREM AssertionsHold == Spec => []RingAssertions
  <1>1. RingInv => RingAssertions
    BY DEF RingInv, Ring, RingAssertions, Occupied
  <1> QED
    BY RingInvariant, <1>1, PTL

\* The parent never fills the buffer the child saves from: two buffers that are
\* fewer than B apart in the ring are different ones.
THEOREM BuffersExclusive == Spec => []BufferExclusive
  <1>1. RingInv => BufferExclusive
    <2> SUFFICES ASSUME RingInv, ~stale,
                        rpc \in {"read", "trim", "last", "count"},
                        wpc \in {"write", "drop"}
                 PROVE  he_fill_buffer # retval
      BY DEF BufferExclusive
    <2>1. Defined < B /\ Defined > 0 /\ Defined \in Int
      BY SMT DEF RingInv, TypeOK, Ring, Occupied, Defined
    <2>2. retval = last_buffer /\ last_buffer # NULL /\ last_buffer \in Buffers
      BY SMT DEF RingInv, TypeOK, Ring, Counters
    <2>3. he_fill_buffer = Ahead(last_buffer, Defined)
      BY <2>2 DEF RingInv, Ring, Occupied, ReaderOut, WriterOut, Behind
    <2>4. Ahead(last_buffer, Defined) # last_buffer
      BY <2>1, <2>2, SMT DEF Ahead, Buffers
    <2> QED
      BY <2>2, <2>3, <2>4
  <1> QED
    BY RingInvariant, <1>1, PTL

\* What the buffers hold, what has been saved and what is still missing follow
\* from the counters after every step of either process.
LEMMA SaveKept ==
  ASSUME SaveInv, [Next]_vars
  PROVE  Buffered' /\ Saving' /\ Left'
  <1>1. /\ total_segments_read \in Nat /\ total_segments_written \in Nat
        /\ Defined \in 0 .. B /\ nSamplesToDo \in Nat /\ nSamplesDone \in Nat
        /\ eorecording \in {0, 1} /\ iloop \in Nat /\ data \in [Buffers -> Nat]
        /\ saved \in Seq(Nat) /\ last_buffer \in Buffers \cup {NULL}
        /\ he_fill_buffer \in Buffers \cup {NULL} /\ stale \in BOOLEAN
        /\ wpc = "count" => Defined > 0
    BY DEF SaveInv, RingInv, TypeOK, Counters
  <1> DEFINE R == total_segments_read
             W == total_segments_written
             Filled == rpc \in {"trim", "last", "count"}
  <1>2. Buffered'
    <2>1. CASE ReaderRead \/ ReaderRealEnd
      <3>1. /\ rpc = "read" /\ data' = [data EXCEPT ![he_fill_buffer] = R + 1]
            /\ UNCHANGED <<counts, pointers, wpc, stale>>
        BY <2>1 DEF ReaderRead, ReaderRealEnd, FillBuffer
      <3>2. CASE stale \/ wpc \in WriterOut
        BY <3>1, <3>2 DEF Buffered
      <3>3. CASE ~stale /\ wpc \notin WriterOut
        <4>1. /\ he_fill_buffer \in Buffers /\ Defined < B
              /\ last_buffer # NULL => he_fill_buffer = Ahead(last_buffer, Behind)
              /\ last_buffer = NULL => Behind <= 0
          BY <1>1, <3>1, <3>3, SMT DEF SaveInv, RingInv, Ring, Counters, Occupied, ReaderOut,
             Behind, Defined
        <4>2. data'[he_fill_buffer] = R + 1
          BY <1>1, <3>1, <4>1
        <4>3. ASSUME NEW k \in 0 .. Behind - 1
              PROVE  data'[Ahead(last_buffer, k)] = data[Ahead(last_buffer, k)]
          <5>1. last_buffer \in Buffers /\ Behind \in Int /\ Behind < B
            BY <1>1, <4>1, <4>3, SMT DEF Behind
          <5>2. Ahead(last_buffer, k) # he_fill_buffer
            BY <4>1, <4>3, <5>1, SMT DEF Ahead, Buffers
          <5>3. Ahead(last_buffer, k) \in Buffers
            BY <4>3, <5>1, SMT DEF Ahead, Buffers
          <5> QED
            BY <1>1, <3>1, <5>2, <5>3
        <4>4. Behind' = Behind /\ \A k : Ahead(last_buffer, k)' = Ahead(last_buffer, k)
          BY <3>1 DEF Behind, Defined, Ahead
        <4> QED
          BY <3>1, <3>3, <4>2, <4>3, <4>4 DEF Buffered, SaveInv
      <3> QED
        BY <3>2, <3>3
    <2>2. CASE ReaderSetLast
      <3>1. /\ rpc = "last" /\ rpc' \in {"count", "gone"}
            /\ last_buffer' = last_buffer \/ last_buffer = NULL
            /\ UNCHANGED <<counts, he_fill_buffer, data, wpc, stale>>
        BY <2>2, SMT DEF ReaderSetLast
      <3>2. CASE last_buffer = NULL
        <4>1. Behind' <= 0 /\ Behind' \in Int
          BY <1>1, <3>1, <3>2, SMT DEF SaveInv, RingInv, Counters, Behind, Defined
        <4>2. ~ \E k : k \in 0 .. Behind' - 1
          BY <4>1, SMT
        <4>3. stale \/ wpc \in WriterOut \/ data[he_fill_buffer] = R + 1
          BY <3>1 DEF SaveInv, Buffered
        <4> QED
          BY <3>1, <4>2, <4>3 DEF Buffered
      <3>3. CASE last_buffer' = last_buffer
        BY <3>1, <3>3 DEF Buffered, SaveInv, Behind, Defined, Ahead
      <3> QED
        BY <3>1, <3>2, <3>3
    <2>3. CASE ReaderCount
      <3>1. /\ rpc = "count" /\ rpc' = "test" /\ R' = R + 1
            /\ UNCHANGED <<W, pointers, data, wpc, stale>>
        BY <2>3 DEF ReaderCount
      <3>2. CASE stale \/ wpc \in WriterOut
        BY <3>1, <3>2 DEF Buffered
      <3>3. CASE ~stale /\ wpc \notin WriterOut
        <4>1. /\ last_buffer \in Buffers /\ he_fill_buffer = Ahead(last_buffer, Behind)
              /\ data[he_fill_buffer] = R + 1
          BY <1>1, <3>1, <3>3, SMT DEF SaveInv, RingInv, Ring, Counters, Occupied, ReaderOut,
             Buffered
        <4>2. /\ Behind' = Behind + 1 /\ Behind \in Nat
              /\ Behind = R - W - (IF wpc = "count" THEN 1 ELSE 0)
          BY <1>1, <3>1, SMT DEF Behind, Defined
        <4>3. ASSUME NEW k \in 0 .. Behind
              PROVE  data[Ahead(last_buffer, k)] = W + k + 1 + (IF wpc = "count" THEN 1 ELSE 0)
          <5>1. CASE k = Behind
            BY <1>1, <4>1, <4>2, <5>1, SMT
          <5>2. CASE k \in 0 .. Behind - 1
            BY <3>3, <5>2 DEF SaveInv, Buffered
          <5> QED
            BY <4>2, <4>3, <5>1, <5>2, SMT
        <4>4. \A k : Ahead(last_buffer, k)' = Ahead(last_buffer, k)
          BY <3>1 DEF Ahead
        <4>5. 0 .. Behind' - 1 = 0 .. Behind
          BY <4>2, SMT
        <4>6. \A k \in 0 .. Behind' - 1 :
                data'[Ahead(last_buffer, k)'] =
                    W' + k + 1 + (IF wpc' = "count" THEN 1 ELSE 0)
          BY <3>1, <4>3, <4>4, <4>5
        <4>7. rpc' \notin {"trim", "last", "count"}
          BY <3>1
        <4> QED
          BY <4>6, <4>7 DEF Buffered
      <3> QED
        BY <3>2, <3>3
    <2>4. CASE WriterDrop
      <3>1. CASE wpc' \in WriterOut
        BY <3>1 DEF Buffered
      <3>2. CASE wpc' \notin WriterOut
        <4>1. /\ wpc = "drop" /\ wpc' = "count" /\ last_buffer' = INC(last_buffer)
              /\ Defined > 0 /\ UNCHANGED <<counts, he_fill_buffer, data, rpc, stale>>
          BY <2>4, <3>2, SMT DEF WriterDrop, WriterOut
        <4>2. last_buffer \in Buffers /\ Behind = Defined /\ Behind' = Defined - 1
          BY <1>1, <4>1, SMT DEF SaveInv, RingInv, Counters, Behind, Defined
        <4>3. ASSUME NEW k \in 0 .. Defined - 2
              PROVE  Ahead(last_buffer, k)' = Ahead(last_buffer, k + 1)
                     /\ k + 1 \in 0 .. Defined - 1
          BY <1>1, <4>1, <4>2, SMT DEF Ahead, INC, Buffers
        <4>4. ~stale => \A k \in 0 .. Defined - 2 : data[Ahead(last_buffer, k + 1)] = W + k + 1 + 1
          <5> SUFFICES ASSUME ~stale, NEW k \in 0 .. Defined - 2
                       PROVE  data[Ahead(last_buffer, k + 1)] = W + k + 1 + 1
            OBVIOUS
          <5>1. data[Ahead(last_buffer, k + 1)] = W + (k + 1) + 1 + 0
            BY <4>1, <4>2, <4>3 DEF SaveInv, Buffered, WriterOut
          <5> QED
            BY <1>1, <5>1, SMT
        <4>5. 0 .. Behind' - 1 = 0 .. Defined - 2
          BY <1>1, <4>2, SMT
        <4>6. ~stale /\ Filled => data[he_fill_buffer] = R + 1
          BY <4>1 DEF SaveInv, Buffered, WriterOut
        <4> QED
          BY <4>1, <4>3, <4>4, <4>5, <4>6 DEF Buffered
      <3> QED
        BY <3>1, <3>2
    <2>5. CASE WriterCount
      <3>1. /\ wpc = "count" /\ wpc' = "test" /\ W' = W + 1
            /\ UNCHANGED <<R, pointers, data, rpc, stale>>
        BY <2>5 DEF WriterCount
      <3>2. Behind' = Behind /\ \A k : Ahead(last_buffer, k)' = Ahead(last_buffer, k)
        BY <1>1, <3>1, SMT DEF Behind, Defined, Ahead
      <3>3. \A k \in 0 .. Behind - 1 : W' + k + 1 + 0 = W + k + 1 + 1
        BY <1>1, <3>1, SMT DEF Behind
      <3> QED
        BY <3>1, <3>2, <3>3 DEF Buffered, SaveInv, WriterOut
    <2>6. CASE ~(\/ ReaderRead \/ ReaderRealEnd \/ ReaderSetLast \/ ReaderCount
                 \/ WriterDrop \/ WriterCount)
      <3> DEFINE Still == /\ UNCHANGED <<counts, data, last_buffer>> /\ (stale => stale')
                          /\ wpc' \in WriterOut \/ (wpc \notin WriterOut /\ wpc' # "count"
                                                    /\ wpc # "count") \/ wpc' = wpc
                          /\ rpc' \in {"trim", "last", "count"} =>
                                Filled /\ he_fill_buffer' = he_fill_buffer
      <3>1. ASSUME \/ ReaderRequest \/ ReaderFinish \/ ReaderFlag \/ ReaderHangup
                   \/ ReaderOccupy \/ ReaderTrim \/ ReaderFails \/ ReaderTest
            PROVE  Still
        BY <1>1, <3>1, SMT DEF ReaderRequest, ReaderFinish, ReaderFlag, ReaderHangup,
           ReaderOccupy, ReaderTrim, ReaderFails, ReaderTest, WriterOut
      <3>2. ASSUME \/ ReaderClear \/ ReaderWake \/ ReaderClose \/ ReaderReap
                   \/ ReaderSignalled \/ WriterLoop \/ WriterEnd \/ WriterDrained
            PROVE  Still
        BY <1>1, <3>2, SMT DEF ReaderClear, ReaderWake, ReaderClose, ReaderReap,
           ReaderSignalled, WriterLoop, WriterEnd, WriterDrained, WriterOut
      <3>3. ASSUME \/ WriterRequest \/ WriterFlag \/ WriterHangup \/ WriterGet
                   \/ WriterWrite \/ WriterFails \/ WriterTest \/ WriterClear
            PROVE  Still
        BY <1>1, <3>3, SMT DEF WriterRequest, WriterFlag, WriterHangup, WriterGet,
           WriterWrite, WriterFails, WriterTest, WriterClear, WriterOut
      <3>4. ASSUME \/ WriterWake \/ WriterClose \/ WriterSignalled
            PROVE  Still
        BY <1>1, <3>4, SMT DEF WriterWake, WriterClose, WriterSignalled, WriterOut
      <3>5. ASSUME ReaderWoken
            PROVE  Still
        BY <1>1, <3>5, SMT DEF ReaderWoken, WriterOut
      <3>6. ASSUME WriterWoken
            PROVE  Still
        BY <1>1, <3>6, SMT DEF WriterWoken, WriterOut
      <3>7. ASSUME Interrupt \/ Kill \/ UNCHANGED vars
            PROVE  Still
        BY <3>7, SMT DEF Interrupt, Kill, vars, WriterOut
      <3>8. Still
        BY <2>6, <3>1, <3>2, <3>3, <3>4, <3>5, <3>6, <3>7 DEF Next, ReaderStep,
           WriterStep, Idle
      <3> QED
        BY <3>8 DEF Buffered, SaveInv, Behind, Defined, Ahead
    <2> QED
      BY <2>1, <2>2, <2>3, <2>4, <2>5, <2>6
  <1>3. Saving'
    <2>1. CASE WriterLoop
      <3>1. /\ wpc = "loop"
            /\ wpc' = IF nSamplesDone < nSamplesToDo THEN "end" ELSE "closing"
            /\ UNCHANGED <<counts, ends, nSamplesDone, saved, rpc, stale>>
        BY <2>1, SMT DEF WriterLoop
      <3>2. SavedInOrder'
        BY <3>1 DEF SaveInv, Saving, SavedInOrder
      <3> QED
        BY <1>1, <3>1, <3>2, SMT DEF SaveInv, Saving, AfterSave, WriterOut
    <2>2. CASE WriterWrite
      <3>1. /\ wpc = "write" /\ wpc' = "drop"
            /\ UNCHANGED <<counts, ends, rpc, stale>>
            /\ IF nSamplesDone < nSamplesToDo
               THEN saved' = Append(saved, data[retval]) /\ nSamplesDone' = nSamplesDone + 1
               ELSE UNCHANGED <<saved, nSamplesDone>>
        BY <2>2 DEF WriterWrite
      <3>2. CASE nSamplesDone < nSamplesToDo
        <4>1. nSamplesDone = W /\ Len(saved) = W /\ SavedInOrder
          BY <1>1, <3>1, <3>2, SMT DEF SaveInv, Saving, AfterSave, WriterOut
        <4>2. data[retval] = W + 1 \/ stale \/ (rpc = "gone" /\ R = W)
          <5> SUFFICES ASSUME ~stale, ~(rpc = "gone" /\ R = W)
                       PROVE  data[retval] = W + 1
            OBVIOUS
          <5>1. Defined > 0 /\ retval = last_buffer /\ last_buffer \in Buffers
            BY <1>1, <3>1, SMT DEF SaveInv, RingInv, Ring, Counters, Defined
          <5>2. Behind = Defined /\ 0 \in 0 .. Behind - 1 /\ Ahead(last_buffer, 0) = last_buffer
            BY <1>1, <3>1, <5>1, SMT DEF Behind, Ahead, Buffers
          <5>3. data[Ahead(last_buffer, 0)] = W + 0 + 1 + 0
            BY <3>1, <5>2 DEF SaveInv, Buffered, WriterOut
          <5> QED
            BY <1>1, <5>1, <5>2, <5>3, SMT
        <4>3. /\ saved' = Append(saved, data[retval]) /\ Len(saved') = W + 1
              /\ saved'[W + 1] = data[retval]
              /\ \A i \in 1 .. W : saved'[i] = saved[i]
          <5>1. data[retval] \in Nat
            BY <1>1, <3>1, SMT DEF SaveInv, RingInv, TypeOK, Counters
          <5>2. saved' = Append(saved, data[retval])
            BY <3>1, <3>2
          <5> QED
            BY <1>1, <4>1, <5>1, <5>2, AppendProperties
        <4>4. SavedInOrder'
          <5> SUFFICES ASSUME NEW i \in 1 .. W + 1
                       PROVE  \/ saved'[i] = i \/ stale'
                              \/ i = Len(saved') /\ rpc' = "gone" /\ i > R'
            BY <4>3 DEF SavedInOrder
          <5>1. CASE i = W + 1
            BY <1>1, <3>1, <4>2, <4>3, <5>1, SMT
          <5>2. CASE i \in 1 .. W
            <6>1. saved[i] = i \/ stale \/ i > R
              BY <4>1, <5>2 DEF SavedInOrder
            <6>2. ~(i > R)
              BY <1>1, <5>2, SMT DEF Defined
            <6> QED
              BY <3>1, <4>3, <5>2, <6>1, <6>2
          <5> QED
            BY <1>1, <5>1, <5>2, SMT
        <4> QED
          BY <1>1, <3>1, <3>2, <4>1, <4>3, <4>4, SMT DEF Saving, AfterSave, WriterOut
      <3>3. CASE ~(nSamplesDone < nSamplesToDo)
        <4>1. SavedInOrder' /\ eorecording = 1 /\ nSamplesDone >= nSamplesToDo
          <5>1. SavedInOrder'
            BY <3>1, <3>3 DEF SaveInv, Saving, SavedInOrder
          <5>2. eorecording = 1
            BY <1>1, <3>1, <3>3, SMT DEF SaveInv, Saving
          <5> QED
            BY <1>1, <3>3, <5>1, <5>2, SMT
        <4> QED
          BY <3>1, <3>3, <4>1, SMT DEF SaveInv, Saving
      <3> QED
        BY <3>2, <3>3
    <2>3. CASE WriterCount
      <3>1. /\ wpc = "count" /\ wpc' = "test" /\ W' = W + 1
            /\ UNCHANGED <<R, ends, nSamplesDone, saved, rpc, stale>>
        BY <2>3 DEF WriterCount
      <3>2. SavedInOrder'
        BY <3>1 DEF SaveInv, Saving, SavedInOrder
      <3> QED
        BY <1>1, <3>1, <3>2, SMT DEF SaveInv, Saving, AfterSave, WriterOut
    <2>4. CASE ReaderTrim \/ ReaderRealEnd \/ ReaderCount
      <3>1. /\ W' = W /\ rpc \in {"trim", "read", "count"}
            /\ UNCHANGED <<nSamplesDone, saved, wpc, stale>>
            /\ nSamplesToDo' <= nSamplesToDo /\ nSamplesToDo' \in Int
            /\ eorecording' = 1 \/ UNCHANGED ends
        <4>1. CASE ReaderTrim
          <5>1. iloop > 0 /\ eorecording = 1
            BY <4>1 DEF ReaderTrim, SaveInv, RingInv, Wanted
          <5> QED
            BY <1>1, <4>1, <5>1, SMT DEF ReaderTrim
        <4>2. CASE ReaderRealEnd \/ ReaderCount
          BY <1>1, <4>2, SMT DEF ReaderRealEnd, ReaderCount
        <4> QED
          BY <2>4, <4>1, <4>2
      <3>2. SavedInOrder'
        BY <3>1 DEF SaveInv, Saving, SavedInOrder
      <3>3. CASE eorecording' = 1
        BY <1>1, <3>1, <3>2, <3>3, SMT DEF SaveInv, Saving, AfterSave
      <3>4. CASE UNCHANGED ends
        BY <3>1, <3>2, <3>4 DEF SaveInv, Saving, AfterSave
      <3> QED
        BY <3>1, <3>3, <3>4
    <2>5. CASE ~(\/ WriterLoop \/ WriterWrite \/ WriterCount \/ ReaderTrim
                 \/ ReaderRealEnd \/ ReaderCount)
      <3> DEFINE In == wpc \in {"end", "drained", "request", "flag", "blocked", "get", "write"}
                 Still == /\ UNCHANGED <<counts, ends, nSamplesDone, saved>>
                          /\ (stale => stale') /\ (rpc = "gone" => rpc' = "gone")
                          /\ \/ wpc' \in WriterOut
                             \/ wpc' = wpc
                             \/ wpc \notin WriterOut /\ AfterSave' = AfterSave /\ (In' => In)
      <3>1. ASSUME \/ ReaderRequest \/ ReaderFinish \/ ReaderFlag \/ ReaderHangup
                   \/ ReaderOccupy \/ ReaderRead \/ ReaderFails \/ ReaderSetLast
            PROVE  Still
        BY <1>1, <3>1, SMT DEF ReaderRequest, ReaderFinish, ReaderFlag, ReaderHangup,
           ReaderOccupy, ReaderRead, ReaderFails, ReaderSetLast, WriterOut, AfterSave
      <3>2. ASSUME \/ ReaderTest \/ ReaderClear \/ ReaderWake \/ ReaderClose
                   \/ ReaderReap \/ ReaderSignalled \/ WriterEnd \/ WriterDrained
            PROVE  Still
        BY <1>1, <3>2, SMT DEF ReaderTest, ReaderClear, ReaderWake, ReaderClose,
           ReaderReap, ReaderSignalled, WriterEnd, WriterDrained, WriterOut, AfterSave
      <3>3. ASSUME \/ WriterRequest \/ WriterFlag \/ WriterHangup \/ WriterGet
                   \/ WriterFails \/ WriterDrop \/ WriterTest \/ WriterClear
            PROVE  Still
        BY <1>1, <3>3, SMT DEF WriterRequest, WriterFlag, WriterHangup, WriterGet,
           WriterFails, WriterDrop, WriterTest, WriterClear, WriterOut, AfterSave
      <3>4. ASSUME \/ WriterWake \/ WriterClose \/ WriterSignalled
            PROVE  Still
        BY <1>1, <3>4, SMT DEF WriterWake, WriterClose, WriterSignalled, WriterOut,
           AfterSave
      <3>5. ASSUME ReaderWoken
            PROVE  Still
        BY <1>1, <3>5, SMT DEF ReaderWoken, WriterOut, AfterSave
      <3>6. ASSUME WriterWoken
            PROVE  Still
        BY <1>1, <3>6, SMT DEF WriterWoken, WriterOut, AfterSave
      <3>7. ASSUME Interrupt \/ Kill \/ UNCHANGED vars
            PROVE  Still
        BY <3>7, SMT DEF Interrupt, Kill, vars, WriterOut, AfterSave
      <3>8. Still
        BY <2>5, <3>1, <3>2, <3>3, <3>4, <3>5, <3>6, <3>7 DEF Next, ReaderStep,
           WriterStep, Idle
      <3>9. SavedInOrder'
        BY <3>8 DEF SaveInv, Saving, SavedInOrder
      <3>10. CASE wpc' \in WriterOut
        BY <1>1, <3>8, <3>9, <3>10, SMT DEF SaveInv, Saving, WriterOut
      <3>11. CASE wpc' \notin WriterOut
        BY <3>8, <3>9, <3>11 DEF SaveInv, Saving, AfterSave
      <3> QED
        BY <3>10, <3>11
    <2> QED
      BY <2>1, <2>2, <2>3, <2>4, <2>5
  <1>4. Left'
    <2>1. CASE ReaderRead \/ ReaderRealEnd \/ ReaderTrim \/ ReaderCount
      <3>1. CASE ReaderRead
        BY <1>1, <3>1, SMT DEF ReaderRead, SaveInv, RingInv, Wanted, Left, ReaderOut, WriterOut
      <3>2. CASE ReaderRealEnd
        BY <1>1, <3>2, SMT DEF ReaderRealEnd, SaveInv, RingInv, Wanted, Left, ReaderOut,
           WriterOut
      <3>3. CASE ReaderTrim
        BY <1>1, <3>3, SMT DEF ReaderTrim, SaveInv, RingInv, Wanted, Left, ReaderOut, WriterOut
      <3>4. CASE ReaderCount
        BY <1>1, <3>4, SMT DEF ReaderCount, SaveInv, RingInv, Wanted, Left, ReaderOut, WriterOut
      <3> QED
        BY <2>1, <3>1, <3>2, <3>3, <3>4
    <2>2. CASE WriterLoop
      <3>1. /\ wpc = "loop" /\ UNCHANGED <<R, saved, ends, rpc, iloop>>
            /\ IF nSamplesDone < nSamplesToDo THEN wpc' = "end" /\ left' = left
                                              ELSE wpc' = "closing" /\ left' = "loop"
        BY <2>2 DEF WriterLoop
      <3>2. left # "loop"
        BY <3>1, SMT DEF SaveInv, Left, WriterOut
      <3>3. CASE nSamplesDone < nSamplesToDo
        BY <3>1, <3>2, <3>3, SMT DEF SaveInv, Left
      <3>4. CASE ~(nSamplesDone < nSamplesToDo)
        <4>1. Len(saved) >= nSamplesToDo /\ Len(saved) \in Nat
          BY <1>1, <3>4, SMT DEF SaveInv, Saving
        <4>2. CASE eorecording = 1
          <5>1. Len(saved) + 1 >= R + (IF Filled THEN 1 ELSE 0)
            BY <1>1, <4>1, <4>2, SMT DEF SaveInv, Left, RingInv, Wanted, ReaderOut
          <5> QED
            BY <3>1, <3>4, <4>2, <5>1, SMT DEF SaveInv, Left, WriterOut
        <4>3. CASE eorecording = 0
          <5>1. nSamplesDone = nSamplesToDo /\ nSamplesDone = W /\ Len(saved) = nSamplesDone
            BY <1>1, <3>1, <3>4, <4>3, SMT DEF SaveInv, Saving, AfterSave, WriterOut
          <5>2. rpc \in ReaderOut \/ iloop = 0
            BY <1>1, <4>3, <5>1, SMT DEF SaveInv, RingInv, Wanted, ReaderOut, Defined
          <5> QED
            BY <3>1, <3>4, <4>3, <5>1, <5>2, SMT DEF SaveInv, Left, WriterOut
        <4> QED
          BY <1>1, <4>2, <4>3
      <3> QED
        BY <3>3, <3>4
    <2>3. CASE WriterEnd
      BY <1>1, <2>3, SMT DEF WriterEnd, SaveInv, Left, WriterOut
    <2>4. CASE WriterDrained
      <3>1. /\ wpc = "drained" /\ UNCHANGED <<R, saved, ends, rpc, iloop>>
            /\ IF Defined = 0 THEN wpc' = "closing" /\ left' = "loop"
                              ELSE wpc' = "request" /\ left' = left
        BY <2>4 DEF WriterDrained
      <3>2. left # "loop" /\ eorecording = 1
        BY <3>1, SMT DEF SaveInv, Left, WriterOut
      <3>3. Defined = 0 => Len(saved) + 1 >= R + (IF Filled THEN 1 ELSE 0)
        <4>1. Len(saved) >= nSamplesToDo \/ Len(saved) = W
          BY <1>1, <3>1, SMT DEF SaveInv, Saving, AfterSave, WriterOut
        <4> QED
          BY <1>1, <3>2, <4>1, SMT DEF SaveInv, Left, RingInv, Wanted, ReaderOut, Defined
      <3> QED
        BY <1>1, <3>1, <3>2, <3>3, SMT DEF SaveInv, Left, WriterOut
    <2>5. CASE WriterWrite
      <3>1. /\ wpc = "write" /\ wpc' = "drop" /\ UNCHANGED <<R, ends, rpc, iloop, left>>
        BY <2>5 DEF WriterWrite
      <3> QED
        BY <3>1, SMT DEF SaveInv, Left, WriterOut
    <2>6. CASE ~(\/ ReaderRead \/ ReaderRealEnd \/ ReaderTrim \/ ReaderCount \/ WriterLoop
                 \/ WriterEnd \/ WriterDrained \/ WriterWrite)
      <3> DEFINE Still == /\ UNCHANGED <<R, saved, ends>>
                          /\ left' = "loop" => left = "loop"
                          /\ wpc \in WriterOut => wpc' \in WriterOut
                          /\ wpc' = "drained" => wpc = "drained"
                          /\ rpc' \in {"last", "count"} => rpc \in {"last", "count"}
                          /\ Filled' => Filled
                          /\ rpc \in ReaderOut => rpc' \in ReaderOut
                          /\ iloop' = iloop \/ iloop' = 0
      <3>1. ASSUME \/ ReaderRequest \/ ReaderFinish \/ ReaderFlag \/ ReaderHangup
                   \/ ReaderOccupy \/ ReaderFails \/ ReaderSetLast \/ ReaderTest
            PROVE  Still
        BY <1>1, <3>1, SMT DEF ReaderRequest, ReaderFinish, ReaderFlag, ReaderHangup,
           ReaderOccupy, ReaderFails, ReaderSetLast, ReaderTest, WriterOut, ReaderOut
      <3>2. ASSUME \/ ReaderClear \/ ReaderWake \/ ReaderClose \/ ReaderReap
                   \/ ReaderSignalled \/ WriterRequest \/ WriterFlag \/ WriterHangup
            PROVE  Still
        BY <1>1, <3>2, SMT DEF ReaderClear, ReaderWake, ReaderClose, ReaderReap,
           ReaderSignalled, WriterRequest, WriterFlag, WriterHangup, WriterOut,
           ReaderOut
      <3>3. ASSUME \/ WriterGet \/ WriterFails \/ WriterDrop \/ WriterCount
                   \/ WriterTest \/ WriterClear \/ WriterWake \/ WriterClose
            PROVE  Still
        BY <1>1, <3>3, SMT DEF WriterGet, WriterFails, WriterDrop, WriterCount,
           WriterTest, WriterClear, WriterWake, WriterClose, WriterOut, ReaderOut
      <3>4. ASSUME WriterSignalled
            PROVE  Still
        BY <1>1, <3>4, SMT DEF WriterSignalled, WriterOut, ReaderOut
      <3>5. ASSUME ReaderWoken
            PROVE  Still
        BY <1>1, <3>5, SMT DEF ReaderWoken, WriterOut, ReaderOut
      <3>6. ASSUME WriterWoken
            PROVE  Still
        BY <1>1, <3>6, SMT DEF WriterWoken, WriterOut, ReaderOut
      <3>7. ASSUME Interrupt \/ Kill \/ UNCHANGED vars
            PROVE  Still
        BY <3>7, SMT DEF Interrupt, Kill, vars, WriterOut, ReaderOut
      <3>8. Still
        BY <2>6, <3>1, <3>2, <3>3, <3>4, <3>5, <3>6, <3>7 DEF Next, ReaderStep,
           WriterStep, Idle
      <3> QED
        BY <1>1, <3>8, SMT DEF SaveInv, Left
    <2> QED
      BY <2>1, <2>2, <2>3, <2>4, <2>5, <2>6
  <1> QED
    BY <1>2, <1>3, <1>4

\* The ring, what its buffers hold and what has been saved agree in every
\* reachable state, whatever the two processes do and in any order.
THEOREM SaveInvariant == Spec => []SaveInv
  <1>1. ASSUME Init
        PROVE  Buffered /\ Saving /\ Left
    <2>1. Buffered
      BY <1>1, SMT DEF Init, Buffered, Behind, Defined
    <2>2. Saving
      BY <1>1, SMT DEF Init, Saving, SavedInOrder, AfterSave
    <2>3. Left
      BY <1>1, SMT DEF Init, Left
    <2> QED
      BY <2>1, <2>2, <2>3
  <1>2. /\ RingInv /\ RingInv' /\ Buffered /\ Saving /\ Left /\ [Next]_vars
        => Buffered' /\ Saving' /\ Left'
    BY SaveKept DEF SaveInv
  <1>3. SaveInv <=> RingInv /\ Buffered /\ Saving /\ Left
    BY DEF SaveInv
  <1> QED
    BY <1>1, <1>2, <1>3, RingInvariant, PTL DEF Spec

\* What the child saves is what the parent read, in order, unless a process was
\* woken in vain or the parent had died.
THEOREM SavedAsRead == Spec => []SavedInOrder
  <1>1. SaveInv => SavedInOrder
    BY DEF SaveInv, Saving
  <1> QED
    BY SaveInvariant, <1>1, PTL

\* A child that leaves its loop has saved all that was wanted, or at a real end
\* of the recording all but the last segment.
THEOREM LosesLittle == Spec => []LosesAtMostLast
  <1>1. SaveInv => LosesAtMostLast
    BY SMT DEF SaveInv, RingInv, TypeOK, Left, LosesAtMostLast
  <1> QED
    BY SaveInvariant, <1>1, PTL
=============================================================================
