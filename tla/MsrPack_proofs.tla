--------------------------- MODULE MsrPack_proofs ---------------------------
(***************************************************************************)
(* At 200 Hz, for any number of channels, any block size, any corrections  *)
(* and any split of a block into records: the channels stay in step, holes *)
(* are exactly what packing failed on, sequence numbers count the records, *)
(* and the announced times cover each record.                              *)
(***************************************************************************)
EXTENDS MsrPack, TLAPS

(* The rate of config.cfg; the first start time is stamped on the grid     *)
(* (TimeCorrection_proofs: StampNear).                                     *)
Rate200 == SampRate = 200 /\ FirstStart % SamplePeriod = 0

OnGrid(t) == t % SamplePeriod = 0

Covered(c, t) == last[c] # NoRecord => CoveredUpTo(c) = t

InBlock == process \in {"begin", "pack", "open"}

(* Where the block being packed begins. *)
BlockStart == nextStart - SamplePeriod * numsamples

BlocksPart == InBlock => blocks < MaxBlocks
GridPart == OnGrid(nextStart) /\ \A c \in Channels : OnGrid(starttime[c])
CollectPart ==
    process = "collect" =>
        \A c \in Channels : starttime[c] = starttime[1] /\ Covered(c, starttime[c])
DonePart ==
    InBlock =>
        \A c \in Channels : c < channel \/ process = "open" => Covered(c, nextStart)
TodoPart ==
    process \in {"begin", "pack"} =>
        \A c \in Channels : c > channel \/ (c = channel /\ process = "begin")
            => starttime[c] = BlockStart /\ Covered(c, BlockStart)
PackPart ==
    process = "pack" =>
        /\ segstarttime = BlockStart
        /\ total < numsamples
        /\ starttime[channel] = segstarttime + SamplePeriod * total
        /\ Covered(channel, starttime[channel])
        /\ header = [start |-> starttime[channel], sequence |-> sequence[channel]]
        /\ sequence[channel] >= 1
SequencePart ==
    \A c \in Channels : ResetSequence(sequence[c]) = NextSequence(last[c].sequence)

Place == BlocksPart /\ CollectPart /\ DonePart /\ TodoPart /\ PackPart
IInv == TypeOK /\ GridPart /\ Place /\ SequencePart

-----------------------------------------------------------------------------
(* At 200 Hz k samples last k periods, without rounding. *)
LEMMA SpanAt200 ==
    ASSUME Rate200, NEW k \in Nat
    PROVE  Span(k) = SamplePeriod * k
<1>1. (2 * k * 1000000 + 200) \div 400 = 5000 * k
  BY SMT
<1> QED
  BY <1>1 DEF Span, Rate200, HPTMODULUS, SamplePeriod

(* Grid times survive a header, and stay on the grid when periods are added. *)
LEMMA GridTimes ==
    ASSUME NEW t \in Nat, OnGrid(t), NEW k \in Nat
    PROVE  HeaderTime(t) = t /\ OnGrid(t + SamplePeriod * k)
<1>1. PICK j \in Nat : t = 5000 * j
  <2>1. t = 5000 * (t \div 5000) + (t % 5000) /\ t \div 5000 \in Nat
    BY SMT
  <2> QED
    BY <2>1, SMT DEF OnGrid, SamplePeriod
<1>2. (5000 * j + 50) \div 100 = 50 * j
  BY SMT
<1>3. HeaderTime(t) = t
  BY <1>1, <1>2, SMT DEF HeaderTime
<1>4. (5000 * (j + k)) % 5000 = 0
  BY SMT
<1>5. t + 5000 * k = 5000 * (j + k)
  BY <1>1, SMT
<1> QED
  BY <1>3, <1>4, <1>5, SMT DEF OnGrid, SamplePeriod

(* Sequence numbers stay in range, and resetting one in range changes nothing. *)
LEMMA SequenceRange ==
    ASSUME NEW s \in 0 .. MaxSequence
    PROVE  /\ ResetSequence(s) \in 1 .. MaxSequence
           /\ NextSequence(s) \in 1 .. MaxSequence
           /\ s >= 1 => ResetSequence(s) = s
BY PackAssumption, SMT DEF ResetSequence, NextSequence

(* msr_pack returned after covering its channel up to the end of the block. *)
LEMMA Returned ==
    ASSUME channel \in Channels, ReturnToBlock, blocks < MaxBlocks, UNCHANGED blockVars,
           \A c \in Channels : c <= channel => Covered(c, nextStart)',
           \A c \in Channels : c > channel =>
               starttime'[c] = BlockStart /\ Covered(c, BlockStart)'
    PROVE  Place' /\ channel' \in Channels /\ process' \in {"begin", "open"}
<1> USE PackAssumption DEF Channels, blockVars
<1>1. CASE channel < NumChannels /\ channel' = channel + 1 /\ process' = "begin"
  <2>1. channel' \in Channels /\ \A c \in Channels : (c < channel' <=> c <= channel) /\ (c > channel' \/ c = channel' <=> c > channel)
    BY <1>1, SMT
  <2>2. BlockStart' = BlockStart
    BY DEF BlockStart
  <2>3. DonePart'
    BY <1>1, <2>1 DEF DonePart
  <2>4. TodoPart'
    BY <1>1, <2>1, <2>2 DEF TodoPart, Covered
  <2> QED
    BY <1>1, <2>1, <2>3, <2>4 DEF Place, BlocksPart, CollectPart, PackPart, InBlock
<1>2. CASE channel = NumChannels /\ channel' = channel /\ process' = "open"
  <2>1. \A c \in Channels : c <= channel
    BY <1>2, SMT
  <2> QED
    BY <1>2, <2>1 DEF Place, BlocksPart, CollectPart, DonePart, TodoPart, PackPart, InBlock
<1> QED
  BY <1>1, <1>2, SMT DEF ReturnToBlock
-----------------------------------------------------------------------------
(* Before the first block nothing is packed. *)
LEMMA InitInv ==
    ASSUME Init, Rate200
    PROVE  IInv
<1> USE PackAssumption
<1>1. 1 \in Channels
  BY SMT DEF Channels
<1>2. TypeOK
  BY <1>1, SMT DEF Init, TypeOK, NoRecord
<1>3. GridPart
  BY DEF Init, GridPart, OnGrid, Rate200
<1>4. Place
  BY <1>1 DEF Init, Place, BlocksPart, CollectPart, DonePart, TodoPart, PackPart, InBlock, Covered
<1>5. SequencePart
  BY SMT DEF Init, SequencePart, ResetSequence, NextSequence, NoRecord
<1> QED
  BY <1>2, <1>3, <1>4, <1>5 DEF IInv

(* The corrected block ends where the next start time begins. *)
LEMMA BlockDoneInv ==
    ASSUME IInv, BlockDone
    PROVE  IInv'
<1> USE PackAssumption
<1>1. PICK i \in Corrections : numsamples' = NumSamples + i
  BY DEF BlockDone
<1>2. numsamples' \in Nat \ {0} /\ 1 \in Channels
  BY <1>1, SMT DEF Channels
<1>3. starttime[1] \in Nat /\ OnGrid(starttime[1])
  BY <1>2 DEF IInv, TypeOK, GridPart
<1>4. nextStart' \in Nat /\ OnGrid(nextStart') /\ BlockStart' = starttime[1]
  <2>1. nextStart' = starttime[1] + SamplePeriod * numsamples'
    BY DEF BlockDone
  <2>2. OnGrid(nextStart')
    BY <1>2, <1>3, <2>1, GridTimes
  <2> QED
    BY <1>2, <1>3, <2>1, <2>2, SMT DEF BlockStart, SamplePeriod
<1>5. TypeOK'
  BY <1>2, <1>4 DEF IInv, TypeOK, BlockDone, history
<1>6. GridPart'
  BY <1>4 DEF IInv, GridPart, BlockDone
<1>7. Place'
  <2>1. BlocksPart' /\ CollectPart' /\ PackPart'
    BY DEF BlockDone, BlocksPart, CollectPart, PackPart
  <2>2. DonePart'
    <3>1. \A c \in Channels : ~(c < 1)
      BY SMT DEF Channels
    <3> QED
      BY <3>1 DEF BlockDone, DonePart
  <2>3. TodoPart'
    <3>1. \A c \in Channels : starttime[c] = starttime[1] /\ Covered(c, starttime[1])
      BY DEF IInv, Place, CollectPart, BlockDone
    <3> QED
      BY <3>1, <1>4 DEF BlockDone, TodoPart, Covered, CoveredUpTo, history
  <2> QED
    BY <2>1, <2>2, <2>3 DEF Place
<1>8. SequencePart'
  BY DEF IInv, SequencePart, BlockDone, history
<1> QED
  BY <1>5, <1>6, <1>7, <1>8 DEF IInv

(* msr_pack starts the record at the start time of its channel. *)
LEMMA BeginPackInv ==
    ASSUME IInv, BeginPack
    PROVE  IInv'
<1>1. channel \in Channels /\ starttime[channel] \in Nat /\ OnGrid(starttime[channel])
  BY DEF IInv, TypeOK, GridPart
<1>2. ResetSequence(sequence[channel]) \in 1 .. MaxSequence
  BY <1>1, SequenceRange DEF IInv, TypeOK
<1>3. HeaderTime(starttime[channel]) = starttime[channel]
  BY <1>1, GridTimes, 0 \in Nat
<1>4. TypeOK'
  <2>1. sequence' \in [Channels -> 0 .. MaxSequence]
    BY <1>1, <1>2, SMT DEF IInv, TypeOK, BeginPack
  <2>2. header' \in [start : Nat, sequence : 0 .. MaxSequence]
    BY <1>1, <1>2, <1>3, SMT DEF BeginPack
  <2> QED
    BY <2>1, <2>2, <1>1 DEF IInv, TypeOK, BeginPack, history, blockVars
<1>5. GridPart'
  BY DEF IInv, GridPart, BeginPack, blockVars
<1>6. Place'
  <2>1. BlocksPart' /\ CollectPart' /\ DonePart'
    BY DEF IInv, Place, BlocksPart, CollectPart, DonePart, InBlock, BeginPack, blockVars, history, Covered, CoveredUpTo
  <2>2. BlockStart' = BlockStart
    BY DEF BlockStart, BeginPack, blockVars
  <2>3. TodoPart'
    BY <2>2 DEF IInv, Place, TodoPart, BeginPack, history, Covered, CoveredUpTo
  <2>4. PackPart'
    <3>1. starttime[channel] = BlockStart /\ Covered(channel, BlockStart)
      BY <1>1 DEF IInv, Place, TodoPart, BeginPack
    <3>2. total' = 0 /\ numsamples' = numsamples /\ numsamples > 0
      BY SMT DEF IInv, TypeOK, BeginPack, blockVars
    <3>3. total' < numsamples' /\ starttime'[channel'] = segstarttime' + SamplePeriod * total'
      BY <3>2, <1>1, SMT DEF BeginPack, SamplePeriod
    <3>4. header' = [start |-> starttime'[channel'], sequence |-> sequence'[channel']] /\ sequence'[channel'] >= 1
      BY <1>1, <1>2, <1>3, SMT DEF IInv, TypeOK, BeginPack
    <3> QED
      BY <2>2, <3>1, <3>3, <3>4 DEF PackPart, BeginPack, Covered, CoveredUpTo, history
  <2> QED
    BY <2>1, <2>3, <2>4 DEF Place
<1>7. SequencePart'
  <2>1. ResetSequence(ResetSequence(sequence[channel])) = ResetSequence(sequence[channel])
    BY <1>2, SequenceRange, SMT
  <2> QED
    BY <2>1, <1>1 DEF IInv, TypeOK, SequencePart, BeginPack, history
<1> QED
  BY <1>4, <1>5, <1>6, <1>7 DEF IInv

(* A channel that fails gets its missing samples booked as dropped. *)
LEMMA BeginFailsInv ==
    ASSUME IInv, BeginFails
    PROVE  IInv'
<1>1. channel \in Channels /\ numsamples \in Nat /\ blocks < MaxBlocks
  BY DEF IInv, TypeOK, Place, BlocksPart, InBlock, BeginFails
<1>2. ResetSequence(sequence[channel]) \in 1 .. MaxSequence
  BY <1>1, SequenceRange DEF IInv, TypeOK
<1>3. \A c \in Channels : dropped'[c] = IF c = channel THEN dropped[c] + numsamples ELSE dropped[c]
  BY DEF IInv, TypeOK, BeginFails
<1>4. Place' /\ channel' \in Channels /\ process' \in {"begin", "open"}
  <2>1. \A c \in Channels : c <= channel => Covered(c, nextStart)'
    <3> SUFFICES ASSUME NEW c \in Channels, c <= channel, last[c] # NoRecord
                 PROVE  CoveredUpTo(c)' = nextStart
      BY DEF BeginFails, blockVars, Covered
    <3>1. CASE c = channel
      <4>1. CoveredUpTo(c) = nextStart - SamplePeriod * numsamples
        BY <3>1 DEF IInv, Place, TodoPart, BeginFails, Covered, BlockStart
      <4>2. last[c].start \in Nat /\ last[c].count \in Nat /\ dropped[c] \in Nat /\ nextStart \in Nat
        BY DEF IInv, TypeOK
      <4>3. CoveredUpTo(c)' = last[c].start + SamplePeriod * (last[c].count + (dropped[c] + numsamples))
        BY <3>1, <1>3 DEF CoveredUpTo, BeginFails
      <4> QED
        BY <4>1, <4>2, <4>3, <1>1, SMT DEF CoveredUpTo, SamplePeriod
    <3>2. CASE c < channel
      <4>1. CoveredUpTo(c) = nextStart
        BY <3>2 DEF IInv, Place, DonePart, InBlock, BeginFails, Covered
      <4>2. c # channel
        BY <3>2, <1>1, SMT DEF Channels
      <4> QED
        BY <4>1, <4>2, <1>3 DEF CoveredUpTo, BeginFails
    <3> QED
      BY <3>1, <3>2, <1>1, SMT DEF Channels
  <2>2. \A c \in Channels : c > channel => starttime'[c] = BlockStart /\ Covered(c, BlockStart)'
    <3> SUFFICES ASSUME NEW c \in Channels, c > channel
                 PROVE  starttime'[c] = BlockStart /\ Covered(c, BlockStart)'
      OBVIOUS
    <3>1. c # channel
      BY <1>1, SMT DEF Channels
    <3> QED
      BY <3>1, <1>3 DEF IInv, Place, TodoPart, BeginFails, blockVars, Covered, CoveredUpTo, BlockStart
  <2> QED
    BY <2>1, <2>2, <1>1, Returned DEF BeginFails
<1>5. TypeOK'
  <2>1. sequence' \in [Channels -> 0 .. MaxSequence]
    BY <1>1, <1>2, SMT DEF IInv, TypeOK, BeginFails
  <2>2. dropped' \in [Channels -> Nat]
    BY <1>1, SMT DEF IInv, TypeOK, BeginFails
  <2> QED
    BY <2>1, <2>2, <1>4 DEF IInv, TypeOK, BeginFails, blockVars
<1>6. GridPart'
  BY DEF IInv, GridPart, BeginFails, blockVars
<1>7. SequencePart'
  <2>1. ResetSequence(ResetSequence(sequence[channel])) = ResetSequence(sequence[channel])
    BY <1>2, SequenceRange, SMT
  <2> QED
    BY <2>1, <1>1 DEF IInv, TypeOK, SequencePart, BeginFails
<1> QED
  BY <1>4, <1>5, <1>6, <1>7 DEF IInv

(* The rest of a block that fails is booked as dropped. *)
LEMMA PackFailsInv ==
    ASSUME IInv, PackFails
    PROVE  IInv'
<1>1. channel \in Channels /\ numsamples \in Nat /\ total \in Nat /\ total < numsamples /\ blocks < MaxBlocks
  BY DEF IInv, TypeOK, Place, BlocksPart, PackPart, InBlock, PackFails
<1>2. numsamples - total \in Nat
  BY <1>1, SMT
<1>3. \A c \in Channels :
        dropped'[c] = IF c = channel THEN dropped[c] + (numsamples - total) ELSE dropped[c]
  <2>1. dropped[channel] \in Nat
    BY <1>1 DEF IInv, TypeOK
  <2>2. dropped[channel] + numsamples - total = dropped[channel] + (numsamples - total)
    BY <1>1, <2>1, SMT
  <2> QED
    BY <2>2 DEF IInv, TypeOK, PackFails
<1>4. Place' /\ channel' \in Channels /\ process' \in {"begin", "open"}
  <2>1. \A c \in Channels : c <= channel => Covered(c, nextStart)'
    <3> SUFFICES ASSUME NEW c \in Channels, c <= channel, last[c] # NoRecord
                 PROVE  CoveredUpTo(c)' = nextStart
      BY DEF PackFails, blockVars, Covered
    <3>1. CASE c = channel
      <4>1. CoveredUpTo(c) = (nextStart - SamplePeriod * numsamples) + SamplePeriod * total
        BY <3>1 DEF IInv, Place, PackPart, PackFails, Covered, BlockStart
      <4>2. last[c].start \in Nat /\ last[c].count \in Nat /\ dropped[c] \in Nat /\ nextStart \in Nat
        BY DEF IInv, TypeOK
      <4>3. CoveredUpTo(c)' = last[c].start + SamplePeriod * (last[c].count + (dropped[c] + (numsamples - total)))
        BY <3>1, <1>3 DEF CoveredUpTo, PackFails
      <4> QED
        BY <4>1, <4>2, <4>3, <1>1, SMT DEF CoveredUpTo, SamplePeriod
    <3>2. CASE c < channel
      <4>1. CoveredUpTo(c) = nextStart
        BY <3>2 DEF IInv, Place, DonePart, InBlock, PackFails, Covered
      <4>2. c # channel
        BY <3>2, <1>1, SMT DEF Channels
      <4> QED
        BY <4>1, <4>2, <1>3 DEF CoveredUpTo, PackFails
    <3> QED
      BY <3>1, <3>2, <1>1, SMT DEF Channels
  <2>2. \A c \in Channels : c > channel => starttime'[c] = BlockStart /\ Covered(c, BlockStart)'
    <3> SUFFICES ASSUME NEW c \in Channels, c > channel
                 PROVE  starttime'[c] = BlockStart /\ Covered(c, BlockStart)'
      OBVIOUS
    <3>1. c # channel
      BY <1>1, SMT DEF Channels
    <3> QED
      BY <3>1, <1>3 DEF IInv, Place, TodoPart, PackFails, blockVars, Covered, CoveredUpTo, BlockStart
  <2> QED
    BY <2>1, <2>2, <1>1, Returned DEF PackFails
<1>5. TypeOK'
  <2>1. dropped' \in [Channels -> Nat]
    <3>1. \A c \in Channels : dropped'[c] \in Nat
      BY <1>2, <1>3, SMT DEF IInv, TypeOK
    <3> QED
      BY <3>1 DEF IInv, TypeOK, PackFails
  <2> QED
    BY <2>1, <1>4 DEF IInv, TypeOK, PackFails, blockVars
<1>6. GridPart' /\ SequencePart'
  BY DEF IInv, GridPart, SequencePart, PackFails, blockVars
<1> QED
  BY <1>4, <1>5, <1>6 DEF IInv

(* What the record says, in terms of the block. *)
LEMMA RecordFacts ==
    ASSUME Rate200, IInv, process = "pack", NEW k \in 1 .. numsamples - total
    PROVE  /\ Record(k) = [start |-> starttime[channel], sequence |-> sequence[channel], count |-> k,
                           datastart |-> starttime[channel],
                           dataend |-> starttime[channel] + SamplePeriod * (numsamples - 1)]
           /\ segstarttime + Span(total + k) = starttime[channel] + SamplePeriod * k
           /\ segstarttime + Span(total + k) \in Nat
           /\ OnGrid(segstarttime + Span(total + k))
           /\ HeaderTime(segstarttime + Span(total + k)) = segstarttime + Span(total + k)
<1>1. channel \in Channels /\ starttime[channel] \in Nat /\ OnGrid(starttime[channel])
      /\ numsamples \in Nat \ {0} /\ total \in Nat /\ total < numsamples /\ segstarttime \in Nat
  BY DEF IInv, TypeOK, GridPart, Place, PackPart
<1>2. k \in Nat /\ total + k \in Nat /\ numsamples - 1 \in Nat
  BY <1>1, SMT
<1>3. MsrEndtime(starttime[channel], numsamples) = starttime[channel] + SamplePeriod * (numsamples - 1)
  BY <1>2, SpanAt200 DEF MsrEndtime
<1>4. Span(total + k) = SamplePeriod * (total + k)
  BY <1>2, SpanAt200
<1>5. starttime[channel] = segstarttime + SamplePeriod * total
  BY DEF IInv, Place, PackPart
<1>6. segstarttime + Span(total + k) = starttime[channel] + SamplePeriod * k
  BY <1>1, <1>2, <1>4, <1>5, SMT DEF SamplePeriod
<1>7. starttime[channel] + SamplePeriod * k \in Nat
  BY <1>1, <1>2, SMT DEF SamplePeriod
<1>8. OnGrid(starttime[channel] + SamplePeriod * k)
  BY <1>1, <1>2, GridTimes
<1>9. HeaderTime(starttime[channel] + SamplePeriod * k) = starttime[channel] + SamplePeriod * k
  BY <1>7, <1>8, GridTimes, 0 \in Nat
<1>10. header = [start |-> starttime[channel], sequence |-> sequence[channel]]
  BY DEF IInv, Place, PackPart
<1> QED
  BY <1>3, <1>6, <1>7, <1>8, <1>9, <1>10 DEF Record

(* A record covers the samples it takes; header and start move on by them. *)
LEMMA PackRecordInv ==
    ASSUME Rate200, IInv, PackRecord
    PROVE  IInv'
<1>1. channel \in Channels /\ starttime[channel] \in Nat /\ numsamples \in Nat \ {0} /\ total \in Nat
      /\ total < numsamples /\ blocks < MaxBlocks /\ segstarttime \in Nat /\ nextStart \in Nat
      /\ sequence[channel] \in 1 .. MaxSequence
  <2>1. sequence[channel] \in 0 .. MaxSequence /\ sequence[channel] >= 1
    BY DEF IInv, TypeOK, Place, PackPart, PackRecord
  <2> QED
    BY <2>1, SMT DEF IInv, TypeOK, Place, BlocksPart, PackPart, InBlock, PackRecord
<1>2. PICK k \in 1 .. numsamples - total :
        last' = [last EXCEPT ![channel] = Record(k)] /\ total' = total + k
  BY DEF PackRecord
<1>3. k \in Nat /\ k >= 1 /\ total' \in Nat /\ total' <= numsamples
  BY <1>1, <1>2, SMT
<1> DEFINE next == starttime[channel] + SamplePeriod * k
<1>4. /\ segstarttime + Span(total') = next /\ next \in Nat /\ OnGrid(next) /\ HeaderTime(next) = next
      /\ Record(k) = [start |-> starttime[channel], sequence |-> sequence[channel], count |-> k,
                      datastart |-> starttime[channel],
                      dataend |-> starttime[channel] + SamplePeriod * (numsamples - 1)]
  BY <1>2, RecordFacts DEF PackRecord
<1>5. starttime' = [starttime EXCEPT ![channel] = next]
  BY <1>4 DEF PackRecord
<1>6. header' = [start |-> next, sequence |-> NextSequence(sequence[channel])]
  <2>1. starttime'[channel] = next
    BY <1>1, <1>5 DEF IInv, TypeOK
  <2>2. sequence'[channel] = NextSequence(sequence[channel])
    BY <1>1 DEF IInv, TypeOK, PackRecord
  <2> QED
    BY <2>1, <2>2, <1>4 DEF PackRecord
<1>7. NextSequence(sequence[channel]) \in 1 .. MaxSequence
  BY <1>1, SequenceRange DEF IInv, TypeOK
<1>8. \A c \in Channels : /\ last'[c] = IF c = channel THEN Record(k) ELSE last[c]
                          /\ dropped'[c] = IF c = channel THEN 0 ELSE dropped[c]
                          /\ starttime'[c] = IF c = channel THEN next ELSE starttime[c]
                          /\ sequence'[c] = IF c = channel THEN NextSequence(sequence[c]) ELSE sequence[c]
  BY <1>2, <1>5 DEF IInv, TypeOK, PackRecord
<1> HIDE DEF next
<1>9. \A c \in Channels : CoveredUpTo(c)' = IF c = channel THEN next ELSE CoveredUpTo(c)
  <2> SUFFICES ASSUME NEW c \in Channels
               PROVE  CoveredUpTo(c)' = IF c = channel THEN next ELSE CoveredUpTo(c)
    OBVIOUS
  <2>1. CASE c = channel
    <3>1. last'[c].start = starttime[channel] /\ last'[c].count = k /\ dropped'[c] = 0
      BY <2>1, <1>4, <1>8
    <3> QED
      BY <2>1, <3>1, <1>1, <1>3, SMT DEF next, SamplePeriod, CoveredUpTo
  <2>2. CASE c # channel
    BY <2>2, <1>8 DEF CoveredUpTo
  <2> QED
    BY <2>1, <2>2
<1>10. next = BlockStart + SamplePeriod * total'
  <2>1. BlockStart \in Int /\ segstarttime = BlockStart /\ starttime[channel] = segstarttime + SamplePeriod * total
    BY <1>1, SMT DEF IInv, Place, PackPart, PackRecord, BlockStart, SamplePeriod
  <2> QED
    BY <2>1, <1>1, <1>2, <1>3, SMT DEF next, SamplePeriod
<1>11. UNCHANGED blockVars /\ UNCHANGED segstarttime
  BY DEF PackRecord
<1>12. Place' /\ channel' \in Channels /\ process' \in {"pack", "begin", "open"}
  <2>1. CASE total' >= numsamples
    <3>1. next = nextStart
      <4>1. total' = numsamples
        BY <2>1, <1>1, <1>3, SMT
      <4> QED
        BY <4>1, <1>1, <1>10, SMT DEF BlockStart, SamplePeriod
    <3>2. \A c \in Channels : c <= channel => Covered(c, nextStart)'
      <4> SUFFICES ASSUME NEW c \in Channels, c <= channel
                   PROVE  Covered(c, nextStart)'
        OBVIOUS
      <4>1. CASE c = channel
        BY <4>1, <3>1, <1>9, <1>11 DEF Covered, blockVars
      <4>2. CASE c < channel
        <5>1. c # channel /\ Covered(c, nextStart)
          BY <4>2, <1>1, SMT DEF IInv, Place, DonePart, InBlock, PackRecord, Channels
        <5> QED
          BY <5>1, <1>8, <1>9, <1>11 DEF Covered, blockVars
      <4> QED
        BY <4>1, <4>2, <1>1, SMT DEF Channels
    <3>3. \A c \in Channels : c > channel => starttime'[c] = BlockStart /\ Covered(c, BlockStart)'
      <4> SUFFICES ASSUME NEW c \in Channels, c > channel
                   PROVE  starttime'[c] = BlockStart /\ Covered(c, BlockStart)'
        OBVIOUS
      <4>1. c # channel
        BY <1>1, SMT DEF Channels
      <4>2. starttime[c] = BlockStart /\ Covered(c, BlockStart)
        BY DEF IInv, Place, TodoPart, PackRecord
      <4> QED
        BY <4>1, <4>2, <1>8, <1>9, <1>11 DEF Covered, blockVars, BlockStart
    <3>4. ReturnToBlock
      BY <2>1 DEF PackRecord
    <3> QED
      BY <3>2, <3>3, <3>4, <1>1, <1>11, Returned
  <2>2. CASE ~(total' >= numsamples)
    <3>1. process' = "pack" /\ channel' = channel /\ BlockStart' = BlockStart
      BY <2>2, <1>11 DEF PackRecord, BlockStart, blockVars
    <3>2. BlocksPart' /\ CollectPart'
      BY <3>1, <1>1, <1>11 DEF BlocksPart, CollectPart, blockVars
    <3>3. DonePart'
      <4> SUFFICES ASSUME NEW c \in Channels, c < channel
                   PROVE  Covered(c, nextStart)'
        BY <3>1 DEF DonePart
      <4>1. c # channel /\ Covered(c, nextStart)
        BY <1>1, SMT DEF IInv, Place, DonePart, InBlock, PackRecord, Channels
      <4> QED
        BY <4>1, <1>8, <1>9, <1>11 DEF Covered, blockVars
    <3>4. TodoPart'
      <4> SUFFICES ASSUME NEW c \in Channels, c > channel
                   PROVE  starttime'[c] = BlockStart /\ Covered(c, BlockStart)'
        BY <3>1 DEF TodoPart
      <4>1. c # channel
        BY <1>1, SMT DEF Channels
      <4>2. starttime[c] = BlockStart /\ Covered(c, BlockStart)
        BY DEF IInv, Place, TodoPart, PackRecord
      <4> QED
        BY <3>1, <4>1, <4>2, <1>8, <1>9 DEF Covered
    <3>5. PackPart'
      <4>1. segstarttime' = BlockStart' /\ total' < numsamples'
        BY <2>2, <3>1, <1>1, <1>3, <1>11, SMT DEF IInv, Place, PackPart, PackRecord, blockVars
      <4>2. starttime'[channel'] = segstarttime' + SamplePeriod * total'
        BY <3>1, <4>1, <1>1, <1>8, <1>10
      <4>3. CoveredUpTo(channel)' = next /\ starttime'[channel'] = next
        BY <3>1, <1>1, <1>8, <1>9 DEF CoveredUpTo
      <4>4. header' = [start |-> starttime'[channel'], sequence |-> sequence'[channel']] /\ sequence'[channel'] >= 1
        BY <3>1, <4>3, <1>1, <1>6, <1>7, <1>8, SMT
      <4> QED
        BY <4>1, <4>2, <4>3, <4>4 DEF PackPart, Covered
    <3> QED
      BY <3>1, <3>2, <3>3, <3>4, <3>5, <1>1 DEF Place
  <2> QED
    BY <2>1, <2>2
<1>13. TypeOK'
  <2>1. Record(k) \in [start : Nat, sequence : 0 .. MaxSequence, count : Nat, datastart : Nat, dataend : Nat]
    <3>1. starttime[channel] + SamplePeriod * (numsamples - 1) \in Nat
      BY <1>1, SMT DEF SamplePeriod
    <3> QED
      BY <3>1, <1>1, <1>3, <1>4, SMT
  <2>2. last' \in [Channels -> [start : Nat, sequence : 0 .. MaxSequence, count : Nat, datastart : Nat, dataend : Nat]]
    BY <2>1, <1>2 DEF IInv, TypeOK
  <2>3. sequence' \in [Channels -> 0 .. MaxSequence]
    <3>1. NextSequence(sequence[channel]) \in 0 .. MaxSequence
      BY <1>7, SMT
    <3> QED
      BY <3>1, <1>1 DEF IInv, TypeOK, PackRecord
  <2>4. header' \in [start : Nat, sequence : 0 .. MaxSequence]
    BY <1>4, <1>6, <1>7, SMT
  <2>5. starttime' \in [Channels -> Nat] /\ dropped' \in [Channels -> Nat]
    <3>1. 0 \in Nat
      OBVIOUS
    <3> QED
      BY <3>1, <1>4, <1>5 DEF IInv, TypeOK, PackRecord
  <2> QED
    BY <2>2, <2>3, <2>4, <2>5, <1>3, <1>11, <1>12 DEF IInv, TypeOK, blockVars
<1>14. GridPart'
  BY <1>4, <1>8, <1>11 DEF IInv, GridPart, blockVars
<1>15. SequencePart'
  <2>1. ResetSequence(NextSequence(sequence[channel])) = NextSequence(sequence[channel])
    <3>1. NextSequence(sequence[channel]) \in 0 .. MaxSequence /\ NextSequence(sequence[channel]) >= 1
      BY <1>7, SMT
    <3> QED
      BY <3>1, SequenceRange
  <2>2. Record(k).sequence = sequence[channel]
    BY <1>4
  <2> QED
    BY <2>1, <2>2, <1>8 DEF IInv, SequencePart
<1> QED
  BY <1>12, <1>13, <1>14, <1>15 DEF IInv

(* All channels have come to the start time they are given. *)
LEMMA OpenNextInv ==
    ASSUME IInv, OpenNext
    PROVE  IInv'
<1> USE PackAssumption
<1>1. 1 \in Channels /\ nextStart \in Nat /\ OnGrid(nextStart) /\ blocks + 1 \in 0 .. MaxBlocks
  <2>1. 1 \in Channels
    BY SMT DEF Channels
  <2>2. blocks < MaxBlocks /\ blocks \in 0 .. MaxBlocks
    BY DEF IInv, TypeOK, Place, BlocksPart, InBlock, OpenNext
  <2> QED
    BY <2>1, <2>2, SMT DEF IInv, TypeOK, GridPart
<1>2. TypeOK'
  BY <1>1, SMT DEF IInv, TypeOK, OpenNext, history
<1>3. GridPart'
  BY <1>1 DEF GridPart, OpenNext
<1>4. Place'
  <2>1. \A c \in Channels : starttime'[c] = nextStart
    BY DEF OpenNext
  <2>2. \A c \in Channels : Covered(c, nextStart)'
    BY DEF IInv, Place, DonePart, InBlock, OpenNext, Covered, CoveredUpTo, history
  <2>3. CollectPart'
    BY <1>1, <2>1, <2>2 DEF CollectPart, Covered, OpenNext
  <2> QED
    BY <2>3 DEF Place, BlocksPart, DonePart, TodoPart, PackPart, InBlock, OpenNext
<1>5. SequencePart'
  BY DEF IInv, SequencePart, OpenNext, history
<1> QED
  BY <1>2, <1>3, <1>4, <1>5 DEF IInv

(* A key changes nothing that is packed. *)
LEMMA StopInv ==
    ASSUME IInv, Stop
    PROVE  IInv'
<1>1. TypeOK' /\ GridPart' /\ SequencePart'
  BY DEF IInv, TypeOK, GridPart, SequencePart, Stop, blockVars, history
<1>2. Place'
  BY DEF Place, BlocksPart, CollectPart, DonePart, TodoPart, PackPart, InBlock, Stop
<1> QED
  BY <1>1, <1>2 DEF IInv

(* Nor does standing still. *)
LEMMA StutterInv ==
    ASSUME IInv, UNCHANGED vars
    PROVE  IInv'
BY DEF IInv, TypeOK, GridPart, Place, BlocksPart, CollectPart, DonePart, TodoPart, PackPart,
       SequencePart, InBlock, Covered, CoveredUpTo, BlockStart,
       vars, blockVars, history

(* The inductive invariant: every channel's coverage is known from where   *)
(* process_data is in the block.                                           *)
THEOREM Invariant ==
    ASSUME Rate200
    PROVE  Spec => []IInv
<1>1. Init => IInv
  BY InitInv
<1>2. IInv /\ [Next]_vars => IInv'
  BY BlockDoneInv, BeginPackInv, BeginFailsInv, PackRecordInv, PackFailsInv, OpenNextInv,
     StopInv, StutterInv DEF Next, Stopped
<1> QED
  BY <1>1, <1>2, PTL DEF Spec

(* Records and counters keep their types, blocks do not exceed the bound.  *)
THEOREM TypeCorrect ==
    ASSUME Rate200
    PROVE  Spec => []TypeOK
<1>1. IInv => TypeOK
  BY DEF IInv
<1> QED
  BY <1>1, Invariant, PTL

(* process_data opens every block with all channels covered up to it, less *)
(* what packing failed on.                                                 *)
THEOREM InStep ==
    ASSUME Rate200
    PROVE  Spec => []ChannelsInStep
<1>1. IInv => ChannelsInStep
  BY DEF IInv, Place, CollectPart, Covered, ChannelsInStep
<1> QED
  BY <1>1, Invariant, PTL

(* Only PackRecord changes what was handed over last. *)
LEMMA LastChanges ==
    ASSUME Rate200, IInv, [Next]_vars, NEW c \in Channels, last'[c] # last[c]
    PROVE  /\ process = "pack" /\ c = channel
           /\ last'[c].start = starttime[c]
           /\ last'[c].sequence = sequence[c]
           /\ \E k \in 1 .. numsamples - total : last'[c] = Record(k)
<1>1. PackRecord
  BY DEF Next, vars, history, BlockDone, BeginPack, BeginFails, PackFails, OpenNext, Stop, Stopped
<1>2. PICK k \in 1 .. numsamples - total : last' = [last EXCEPT ![channel] = Record(k)]
  BY <1>1 DEF PackRecord
<1>3. process = "pack" /\ c = channel /\ last'[c] = Record(k)
  BY <1>1, <1>2 DEF PackRecord, IInv, TypeOK
<1> QED
  BY <1>3, RecordFacts

(* The times given to dl_write include every sample of the record, and are *)
(* its own exactly when it takes the whole block.                          *)
THEOREM TimesCover ==
    ASSUME Rate200
    PROVE  Spec => TimesCoverRecord
<1>1. ASSUME IInv, [Next]_vars
      PROVE  [\A c \in Channels : last'[c] # last[c] =>
                /\ last'[c].datastart = last'[c].start
                /\ last'[c].dataend >= LastSample(last'[c])
                /\ last'[c].dataend = LastSample(last'[c]) <=> last'[c].count = numsamples]_vars
  <2> SUFFICES ASSUME NEW c \in Channels, last'[c] # last[c]
               PROVE  /\ last'[c].datastart = last'[c].start
                      /\ last'[c].dataend >= LastSample(last'[c])
                      /\ last'[c].dataend = LastSample(last'[c]) <=> last'[c].count = numsamples
    OBVIOUS
  <2>1. process = "pack" /\ c = channel
    BY <1>1, LastChanges
  <2>2. PICK k \in 1 .. numsamples - total : last'[c] = Record(k)
    BY <1>1, LastChanges
  <2>3. Record(k) = [start |-> starttime[channel], sequence |-> sequence[channel], count |-> k,
                     datastart |-> starttime[channel],
                     dataend |-> starttime[channel] + SamplePeriod * (numsamples - 1)]
    BY <1>1, <2>1, RecordFacts
  <2>4. starttime[channel] \in Nat /\ numsamples \in Nat /\ total \in Nat
    BY <1>1, <2>1 DEF IInv, TypeOK
  <2>5. k \in Nat /\ k <= numsamples
    BY <2>4, SMT
  <2>6. PICK t \in Nat : t = starttime[channel]
    BY <2>4
  <2>7. t + 5000 * (numsamples - 1) >= t + 5000 * (k - 1)
    BY <2>4, <2>5, SMT
  <2>8. t + 5000 * (numsamples - 1) = t + 5000 * (k - 1) <=> k = numsamples
    BY <2>4, <2>5, SMT
  <2>9. /\ last'[c].datastart = t /\ last'[c].start = t /\ last'[c].count = k
        /\ last'[c].dataend = t + 5000 * (numsamples - 1)
        /\ LastSample(last'[c]) = t + 5000 * (k - 1)
    BY <2>2, <2>3, <2>6 DEF LastSample, SamplePeriod
  <2> QED
    BY <2>7, <2>8, <2>9
<1> QED
  BY <1>1, Invariant, PTL DEF Spec, TimesCoverRecord

(* A record begins where the record before it in its channel ended, or     *)
(* later by exactly what packing failed on.                                *)
THEOREM HolesOnlyByFailure ==
    ASSUME Rate200
    PROVE  Spec => HolesAreDrops
<1>1. ASSUME IInv, [Next]_vars
      PROVE  [\A c \in Channels :
                last[c] # NoRecord /\ last'[c] # last[c] => last'[c].start = CoveredUpTo(c)]_vars
  <2> SUFFICES ASSUME NEW c \in Channels, last[c] # NoRecord, last'[c] # last[c]
               PROVE  last'[c].start = CoveredUpTo(c)
    OBVIOUS
  <2>1. process = "pack" /\ c = channel /\ last'[c].start = starttime[c]
    BY <1>1, LastChanges
  <2>2. Covered(channel, starttime[channel])
    BY <1>1, <2>1 DEF IInv, Place, PackPart
  <2> QED
    BY <2>1, <2>2 DEF Covered
<1> QED
  BY <1>1, Invariant, PTL DEF Spec, HolesAreDrops

(* Sequence numbers count the records handed to dl_write.                  *)
THEOREM SequenceNumbersCount ==
    ASSUME Rate200
    PROVE  Spec => SequenceCounts
<1>1. ASSUME IInv, [Next]_vars
      PROVE  [\A c \in Channels :
                last'[c] # last[c] => last'[c].sequence = NextSequence(last[c].sequence)]_vars
  <2> SUFFICES ASSUME NEW c \in Channels, last'[c] # last[c]
               PROVE  last'[c].sequence = NextSequence(last[c].sequence)
    OBVIOUS
  <2>1. process = "pack" /\ c = channel /\ last'[c].sequence = sequence[c]
    BY <1>1, LastChanges
  <2>2. sequence[c] \in 0 .. MaxSequence /\ sequence[c] >= 1
    BY <1>1, <2>1 DEF IInv, TypeOK, Place, PackPart
  <2>3. ResetSequence(sequence[c]) = sequence[c]
    BY <2>2, SequenceRange
  <2> QED
    BY <1>1, <2>1, <2>3 DEF IInv, SequencePart
<1> QED
  BY <1>1, Invariant, PTL DEF Spec, SequenceCounts
=============================================================================
