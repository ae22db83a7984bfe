------------------------ MODULE Acquisition_proofs ------------------------
(***************************************************************************)
(* Proofs about Acquisition, for blocks of any length, any number of them, *)
(* and any losses.                                                         *)
(***************************************************************************)
EXTENDS Acquisition, SequenceTheorems, FiniteSetTheorems, TLAPS

-----------------------------------------------------------------------------
(* Blocks and their samples. *)

LEMMA BlockOfSample ==
    ASSUME NEW p \in Nat, p <= N * MaxBlocks
    PROVE  p \div N \in Nat /\ p \div N + 1 \in BlockNumbers
<1>1. p \div N \in Nat
  BY AcquisitionAssumption
<1>2. p \div N <= MaxBlocks
  BY AcquisitionAssumption
<1> QED
  BY <1>1, <1>2, AcquisitionAssumption DEF BlockNumbers

LEMMA SameBlock ==
    ASSUME NEW p \in Nat, (p + 1) % N # 0
    PROVE  (p + 1) \div N = p \div N
BY AcquisitionAssumption

LEMMA SampleCount == N * MaxBlocks \in Nat
  BY AcquisitionAssumption

LEMMA LinesAre ==
    /\ \A k \in BlockNumbers : Marker(k) \in Lines
    /\ \A n \in SampleNumbers : Sample(n) \in Lines
    /\ \A l \in Lines :
          \/ l.kind = "marker" /\ l.id \in BlockNumbers /\ l = Marker(l.id)
          \/ l.kind = "sample" /\ l.id \in SampleNumbers /\ l = Sample(l.id)
<1>1. \A k \in BlockNumbers : Marker(k) \in Lines
  BY DEF Lines
<1>2. \A n \in SampleNumbers : Sample(n) \in Lines
  BY DEF Lines
<1>3. ASSUME NEW l \in Lines
      PROVE  \/ l.kind = "marker" /\ l.id \in BlockNumbers /\ l = Marker(l.id)
             \/ l.kind = "sample" /\ l.id \in SampleNumbers /\ l = Sample(l.id)
  <2>1. CASE \E k \in BlockNumbers : l = Marker(k)
    BY <2>1 DEF Marker
  <2>2. CASE \E n \in SampleNumbers : l = Sample(n)
    BY <2>2 DEF Sample
  <2> QED
    BY <2>1, <2>2 DEF Lines
<1> QED
  BY <1>1, <1>2, <1>3

(* What PrintSample puts on the line. *)
PrintedNow ==
    IF produced' % N = 0
    THEN <<Sample(produced'), Marker(produced' \div N + 1)>>
    ELSE <<Sample(produced')>>

LEMMA PrintedLines ==
    ASSUME TypeOK, PrintSample
    PROVE  /\ produced' \in SampleNumbers
           /\ PrintedNow \in Seq(Lines)
           /\ Len(PrintedNow) \in 1 .. 2
           /\ wire' = wire \o PrintedNow
<1>1. produced' \in SampleNumbers
  BY SampleCount DEF TypeOK, PrintSample, SampleNumbers
<1>2. Sample(produced') \in Lines /\ Marker(produced' \div N + 1) \in Lines
  BY <1>1, SampleCount, LinesAre, BlockOfSample DEF SampleNumbers
<1> QED
  BY <1>1, <1>2 DEF PrintSample, PrintedNow

(* Removing one line leaves the others in their order. *)
LEMMA Removal ==
    ASSUME NEW S, NEW s \in Seq(S), NEW i \in 1 .. Len(s)
    PROVE  /\ RemoveAt(s, i) \in Seq(S)
           /\ Len(RemoveAt(s, i)) = Len(s) - 1
           /\ \A j \in 1 .. Len(s) - 1 :
                RemoveAt(s, i)[j] = IF j < i THEN s[j] ELSE s[j + 1]
<1> DEFINE a == SubSeq(s, 1, i - 1)
           b == SubSeq(s, i + 1, Len(s))
<1>1. Len(s) \in Nat
  BY LenProperties
<1>2. /\ a \in Seq(S) /\ Len(a) = i - 1
      /\ \A j \in 1 .. i - 1 : a[j] = s[j]
  BY <1>1
<1>3. /\ b \in Seq(S) /\ Len(b) = Len(s) - i
      /\ \A j \in 1 .. Len(s) - i : b[j] = s[i + j]
  BY <1>1
<1>4. RemoveAt(s, i) = a \o b
  BY DEF RemoveAt
<1> HIDE DEF a, b
<1>5. /\ a \o b \in Seq(S)
      /\ Len(a \o b) = Len(a) + Len(b)
      /\ \A j \in 1 .. Len(a) + Len(b) : (a \o b)[j] = IF j <= Len(a) THEN a[j] ELSE b[j - Len(a)]
  BY <1>2, <1>3, ConcatProperties
<1> QED
  BY <1>1, <1>2, <1>3, <1>4, <1>5

-----------------------------------------------------------------------------
LEMMA InitTypes == Init => TypeOK
<1> SUFFICES ASSUME Init PROVE TypeOK
  OBVIOUS
<1>1. /\ << >> \in Seq(Lines) /\ << >> \in Seq(BlockNumbers)
      /\ << >> \in Seq(SampleNumbers) /\ << >> \in Seq(Records)
  OBVIOUS
<1>2. /\ board \in {"boot", "wait", "sampling"}
      /\ produced \in 0 .. N * MaxBlocks
      /\ lost \subseteq Lines
  <2>1. CASE board = "boot" /\ produced = 0 /\ lost = {}
    BY <2>1, SampleCount
  <2>2. ASSUME NEW c \in Restarts, board = "sampling", produced = c,
               lost = {Marker(1)} \cup {Sample(n) : n \in 1 .. c}
        PROVE  /\ board \in {"boot", "wait", "sampling"}
               /\ produced \in 0 .. N * MaxBlocks
               /\ lost \subseteq Lines
    <3>1. c \in 1 .. N - 1
      BY AcquisitionAssumption
    <3>2. c \in 1 .. N * MaxBlocks
      BY <3>1, AcquisitionAssumption
    <3>3. Marker(1) \in Lines
      BY LinesAre, AcquisitionAssumption DEF BlockNumbers
    <3>4. \A n \in 1 .. c : n \in SampleNumbers
      BY <3>2, SampleCount DEF SampleNumbers
    <3> QED
      BY <2>2, <3>2, <3>3, <3>4, LinesAre, SampleCount
  <2> QED
    BY <2>1, <2>2 DEF Init
<1>3. /\ wire = << >> /\ tsQueue = << >> /\ dataQueue = << >> /\ block = << >> /\ packed = << >>
      /\ reader = "check" /\ line = NoLine /\ process = "start" /\ starttime = 0 /\ opened = 0
      /\ key = FALSE /\ stopReader = FALSE
  BY DEF Init
<1>4. Len(wire) <= LineCapacity /\ Len(block) <= N
  BY <1>3, AcquisitionAssumption
<1> QED
  BY <1>1, <1>2, <1>3, <1>4 DEF TypeOK

(* The first line of a queue leaves it. *)
LEMMA FirstOut ==
    ASSUME NEW S, NEW s \in Seq(S), s # << >>
    PROVE  /\ Len(s) \in Nat /\ Len(s) >= 1
           /\ Head(s) \in S /\ Head(s) = s[1]
           /\ Tail(s) \in Seq(S) /\ Len(Tail(s)) = Len(s) - 1
           /\ \A j \in 1 .. Len(s) - 1 : Tail(s)[j] = s[j + 1]
  OBVIOUS

LEMMA LastIn ==
    ASSUME NEW S, NEW s \in Seq(S), NEW e \in S
    PROVE  /\ Append(s, e) \in Seq(S) /\ Len(Append(s, e)) = Len(s) + 1
           /\ Append(s, e)[Len(s) + 1] = e
           /\ \A j \in 1 .. Len(s) : Append(s, e)[j] = s[j]
  OBVIOUS

LEMMA InRange ==
    ASSUME NEW S, NEW s \in Seq(S)
    PROVE  /\ Len(s) \in Nat
           /\ \A j \in 1 .. Len(s) : s[j] \in Range(s)
           /\ \A e \in Range(s) : e \in S /\ \E j \in 1 .. Len(s) : s[j] = e
<1>1. DOMAIN s = 1 .. Len(s) /\ Len(s) \in Nat /\ \A j \in 1 .. Len(s) : s[j] \in S
  BY LenProperties, ElementOfSeq
<1> QED
  BY <1>1 DEF Range

(* Where process_data is tells what starttime and opened hold.             *)
Placed ==
    /\ process \in {"start", "outer", "timestamp", "inner", "return"} => starttime \in {0, opened}
    /\ process = "pack" => opened # 0 /\ starttime # 0
    /\ process = "open" =>
          /\ starttime # 0
          /\ opened = 0 \/ \E i \in 1 .. Len(packed) : packed[i].start = opened

LEMMA StepTypes == TypeOK /\ Placed /\ [Next]_vars => TypeOK'
<1> SUFFICES ASSUME TypeOK, Placed, [Next]_vars PROVE TypeOK'
  OBVIOUS
<1> USE DEF boardVars, readerVars, processVars
<1>1. CASE BootBoard \/ CheckStop \/ ReadTimeout
  BY <1>1 DEF TypeOK, BootBoard, CheckStop, ReadTimeout
<1>2. CASE PrintSample
  <2>1. /\ produced' \in SampleNumbers /\ PrintedNow \in Seq(Lines)
        /\ Len(PrintedNow) \in 1 .. 2 /\ wire' = wire \o PrintedNow
    BY <1>2, PrintedLines
  <2>2. produced' \in 0 .. N * MaxBlocks
    BY <2>1, SampleCount DEF SampleNumbers
  <2>3. wire \in Seq(Lines)
    BY DEF TypeOK
  <2>4. wire' \in Seq(Lines) /\ Len(wire') = Len(wire) + Len(PrintedNow)
    BY <2>1, <2>3, ConcatProperties
  <2>5. Len(wire') <= LineCapacity
    <3>1. Len(wire) + 2 <= LineCapacity
      BY <1>2 DEF PrintSample
    <3>2. Len(wire) \in Nat
      BY <2>3, LenProperties
    <3>3. Len(PrintedNow) \in Nat /\ Len(PrintedNow) <= 2
      BY <2>1
    <3>4. Len(wire') = Len(wire) + Len(PrintedNow)
      BY <2>4
    <3> QED
      BY <3>1, <3>2, <3>3, <3>4, AcquisitionAssumption
  <2> QED
    BY <1>2, <2>2, <2>4, <2>5 DEF TypeOK, PrintSample
<1>3. CASE LoseLine
  <2>1. PICK i \in 1 .. Len(wire) : lost' = lost \cup {wire[i]} /\ wire' = RemoveAt(wire, i)
    BY <1>3 DEF LoseLine
  <2>2. wire \in Seq(Lines) /\ Len(wire) <= LineCapacity /\ Len(wire) \in Nat
    BY DEF TypeOK
  <2>3. wire[i] \in Lines
    BY <2>1, <2>2, ElementOfSeq
  <2>4. wire' \in Seq(Lines) /\ Len(wire') = Len(wire) - 1
    BY <2>1, <2>2, Removal
  <2>5. Len(wire') <= LineCapacity
    BY <2>2, <2>4, AcquisitionAssumption
  <2>6. lost' \subseteq Lines
    BY <2>1, <2>3 DEF TypeOK
  <2> QED
    BY <1>3, <2>4, <2>5, <2>6 DEF TypeOK, LoseLine
<1>4. CASE ReadLine
  <2>1. wire \in Seq(Lines) /\ wire # << >> /\ Len(wire) <= LineCapacity
    BY <1>4 DEF ReadLine, TypeOK
  <2>2. line' \in Lines /\ wire' \in Seq(Lines) /\ Len(wire') = Len(wire) - 1 /\ Len(wire) \in Nat
    BY <1>4, <2>1, FirstOut DEF ReadLine
  <2>3. Len(wire') <= LineCapacity
    BY <2>1, <2>2, AcquisitionAssumption
  <2> QED
    BY <1>4, <2>2, <2>3 DEF TypeOK, ReadLine
<1>5. CASE InsertTimestamp
  <2>1. line.id \in BlockNumbers
    BY <1>5, LinesAre DEF TypeOK, InsertTimestamp, NoLine
  <2>2. tsQueue' \in Seq(BlockNumbers)
    BY <1>5, <2>1, LastIn DEF TypeOK, InsertTimestamp
  <2> QED
    BY <1>5, <2>2 DEF TypeOK, InsertTimestamp
<1>6. CASE InsertSample
  <2>1. line.id \in SampleNumbers
    BY <1>6, LinesAre DEF TypeOK, InsertSample, NoLine
  <2>2. dataQueue' \in Seq(SampleNumbers)
    BY <1>6, <2>1, LastIn DEF TypeOK, InsertSample
  <2> QED
    BY <1>6, <2>2 DEF TypeOK, InsertSample
<1>7. CASE SendStart
  <2>1. CASE board = "wait"
    <3>1. Marker(1) \in Lines
      BY LinesAre, AcquisitionAssumption DEF BlockNumbers
    <3>2. wire' = <<Marker(1)>>
      BY <1>7, <2>1 DEF SendStart
    <3>3. wire' \in Seq(Lines) /\ Len(wire') = 1
      BY <3>1, <3>2
    <3> QED
      BY <1>7, <2>1, <3>3, AcquisitionAssumption DEF TypeOK, SendStart
  <2>2. CASE board # "wait"
    BY <1>7, <2>2 DEF TypeOK, SendStart
  <2> QED
    BY <2>1, <2>2
<1>8. CASE CheckKey \/ NoTimestamp \/ InsertFails \/ BlockComplete \/ Return \/ PressKey
  BY <1>8 DEF TypeOK, CheckKey, NoTimestamp, InsertFails, BlockComplete, Return, PressKey
<1>9. CASE GetTimestamp
  <2>1. starttime' \in BlockNumbers /\ tsQueue' \in Seq(BlockNumbers)
    BY <1>9, FirstOut DEF TypeOK, GetTimestamp
  <2> QED
    BY <1>9, <2>1 DEF TypeOK, GetTimestamp
<1>10. CASE OpenRecord
  BY <1>10 DEF TypeOK, OpenRecord
<1>11. CASE GetSample
  <2>1. /\ block' = Append(block, Head(dataQueue)) /\ Len(block) < N
        /\ dataQueue' = Tail(dataQueue)
    BY <1>11, AcquisitionAssumption DEF TypeOK, GetSample
  <2>2. Head(dataQueue) \in SampleNumbers /\ dataQueue' \in Seq(SampleNumbers)
    BY <1>11, <2>1, FirstOut DEF TypeOK, GetSample
  <2>3. block' \in Seq(SampleNumbers) /\ Len(block') = Len(block) + 1
    BY <2>1, <2>2, LastIn DEF TypeOK
  <2>4. Len(block') <= N
    BY <2>1, <2>3, AcquisitionAssumption DEF TypeOK
  <2> QED
    BY <1>11, <2>2, <2>3, <2>4 DEF TypeOK, GetSample
<1>12. CASE WaitForSample \/ Ended \/ UNCHANGED vars
  BY <1>12 DEF WaitForSample, Ended, vars, TypeOK
<1>13. CASE PackBlock
  <2>1. [start |-> opened, samples |-> block] \in Records
    BY <1>13 DEF TypeOK, Placed, PackBlock, Records
  <2>2. packed' \in Seq(Records) /\ block' \in Seq(SampleNumbers) /\ Len(block') <= N
    BY <1>13, <2>1, LastIn, AcquisitionAssumption DEF TypeOK, PackBlock
  <2> QED
    BY <1>13, <2>2 DEF TypeOK, PackBlock
<1> QED
  BY <1>1, <1>2, <1>3, <1>4, <1>5, <1>6, <1>7, <1>8, <1>9, <1>10, <1>11, <1>12, <1>13
     DEF Next, Board, Reader, Process

LEMMA StepPlaced == TypeOK /\ Placed /\ [Next]_vars => Placed'
<1> SUFFICES ASSUME TypeOK, Placed, [Next]_vars PROVE Placed'
  OBVIOUS
<1> USE DEF boardVars, readerVars, processVars
<1>1. CASE UNCHANGED processVars
  BY <1>1 DEF Placed
<1>2. CASE SendStart \/ CheckKey \/ NoTimestamp \/ OpenRecord \/ BlockComplete \/ Return
             \/ InsertFails \/ GetSample
  BY <1>2 DEF Placed, SendStart, CheckKey, NoTimestamp, OpenRecord, BlockComplete, Return,
              InsertFails, GetSample
<1>3. CASE GetTimestamp
  <2>1. starttime' \in BlockNumbers
    BY <1>3, FirstOut DEF TypeOK, GetTimestamp
  <2>2. starttime' # 0
    BY <2>1 DEF BlockNumbers
  <2> QED
    BY <1>3, <2>2 DEF Placed, GetTimestamp
<1>4. CASE PackBlock
  <2>1. [start |-> opened, samples |-> block] \in Records
    BY <1>4 DEF TypeOK, Placed, PackBlock, Records
  <2>2. packed'[Len(packed')].start = opened /\ Len(packed') \in 1 .. Len(packed')
    BY <1>4, <2>1, LastIn DEF TypeOK, PackBlock
  <2> QED
    BY <1>4, <2>2 DEF Placed, PackBlock
<1> QED
  BY <1>1, <1>2, <1>3, <1>4
     DEF Next, Board, Reader, Process, BootBoard, PrintSample, LoseLine, CheckStop, ReadTimeout,
         ReadLine, InsertTimestamp, InsertSample, WaitForSample, PressKey, Ended, vars

-----------------------------------------------------------------------------
(* Start times before samples                                              *)

BlockOf(n) == (n - 1) \div N + 1

(* The marker of block k reached the timestamp queue. *)
Stamped(k) ==
    \/ k \in Range(tsQueue) \cup {starttime, opened}
    \/ \E i \in 1 .. Len(packed) : packed[i].start >= k

Covered(k) == Marker(k) \in lost \/ Stamped(k)

(* ... or will, before the j-th line under way. *)
Ahead(k, j) == Covered(k) \/ line = Marker(k) \/ \E i \in 1 .. j - 1 : wire[i] = Marker(k)

(* The board waits until it is started; the reader holds a line only while *)
(* it dispatches it.                                                       *)
AtRest ==
    /\ board # "sampling" => produced = 0
    /\ reader \in {"check", "read"} => line = NoLine

(* Every sample on its way, and the one the board prints next, has the     *)
(* marker of its block ahead of it.                                        *)
MarkerAhead(k) ==
    /\ \A n \in Range(dataQueue) \cup Range(block) : BlockOf(n) = k => Covered(k)
    /\ line.kind = "sample" /\ BlockOf(line.id) = k => Covered(k)
    /\ \A j \in 1 .. Len(wire) :
          wire[j].kind = "sample" /\ BlockOf(wire[j].id) = k => Ahead(k, j)
    /\ board = "sampling" /\ produced \div N + 1 = k => Ahead(k, Len(wire) + 1)

MarkersAhead == \A k \in BlockNumbers : MarkerAhead(k)

LEMMA BlockOfRange ==
    ASSUME NEW n \in SampleNumbers
    PROVE  BlockOf(n) \in BlockNumbers
<1>1. n - 1 \in Nat /\ n - 1 <= N * MaxBlocks
  BY SampleCount DEF SampleNumbers
<1> QED
  BY <1>1, BlockOfSample DEF BlockOf

(* What was stamped or lost stays so. *)
LEMMA StaysStamped ==
    ASSUME TypeOK, Placed, [Next]_vars, NEW k \in BlockNumbers, Stamped(k)
    PROVE  Stamped(k)'
<1> USE DEF boardVars, readerVars, processVars
<1>0. k # 0
  BY DEF BlockNumbers
<1>1. CASE UNCHANGED <<tsQueue, starttime, opened, packed>>
  BY <1>1 DEF Stamped
<1>2. CASE InsertTimestamp
  <2>1. line.id \in BlockNumbers
    BY <1>2, LinesAre DEF TypeOK, InsertTimestamp, NoLine
  <2>2. /\ tsQueue \in Seq(BlockNumbers) /\ tsQueue' \in Seq(BlockNumbers)
        /\ \A j \in 1 .. Len(tsQueue) : j \in 1 .. Len(tsQueue') /\ tsQueue'[j] = tsQueue[j]
    BY <1>2, <2>1, LastIn DEF TypeOK, InsertTimestamp
  <2>3. Range(tsQueue) \subseteq Range(tsQueue')
    BY <2>2, InRange
  <2> QED
    BY <1>2, <2>3 DEF Stamped, InsertTimestamp
<1>3. CASE NoTimestamp
  BY <1>0, <1>3 DEF NoTimestamp, Placed, Stamped
<1>4. CASE GetTimestamp
  <2>1. Range(tsQueue) \subseteq Range(tsQueue') \cup {starttime'}
    <3>1. /\ Len(tsQueue) \in Nat /\ Len(tsQueue) >= 1
          /\ starttime' = tsQueue[1]
          /\ tsQueue' \in Seq(BlockNumbers) /\ Len(tsQueue') = Len(tsQueue) - 1
          /\ \A j \in 1 .. Len(tsQueue) - 1 : tsQueue'[j] = tsQueue[j + 1]
      BY <1>4, FirstOut DEF TypeOK, GetTimestamp
    <3>2. ASSUME NEW j \in 1 .. Len(tsQueue)
          PROVE  tsQueue[j] \in Range(tsQueue') \cup {starttime'}
      <4>1. CASE j = 1
        BY <3>1, <4>1
      <4>2. CASE j # 1
        <5>1. j - 1 \in 1 .. Len(tsQueue') /\ tsQueue'[j - 1] = tsQueue[j]
          BY <3>1, <4>2
        <5> QED
          BY <3>1, <5>1, InRange
      <4> QED
        BY <4>1, <4>2
    <3> QED
      BY <3>2, InRange DEF TypeOK
  <2> QED
    BY <1>0, <1>4, <2>1 DEF GetTimestamp, Placed, Stamped
<1>5. CASE PackBlock
  <2>1. [start |-> opened, samples |-> block] \in Records
    BY <1>5 DEF TypeOK, Placed, PackBlock, Records
  <2>2. \A i \in 1 .. Len(packed) : i \in 1 .. Len(packed') /\ packed'[i] = packed[i]
    BY <1>5, <2>1, LastIn DEF TypeOK, PackBlock
  <2> QED
    BY <1>5, <2>2 DEF Stamped, PackBlock
<1>6. CASE OpenRecord
  <2>1. k = opened => \E i \in 1 .. Len(packed) : packed[i].start >= k
    BY <1>0, <1>6 DEF OpenRecord, Placed, BlockNumbers
  <2> QED
    BY <1>6, <2>1 DEF OpenRecord, Stamped
<1> QED
  BY <1>1, <1>2, <1>3, <1>4, <1>5, <1>6
     DEF Next, Board, Reader, Process, BootBoard, PrintSample, LoseLine, CheckStop, ReadTimeout,
         ReadLine, InsertSample, InsertFails, SendStart, CheckKey, GetSample, WaitForSample,
         BlockComplete, Return, PressKey, Ended, vars

LEMMA StaysCovered ==
    ASSUME TypeOK, Placed, [Next]_vars, NEW k \in BlockNumbers, Covered(k)
    PROVE  Covered(k)'
<1>1. lost \subseteq lost'
  BY DEF Next, Board, Reader, Process, BootBoard, PrintSample, LoseLine, CheckStop, ReadTimeout,
         ReadLine, InsertTimestamp, InsertSample, InsertFails, SendStart, CheckKey, NoTimestamp,
         GetTimestamp, PackBlock, OpenRecord, GetSample, WaitForSample, BlockComplete, Return,
         PressKey, Ended, vars, boardVars, readerVars, processVars
<1> QED
  BY <1>1, StaysStamped DEF Covered

LEMMA InitInv == Init => Placed /\ AtRest /\ MarkersAhead
<1> SUFFICES ASSUME Init PROVE Placed /\ AtRest /\ MarkersAhead
  OBVIOUS
<1>1. Placed
  BY DEF Init, Placed
<1>2. AtRest
  BY DEF Init, AtRest
<1>3. MarkersAhead
  <2>1. Range(dataQueue) = {} /\ Range(block) = {} /\ Len(wire) = 0 /\ line.kind = "none"
    BY DEF Init, Range, NoLine
  <2>2. board = "sampling" => Covered(produced \div N + 1)
    <3>1. SUFFICES ASSUME board = "sampling" PROVE Covered(produced \div N + 1)
      OBVIOUS
    <3>2. PICK c \in Restarts : produced = c /\ Marker(1) \in lost
      BY <3>1 DEF Init
    <3>3. c \in Nat /\ c < N /\ N \in Nat \ {0}
      BY AcquisitionAssumption
    <3>4. c \div N = 0
      BY <3>3
    <3> QED
      BY <3>2, <3>4 DEF Covered
  <2> QED
    BY <2>1, <2>2 DEF MarkersAhead, MarkerAhead, Ahead
<1> QED
  BY <1>1, <1>2, <1>3

LEMMA StepAtRest == TypeOK /\ AtRest /\ [Next]_vars => AtRest'
BY DEF TypeOK, AtRest, Next, Board, Reader, Process, BootBoard, PrintSample, LoseLine, CheckStop,
       ReadTimeout, ReadLine, InsertTimestamp, InsertSample, InsertFails, SendStart, CheckKey,
       NoTimestamp, GetTimestamp, PackBlock, OpenRecord, GetSample, WaitForSample, BlockComplete,
       Return, PressKey, Ended, vars, boardVars, readerVars, processVars

(* Steps that put no line in front of another keep the markers ahead. *)
LEMMA SameLines ==
    ASSUME NEW k \in BlockNumbers, MarkerAhead(k), Covered(k) => Covered(k)',
           UNCHANGED <<wire, line, produced>>,
           Range(dataQueue') \cup Range(block') \subseteq Range(dataQueue) \cup Range(block),
           board' = "sampling" => board = "sampling"
    PROVE  MarkerAhead(k)'
<1>1. \A j : Ahead(k, j) => Ahead(k, j)'
  BY DEF Ahead
<1>2. /\ \A n \in Range(dataQueue') \cup Range(block') : BlockOf(n) = k => Covered(k)'
      /\ line'.kind = "sample" /\ BlockOf(line'.id) = k => Covered(k)'
  BY DEF MarkerAhead
<1>3. /\ \A j \in 1 .. Len(wire') : wire'[j].kind = "sample" /\ BlockOf(wire'[j].id) = k => Ahead(k, j)'
      /\ board' = "sampling" /\ produced' \div N + 1 = k => Ahead(k, Len(wire) + 1)'
  BY <1>1 DEF MarkerAhead
<1> QED
  BY <1>2, <1>3 DEF MarkerAhead, BlockOf

LEMMA StepMarkerAhead ==
    ASSUME TypeOK, Placed, AtRest, NEW k \in BlockNumbers, MarkerAhead(k), [Next]_vars
    PROVE  MarkerAhead(k)'
<1> USE DEF boardVars, readerVars, processVars
<1>a. Covered(k) => Covered(k)'
  BY StaysCovered
<1>b. /\ wire \in Seq(Lines) /\ Len(wire) \in Nat
      /\ dataQueue \in Seq(SampleNumbers) /\ block \in Seq(SampleNumbers)
      /\ tsQueue \in Seq(BlockNumbers)
  BY LenProperties DEF TypeOK
<1>1. CASE PrintSample
  <2>1. /\ produced' \in SampleNumbers /\ PrintedNow \in Seq(Lines)
        /\ Len(PrintedNow) \in 1 .. 2 /\ wire' = wire \o PrintedNow
    BY <1>1, PrintedLines
  <2>2. /\ Len(wire') = Len(wire) + Len(PrintedNow)
        /\ \A j \in 1 .. Len(wire) : wire'[j] = wire[j]
        /\ \A j \in 1 .. Len(PrintedNow) : wire'[Len(wire) + j] = PrintedNow[j]
    BY <1>b, <2>1, ConcatProperties
  <2>3. UNCHANGED <<line, dataQueue, block>> /\ board = "sampling" /\ produced' = produced + 1
    BY <1>1 DEF PrintSample
  <2>4. ASSUME NEW j \in 1 .. Len(wire) + 1, Ahead(k, j), NEW i \in Nat, i >= j
        PROVE  Ahead(k, i)'
    <3>1. \A m \in 1 .. j - 1 : m \in 1 .. i - 1 /\ wire'[m] = wire[m]
      BY <1>b, <2>2, <2>4
    <3> QED
      BY <1>a, <2>3, <2>4, <3>1 DEF Ahead
  <2>5. BlockOf(produced') = produced \div N + 1
    BY <2>3, SampleCount DEF BlockOf, TypeOK
  <2>6. produced \div N + 1 = k => Ahead(k, Len(wire) + 1)
    BY <2>3 DEF MarkerAhead
  <2>7. ASSUME NEW j \in 1 .. Len(wire'), wire'[j].kind = "sample", BlockOf(wire'[j].id) = k
        PROVE  Ahead(k, j)'
    <3>1. CASE j <= Len(wire)
      <4>1. j \in 1 .. Len(wire) /\ j \in 1 .. Len(wire) + 1 /\ wire'[j] = wire[j]
        BY <1>b, <2>2, <3>1
      <4>2. Ahead(k, j)
        BY <2>7, <4>1 DEF MarkerAhead
      <4> QED
        BY <2>4, <4>1, <4>2
    <3>2. CASE j = Len(wire) + 1
      <4>1. wire'[j] = Sample(produced')
        BY <2>1, <2>2, <3>2 DEF PrintedNow
      <4>2. produced \div N + 1 = k
        BY <2>5, <2>7, <4>1 DEF Sample
      <4> QED
        BY <1>b, <2>4, <2>6, <3>2, <4>2
    <3>3. CASE j = Len(wire) + 2
      <4>1. wire'[j] = Marker(produced' \div N + 1)
        BY <1>b, <2>1, <2>2, <3>3 DEF PrintedNow
      <4> QED
        BY <2>7, <4>1 DEF Marker
    <3>4. Len(PrintedNow) \in Nat /\ Len(PrintedNow) <= 2 /\ Len(wire') = Len(wire) + Len(PrintedNow)
      BY <2>1, <2>2
    <3>5. j <= Len(wire) \/ j = Len(wire) + 1 \/ j = Len(wire) + 2
      BY <1>b, <3>4
    <3> QED
      BY <3>1, <3>2, <3>3, <3>5
  <2>8. ASSUME produced' \div N + 1 = k
        PROVE  Ahead(k, Len(wire) + 1)'
    <3>1. Len(wire') + 1 \in Nat /\ Len(wire') + 1 >= Len(wire) + 1
      BY <1>b, <2>1, <2>2
    <3>2. CASE produced' % N = 0
      <4>1. PrintedNow = <<Sample(produced'), Marker(produced' \div N + 1)>>
        BY <3>2 DEF PrintedNow
      <4>2. wire'[Len(wire) + 2] = Marker(k) /\ Len(wire') = Len(wire) + 2
        BY <2>2, <2>8, <4>1
      <4> QED
        BY <1>b, <4>2 DEF Ahead
    <3>3. CASE produced' % N # 0
      <4>1. produced' \div N = produced \div N
        <5>1. produced \in Nat
          BY SampleCount DEF TypeOK
        <5> QED
          BY <2>3, <3>3, <5>1, SameBlock
      <4> QED
        BY <1>b, <2>4, <2>6, <2>8, <3>1, <4>1
    <3> QED
      BY <3>2, <3>3
  <2>9. /\ \A n \in Range(dataQueue') \cup Range(block') : BlockOf(n) = k => Covered(k)'
        /\ line'.kind = "sample" /\ BlockOf(line'.id) = k => Covered(k)'
    BY <1>a, <2>3 DEF MarkerAhead
  <2> QED
    BY <2>7, <2>8, <2>9 DEF MarkerAhead, BlockOf
<1>2. CASE LoseLine
  <2>1. PICK i \in 1 .. Len(wire) : lost' = lost \cup {wire[i]} /\ wire' = RemoveAt(wire, i)
    BY <1>2 DEF LoseLine
  <2>2. /\ Len(wire') = Len(wire) - 1
        /\ \A j \in 1 .. Len(wire) - 1 : wire'[j] = IF j < i THEN wire[j] ELSE wire[j + 1]
    BY <1>b, <2>1, Removal
  <2>3. UNCHANGED <<line, dataQueue, block, board, produced>>
    BY <1>2 DEF LoseLine
  <2>4. ASSUME NEW j \in 1 .. Len(wire), Ahead(k, IF j < i THEN j ELSE j + 1)
        PROVE  Ahead(k, j)'
    <3>1. CASE Covered(k) \/ line = Marker(k)
      BY <1>a, <2>3, <3>1 DEF Ahead
    <3>2. ASSUME NEW m \in 1 .. (IF j < i THEN j ELSE j + 1) - 1, wire[m] = Marker(k)
          PROVE  Ahead(k, j)'
      <4>1. CASE m = i
        BY <2>1, <3>2, <4>1 DEF Ahead, Covered
      <4>2. CASE m < i
        <5>1. m \in Nat /\ m >= 1 /\ i <= Len(wire) /\ i \in Nat /\ j \in Nat
          BY <1>b, <3>2, <4>2
        <5>2. m < j
          BY <3>2, <4>2, <5>1
        <5>3. m \in 1 .. Len(wire) - 1 /\ m \in 1 .. j - 1
          BY <1>b, <4>2, <5>1, <5>2
        <5>4. wire'[m] = wire[m]
          BY <2>2, <4>2, <5>3
        <5> QED
          BY <3>2, <5>3, <5>4 DEF Ahead
      <4>3. CASE m > i
        <5>1. m \in Nat /\ m <= j /\ i >= 1 /\ j <= Len(wire) /\ i \in Nat /\ j \in Nat
          BY <1>b, <3>2, <4>3
        <5>2. m - 1 \in 1 .. Len(wire) - 1 /\ ~(m - 1 < i) /\ (m - 1) + 1 = m /\ m - 1 \in 1 .. j - 1
          BY <1>b, <4>3, <5>1
        <5>3. wire'[m - 1] = wire[m]
          BY <2>2, <5>2
        <5> QED
          BY <3>2, <5>2, <5>3 DEF Ahead
      <4> QED
        BY <4>1, <4>2, <4>3
    <3> QED
      BY <2>4, <3>1, <3>2 DEF Ahead
  <2>5. ASSUME NEW j \in 1 .. Len(wire'), wire'[j].kind = "sample", BlockOf(wire'[j].id) = k
        PROVE  Ahead(k, j)'
    <3>1. CASE j < i
      <4>1. j \in 1 .. Len(wire) /\ wire'[j] = wire[j]
        BY <1>b, <2>2, <3>1
      <4>2. Ahead(k, j)
        BY <2>5, <4>1 DEF MarkerAhead
      <4> QED
        BY <2>4, <3>1, <4>1, <4>2
    <3>2. CASE j >= i
      <4>1. j \in 1 .. Len(wire) /\ j + 1 \in 1 .. Len(wire) /\ wire'[j] = wire[j + 1]
        BY <1>b, <2>2, <3>2
      <4>2. Ahead(k, j + 1)
        BY <2>5, <4>1 DEF MarkerAhead
      <4> QED
        BY <2>4, <3>2, <4>1, <4>2
    <3> QED
      BY <3>1, <3>2
  <2>6. ASSUME board' = "sampling", produced' \div N + 1 = k
        PROVE  Ahead(k, Len(wire) + 1)'
    <3>1. Ahead(k, Len(wire) + 1)
      BY <2>3, <2>6 DEF MarkerAhead
    <3>2. Len(wire) \in 1 .. Len(wire) /\ ~(Len(wire) < i)
      BY <1>b, <2>1
    <3>3. \A j \in 1 .. Len(wire) : j = Len(wire') + 1 /\ ~(j < i) /\ Ahead(k, j + 1) => Ahead(k, j)'
      BY <2>4
    <3>4. Len(wire') + 1 \in 1 .. Len(wire) /\ Len(wire) = Len(wire') + 1
      BY <1>b, <2>1, <2>2
    <3> QED
      BY <3>1, <3>2, <3>3, <3>4
  <2>7. /\ \A n \in Range(dataQueue') \cup Range(block') : BlockOf(n) = k => Covered(k)'
        /\ line'.kind = "sample" /\ BlockOf(line'.id) = k => Covered(k)'
    BY <1>a, <2>3 DEF MarkerAhead
  <2> QED
    BY <2>5, <2>6, <2>7 DEF MarkerAhead, BlockOf
<1>3. CASE ReadLine
  <2>1. /\ Len(wire) >= 1 /\ line' = wire[1] /\ Len(wire') = Len(wire) - 1
        /\ \A j \in 1 .. Len(wire) - 1 : wire'[j] = wire[j + 1]
    BY <1>3, <1>b, FirstOut DEF ReadLine
  <2>2. line.kind = "none" /\ UNCHANGED <<dataQueue, block, board, produced>>
    BY <1>3 DEF ReadLine, AtRest, NoLine
  <2>3. line # Marker(k)
    BY <2>2 DEF Marker
  <2>4. ASSUME NEW j \in 1 .. Len(wire), Ahead(k, j + 1)
        PROVE  Ahead(k, j)'
    <3>1. CASE Covered(k)
      BY <1>a, <3>1 DEF Ahead
    <3>2. ASSUME NEW m \in 1 .. j, wire[m] = Marker(k)
          PROVE  Ahead(k, j)'
      <4>1. CASE m = 1
        BY <2>1, <3>2, <4>1 DEF Ahead
      <4>2. CASE m # 1
        <5>1. m - 1 \in 1 .. j - 1 /\ wire'[m - 1] = wire[m]
          BY <1>b, <2>1, <3>2, <4>2
        <5> QED
          BY <3>2, <5>1 DEF Ahead
      <4> QED
        BY <4>1, <4>2
    <3>3. (j + 1) - 1 = j
      BY <1>b
    <3> QED
      BY <2>3, <2>4, <3>1, <3>2, <3>3 DEF Ahead
  <2>5. line'.kind = "sample" /\ BlockOf(line'.id) = k => Covered(k)'
    <3>1. SUFFICES ASSUME wire[1].kind = "sample", BlockOf(wire[1].id) = k PROVE Covered(k)'
      BY <2>1
    <3>2. 1 \in 1 .. Len(wire)
      BY <1>b, <2>1
    <3>3. Ahead(k, 1)
      BY <3>1, <3>2 DEF MarkerAhead
    <3> QED
      BY <1>a, <2>3, <3>3 DEF Ahead
  <2>6. ASSUME NEW j \in 1 .. Len(wire'), wire'[j].kind = "sample", BlockOf(wire'[j].id) = k
        PROVE  Ahead(k, j)'
    <3>1. j \in 1 .. Len(wire) /\ j + 1 \in 1 .. Len(wire) /\ wire'[j] = wire[j + 1]
      BY <1>b, <2>1
    <3>2. Ahead(k, j + 1)
      BY <2>6, <3>1 DEF MarkerAhead
    <3> QED
      BY <2>4, <3>1, <3>2
  <2>7. ASSUME board' = "sampling", produced' \div N + 1 = k
        PROVE  Ahead(k, Len(wire) + 1)'
    <3>1. Ahead(k, Len(wire) + 1)
      BY <2>2, <2>7 DEF MarkerAhead
    <3>2. Len(wire') + 1 \in 1 .. Len(wire) /\ Len(wire) = Len(wire') + 1
      BY <1>b, <2>1
    <3>3. \A j \in 1 .. Len(wire) : j = Len(wire') + 1 /\ Ahead(k, j + 1) => Ahead(k, j)'
      BY <2>4
    <3> QED
      BY <3>1, <3>2, <3>3
  <2>8. \A n \in Range(dataQueue') \cup Range(block') : BlockOf(n) = k => Covered(k)'
    BY <1>a, <2>2 DEF MarkerAhead
  <2> QED
    BY <2>5, <2>6, <2>7, <2>8 DEF MarkerAhead, BlockOf
<1>4. CASE InsertTimestamp
  <2>1. line.id \in BlockNumbers /\ line.kind = "marker"
    BY <1>4, LinesAre DEF TypeOK, InsertTimestamp, NoLine
  <2>2. tsQueue' = Append(tsQueue, line.id) /\ line' = NoLine
        /\ UNCHANGED <<wire, dataQueue, block, board, produced>>
    BY <1>4 DEF InsertTimestamp
  <2>3. line = Marker(k) => Covered(k)'
    <3>1. tsQueue' \in Seq(BlockNumbers) /\ tsQueue'[Len(tsQueue) + 1] = line.id
          /\ Len(tsQueue') = Len(tsQueue) + 1 /\ Len(tsQueue) \in Nat
      BY <1>b, <2>1, <2>2, LastIn, LenProperties
    <3>2. Len(tsQueue) + 1 \in 1 .. Len(tsQueue')
      BY <3>1
    <3>3. line.id \in Range(tsQueue')
      BY <3>1, <3>2, InRange
    <3> QED
      BY <3>3 DEF Covered, Stamped, Marker
  <2>4. \A j : Ahead(k, j) => Ahead(k, j)'
    BY <1>a, <2>2, <2>3 DEF Ahead
  <2> QED
    BY <1>a, <2>2, <2>4 DEF MarkerAhead, BlockOf, NoLine
<1>5. CASE InsertSample
  <2>1. line.id \in SampleNumbers /\ line.kind = "sample" /\ line # Marker(k)
    BY <1>5, LinesAre DEF TypeOK, InsertSample, NoLine, Marker
  <2>2. dataQueue' = Append(dataQueue, line.id) /\ line' = NoLine
        /\ UNCHANGED <<wire, block, board, produced>>
    BY <1>5 DEF InsertSample, processVars
  <2>3. Range(dataQueue') \subseteq Range(dataQueue) \cup {line.id}
    <3>1. dataQueue' \in Seq(SampleNumbers) /\ Len(dataQueue') = Len(dataQueue) + 1
          /\ dataQueue'[Len(dataQueue) + 1] = line.id /\ Len(dataQueue) \in Nat
          /\ \A j \in 1 .. Len(dataQueue) : dataQueue'[j] = dataQueue[j]
      BY <1>b, <2>1, <2>2, LastIn, LenProperties
    <3>2. ASSUME NEW j \in 1 .. Len(dataQueue')
          PROVE  dataQueue'[j] \in Range(dataQueue) \cup {line.id}
      <4>1. j = Len(dataQueue) + 1 \/ j \in 1 .. Len(dataQueue)
        BY <3>1
      <4> QED
        BY <1>b, <3>1, <4>1, InRange
    <3> QED
      BY <3>1, <3>2, InRange
  <2>4. \A n \in Range(dataQueue') \cup Range(block') : BlockOf(n) = k => Covered(k)'
    BY <1>a, <2>1, <2>2, <2>3 DEF MarkerAhead
  <2>5. \A j : Ahead(k, j) => Ahead(k, j)'
    BY <1>a, <2>1, <2>2 DEF Ahead
  <2> QED
    BY <2>2, <2>4, <2>5 DEF MarkerAhead, BlockOf, NoLine
<1>6. CASE GetSample
  <2>1. /\ dataQueue # << >> /\ dataQueue' = Tail(dataQueue) /\ block' = Append(block, Head(dataQueue))
        /\ UNCHANGED <<wire, line, produced, board>>
    BY <1>6 DEF GetSample
  <2>2. /\ Len(dataQueue) \in Nat /\ Len(dataQueue) >= 1
        /\ dataQueue[1] \in SampleNumbers /\ Head(dataQueue) = dataQueue[1]
        /\ dataQueue' \in Seq(SampleNumbers) /\ Len(dataQueue') = Len(dataQueue) - 1
        /\ \A j \in 1 .. Len(dataQueue) - 1 : dataQueue'[j] = dataQueue[j + 1]
    BY <1>b, <2>1, FirstOut
  <2>3. /\ block' \in Seq(SampleNumbers) /\ Len(block') = Len(block) + 1 /\ Len(block) \in Nat
        /\ block'[Len(block) + 1] = dataQueue[1]
        /\ \A j \in 1 .. Len(block) : block'[j] = block[j]
    BY <1>b, <2>1, <2>2, LastIn, LenProperties
  <2>4. ASSUME NEW j \in 1 .. Len(dataQueue')
        PROVE  dataQueue'[j] \in Range(dataQueue)
    <3>1. j + 1 \in 1 .. Len(dataQueue) /\ dataQueue'[j] = dataQueue[j + 1]
      BY <2>2
    <3> QED
      BY <1>b, <3>1, InRange
  <2>5. ASSUME NEW j \in 1 .. Len(block')
        PROVE  block'[j] \in Range(dataQueue) \cup Range(block)
    <3>1. j = Len(block) + 1 \/ j \in 1 .. Len(block)
      BY <2>3
    <3>2. 1 \in 1 .. Len(dataQueue)
      BY <2>2
    <3> QED
      BY <1>b, <2>3, <3>1, <3>2, InRange
  <2>6. Range(dataQueue') \cup Range(block') \subseteq Range(dataQueue) \cup Range(block)
    BY <2>2, <2>3, <2>4, <2>5, InRange
  <2> QED
    BY <1>a, <2>1, <2>6, SameLines
<1>7. CASE PackBlock
  <2>1. Range(block') = {} /\ UNCHANGED <<wire, line, produced, board, dataQueue>>
    BY <1>7 DEF PackBlock, Range
  <2> QED
    BY <1>a, <2>1, SameLines
<1>8. CASE SendStart
  <2>1. CASE board = "wait"
    <3>1. /\ produced = 0 /\ produced' = 0 /\ wire' = <<Marker(1)>>
          /\ UNCHANGED <<line, dataQueue, block>>
      BY <1>8, <2>1 DEF SendStart, AtRest
    <3>2. 0 \div N + 1 = 1
      BY AcquisitionAssumption
    <3>3. /\ \A j \in 1 .. Len(wire') : wire'[j].kind # "sample"
          /\ Len(wire') = 1 /\ wire'[1] = Marker(1)
      BY <3>1 DEF Marker
    <3>4. produced' \div N + 1 = k => Ahead(k, Len(wire) + 1)'
      BY <3>1, <3>2, <3>3 DEF Ahead
    <3> QED
      BY <1>a, <3>1, <3>3, <3>4 DEF MarkerAhead
  <2>2. CASE board # "wait"
    <3>1. UNCHANGED <<wire, line, produced, board, dataQueue, block>>
      BY <1>8, <2>2 DEF SendStart
    <3> QED
      BY <1>a, <3>1, SameLines
  <2> QED
    BY <2>1, <2>2
<1>9. CASE \/ BootBoard \/ CheckStop \/ ReadTimeout \/ InsertFails \/ CheckKey \/ NoTimestamp
           \/ GetTimestamp \/ OpenRecord \/ BlockComplete \/ Return \/ PressKey
           \/ WaitForSample \/ Ended \/ UNCHANGED vars
  <2>1. /\ UNCHANGED <<wire, line, produced, dataQueue, block>>
        /\ board' = "sampling" => board = "sampling"
    BY <1>9 DEF BootBoard, CheckStop, ReadTimeout, InsertFails, CheckKey, NoTimestamp, GetTimestamp,
                OpenRecord, BlockComplete, Return, PressKey, WaitForSample, Ended, vars
  <2> QED
    BY <1>a, <2>1, SameLines
<1> QED
  BY <1>1, <1>2, <1>3, <1>4, <1>5, <1>6, <1>7, <1>8, <1>9 DEF Next, Board, Reader, Process

-----------------------------------------------------------------------------
Inv == TypeOK /\ Placed /\ AtRest /\ MarkersAhead

LEMMA Inductive == Spec => []Inv
<1>1. Init => Inv
  BY InitTypes, InitInv DEF Inv
<1>2. Inv /\ [Next]_vars => Inv'
  <2>1. MarkersAhead /\ TypeOK /\ Placed /\ AtRest /\ [Next]_vars => MarkersAhead'
    BY StepMarkerAhead DEF MarkersAhead
  <2> QED
    BY <2>1, StepTypes, StepPlaced, StepAtRest DEF Inv
<1> QED
  BY <1>1, <1>2, PTL DEF Spec

(* Every variable keeps its type, whatever is lost on the line: the board  *)
(* never prints more lines than the line holds, and process_data never     *)
(* collects more samples than sample_block_* hold (msrecord.c:340).        *)
THEOREM TypeCorrect == Spec => []TypeOK
<1>1. Inv => TypeOK
  BY DEF Inv
<1> QED
  BY <1>1, Inductive, PTL

(* However the reader thread and process_data interleave, and whatever     *)
(* lines are lost, no sample overtakes the start time of its block:        *)
(* process_data (msrecord.c) may take start times without looking at the   *)
(* samples.                                                                *)
THEOREM StartTimesFirst == Spec => []TimestampFirst
<1>1. Inv => TimestampFirst
  <2>1. SUFFICES ASSUME Inv, NEW n \in Range(dataQueue) \cup Range(block)
                 PROVE  Covered(BlockOf(n))
    BY DEF TimestampFirst, Covered, Stamped, BlockOf
  <2>2. n \in SampleNumbers
    BY <2>1, InRange DEF Inv, TypeOK
  <2>3. BlockOf(n) \in BlockNumbers
    BY <2>2, BlockOfRange
  <2> QED
    BY <2>1, <2>3 DEF Inv, MarkersAhead, MarkerAhead
<1> QED
  BY <1>1, Inductive, PTL

-----------------------------------------------------------------------------
(* Alignment: as long as nothing was lost, the lines are one sequence that *)
(* both ends can tell by counting.                                         *)

(* The line the board prints after line l. *)
After(l) ==
    IF l.kind = "marker" THEN Sample((l.id - 1) * N + 1)
    ELSE IF l.id % N = 0 THEN Marker(l.id \div N + 1)
    ELSE Sample(l.id + 1)

(* What it prints next. *)
Upcoming == IF board = "sampling" THEN Sample(produced + 1) ELSE Marker(1)

OnWire(j) == IF j = Len(wire) + 1 THEN Upcoming ELSE wire[j]

(* Samples and start times that reached the queues so far. *)
SamplesIn == N * Len(packed) + Len(block) + Len(dataQueue)
Taken == IF process \in {"pack", "open"} THEN starttime ELSE opened
MarkersIn == Taken + Len(tsQueue)

(* The line that must come next: a block's samples are complete when its   *)
(* successor's marker comes.                                               *)
Expected == IF SamplesIn = N * MarkersIn THEN Marker(MarkersIn + 1) ELSE Sample(SamplesIn + 1)

LinesFollow ==
    /\ \A j \in 1 .. Len(wire) : OnWire(j + 1) = After(wire[j])
    /\ line = NoLine => OnWire(1) = Expected
    /\ line # NoLine => line = Expected /\ OnWire(1) = After(line)

InBlock == N * (MarkersIn - 1) <= SamplesIn /\ SamplesIn <= N * MarkersIn

QueuesCount ==
    /\ \A j \in 1 .. Len(block) : block[j] = N * Len(packed) + j
    /\ \A j \in 1 .. Len(dataQueue) : dataQueue[j] = N * Len(packed) + Len(block) + j
    /\ \A j \in 1 .. Len(tsQueue) : tsQueue[j] = Taken + j

(* What is collected belongs to the open record. *)
InStep ==
    /\ process = "start" => opened = 0
    /\ process = "pack" => opened = Len(packed) + 1 /\ starttime = opened + 1 /\ Len(block) = N
    /\ process = "open" => starttime = Len(packed) + 1 /\ Len(block) = 0
    /\ process = "inner" => opened = Len(packed) + 1
    /\ process \in {"start", "outer", "timestamp", "return"} =>
          \/ opened = 0 /\ Len(packed) = 0 /\ Len(block) = 0
          \/ opened = Len(packed) + 1 /\ Len(block) = N

Recorded ==
    \A i \in 1 .. Len(packed) :
        packed[i] = [start |-> i, samples |-> [j \in 1 .. N |-> (i - 1) * N + j]]

Aligned ==
    lost = {} =>
        /\ Recorded
        /\ process # "ended" => InStep /\ QueuesCount /\ InBlock /\ LinesFollow


LEMMA BlockEnd ==
    ASSUME NEW q \in Nat, NEW k \in Nat, N * (k - 1) < q, q <= N * k
    PROVE  (q % N = 0 <=> q = N * k) /\ (q = N * k => q \div N = k)
<1> DEFINE d == q \div N
           r == q % N
<1>1. N \in Nat \ {0}
  BY AcquisitionAssumption
<1>2. d \in Int /\ r \in Int /\ 0 <= r /\ r < N /\ q = N * d + r
  BY <1>1
<1> HIDE DEF d, r
<1>3. d <= k
  <2>1. SUFFICES ASSUME d >= k + 1 PROVE FALSE
    BY <1>2
  <2>2. N * d >= N * (k + 1)
    BY <1>1, <1>2, <2>1
  <2>3. N * (k + 1) = N * k + N
    BY <1>1
  <2> QED
    BY <1>1, <1>2, <2>2, <2>3
<1>4. d >= k - 1
  <2>1. SUFFICES ASSUME d + 1 <= k - 1 PROVE FALSE
    BY <1>2
  <2>2. N * (d + 1) <= N * (k - 1)
    BY <1>1, <1>2, <2>1
  <2>3. N * (d + 1) = N * d + N
    BY <1>1, <1>2
  <2> QED
    BY <1>1, <1>2, <2>2, <2>3
<1>5. CASE d = k
  <2>1. r = 0 /\ q = N * k
    BY <1>1, <1>2, <1>5
  <2> QED
    BY <1>5, <2>1 DEF d, r
<1>6. CASE d = k - 1
  <2>1. r # 0
    BY <1>1, <1>2, <1>6
  <2>2. N * (k - 1) = N * k - N
    BY <1>1
  <2>3. q # N * k
    BY <1>1, <1>2, <1>6, <2>2
  <2> QED
    BY <2>1, <2>3 DEF r
<1> QED
  BY <1>2, <1>3, <1>4, <1>5, <1>6

LEMMA Counts ==
    ASSUME TypeOK
    PROVE  /\ N \in Nat \ {0}
           /\ Len(wire) \in Nat /\ Len(block) \in Nat /\ Len(dataQueue) \in Nat
           /\ Len(tsQueue) \in Nat /\ Len(packed) \in Nat
           /\ starttime \in Nat /\ opened \in Nat /\ produced \in Nat
           /\ N * Len(packed) \in Nat
           /\ Taken \in Nat /\ MarkersIn \in Nat /\ SamplesIn \in Nat
<1>1. /\ N \in Nat \ {0}
      /\ Len(wire) \in Nat /\ Len(block) \in Nat /\ Len(dataQueue) \in Nat
      /\ Len(tsQueue) \in Nat /\ Len(packed) \in Nat
  BY LenProperties, AcquisitionAssumption DEF TypeOK
<1>2. starttime \in Nat /\ opened \in Nat
  BY AcquisitionAssumption DEF TypeOK, BlockNumbers
<1>3. produced \in Nat
  BY SampleCount DEF TypeOK
<1>4. N * Len(packed) \in Nat
  BY <1>1
<1>5. Taken \in Nat
  BY <1>2 DEF Taken
<1>6. MarkersIn \in Nat
  BY <1>1, <1>5 DEF MarkersIn
<1>7. SamplesIn \in Nat
  BY <1>1, <1>4 DEF SamplesIn
<1> QED
  BY <1>1, <1>2, <1>3, <1>4, <1>5, <1>6, <1>7

LEMMA LinesAreLines == NoLine \notin Lines
BY LinesAre DEF NoLine

(* Nothing is on the line before the board samples. *)
Quiet == board # "sampling" => wire = << >> /\ line = NoLine

LEMMA StepQuiet == TypeOK /\ Quiet /\ [Next]_vars => Quiet'
<1> SUFFICES ASSUME TypeOK, Quiet, [Next]_vars PROVE Quiet'
  OBVIOUS
<1>1. CASE board = "sampling"
  <2>1. board' = "sampling"
    BY <1>1 DEF Next, Board, Reader, Process, BootBoard, PrintSample, LoseLine, CheckStop, ReadTimeout,
         ReadLine, InsertTimestamp, InsertSample, InsertFails, SendStart, CheckKey, NoTimestamp,
         GetTimestamp, PackBlock, OpenRecord, GetSample, WaitForSample, BlockComplete, Return,
         PressKey, Ended, vars, boardVars, readerVars, processVars
  <2> QED
    BY <2>1 DEF Quiet
<1>2. CASE board # "sampling"
  <2>1. wire = << >> /\ line = NoLine /\ Len(wire) = 0
    BY <1>2 DEF Quiet
  <2>2. ~LoseLine
    BY <2>1 DEF LoseLine
  <2> QED
    BY <1>2, <2>1, <2>2
       DEF Quiet, NoLine, Next, Board, Reader, Process, BootBoard, PrintSample, CheckStop, ReadTimeout,
           ReadLine, InsertTimestamp, InsertSample, InsertFails, SendStart, CheckKey, NoTimestamp,
           GetTimestamp, PackBlock, OpenRecord, GetSample, WaitForSample, BlockComplete, Return,
           PressKey, Ended, vars, boardVars, readerVars, processVars
<1> QED
  BY <1>1, <1>2

LEMMA InitAligned == Init => Quiet /\ Aligned
<1> SUFFICES ASSUME Init PROVE Quiet /\ Aligned
  OBVIOUS
<1>1. /\ wire = << >> /\ tsQueue = << >> /\ dataQueue = << >> /\ block = << >> /\ packed = << >>
      /\ process = "start" /\ opened = 0 /\ line = NoLine
  BY DEF Init
<1>2. Quiet
  BY <1>1 DEF Quiet
<1>3. ASSUME lost = {} PROVE board = "boot"
  BY <1>3 DEF Init
<1>4. Recorded
  BY <1>1 DEF Recorded
<1>5. InStep /\ QueuesCount
  BY <1>1 DEF InStep, QueuesCount
<1>6. Taken = 0 /\ MarkersIn = 0 /\ SamplesIn = 0
  BY <1>1, AcquisitionAssumption DEF Taken, MarkersIn, SamplesIn
<1>7. InBlock /\ Expected = Marker(1)
  BY <1>6, AcquisitionAssumption DEF InBlock, Expected
<1>8. lost = {} => LinesFollow
  BY <1>1, <1>3, <1>7 DEF LinesFollow, OnWire, Upcoming
<1> QED
  BY <1>2, <1>4, <1>5, <1>7, <1>8 DEF Aligned

LEMMA LostGrows == [Next]_vars => lost \subseteq lost'
BY DEF Next, Board, Reader, Process, BootBoard, PrintSample, LoseLine, CheckStop, ReadTimeout,
       ReadLine, InsertTimestamp, InsertSample, InsertFails, SendStart, CheckKey, NoTimestamp,
       GetTimestamp, PackBlock, OpenRecord, GetSample, WaitForSample, BlockComplete, Return,
       PressKey, Ended, vars, boardVars, readerVars, processVars

(* Steps that move nothing between line, queues and block, or move it      *)
(* without changing the counts.                                            *)
LEMMA SameCounts ==
    ASSUME LinesFollow, InBlock, UNCHANGED <<wire, line, Upcoming>>,
           SamplesIn' = SamplesIn, MarkersIn' = MarkersIn
    PROVE  LinesFollow' /\ InBlock'
<1>1. Expected' = Expected
  BY DEF Expected
<1>2. \A j : OnWire(j)' = OnWire(j)
  BY DEF OnWire
<1> QED
  BY <1>1, <1>2 DEF LinesFollow, InBlock


Counting == InStep /\ QueuesCount /\ InBlock /\ LinesFollow

(* The board prints the line that was to come. *)
LEMMA PrintKeepsCount ==
    ASSUME TypeOK, Counting, PrintSample
    PROVE  Counting'
<1> USE DEF readerVars, processVars
<1>1. /\ UNCHANGED <<line, tsQueue, dataQueue, process, starttime, opened, block, packed>>
      /\ board = "sampling" /\ board' = "sampling" /\ produced' = produced + 1
  BY DEF PrintSample
<1>2. SamplesIn' = SamplesIn /\ MarkersIn' = MarkersIn /\ Expected' = Expected
  BY <1>1 DEF SamplesIn, MarkersIn, Taken, Expected
<1>3. /\ InStep' /\ QueuesCount' /\ InBlock'
  BY <1>1, <1>2 DEF Counting, InStep, QueuesCount, InBlock, Taken
<1>4. /\ PrintedNow \in Seq(Lines) /\ wire' = wire \o PrintedNow /\ wire \in Seq(Lines)
  BY PrintedLines DEF TypeOK
<1>5. /\ Len(wire') = Len(wire) + Len(PrintedNow)
      /\ \A j \in 1 .. Len(wire) : wire'[j] = wire[j]
      /\ \A j \in 1 .. Len(PrintedNow) : wire'[Len(wire) + j] = PrintedNow[j]
  BY <1>4, ConcatProperties
<1>6. /\ Len(PrintedNow) \in {1, 2} /\ PrintedNow[1] = Sample(produced')
      /\ Len(wire) \in Nat /\ produced \in Nat /\ N \in Nat \ {0}
  BY Counts DEF PrintedNow
<1>7. wire'[Len(wire) + 1] = Sample(produced') /\ Upcoming = Sample(produced')
  BY <1>1, <1>5, <1>6 DEF Upcoming
<1>8. \A j \in 1 .. Len(wire) + 1 : OnWire(j)' = OnWire(j) /\ wire'[j] = OnWire(j)
  <2>1. \A j \in 1 .. Len(wire) + 1 : wire'[j] = OnWire(j)
    BY <1>5, <1>6, <1>7 DEF OnWire
  <2>2. \A j \in 1 .. Len(wire) + 1 : j # Len(wire') + 1
    BY <1>5, <1>6
  <2> QED
    BY <2>1, <2>2 DEF OnWire
<1>9. Upcoming' = Sample(produced' + 1)
  BY <1>1 DEF Upcoming
<1>10. ASSUME NEW j \in 1 .. Len(wire)
       PROVE  OnWire(j + 1)' = After(wire'[j])
  <2>1. wire'[j] = wire[j] /\ j + 1 \in 1 .. Len(wire) + 1
    BY <1>5, <1>6
  <2>2. OnWire(j + 1) = After(wire[j])
    BY DEF Counting, LinesFollow
  <2> QED
    BY <1>8, <2>1, <2>2 DEF After
<1>0. PICK n \in Nat : n = Len(wire)
  BY <1>6
<1>11. CASE produced' % N = 0
  <2>1. Len(PrintedNow) = 2 /\ PrintedNow[2] = Marker(produced' \div N + 1)
    BY <1>11 DEF PrintedNow
  <2>2. Len(wire') = n + 2 /\ wire'[n + 2] = Marker(produced' \div N + 1)
    BY <1>0, <1>5, <1>6, <2>1
  <2>3. OnWire(n + 2)' = Marker(produced' \div N + 1)
    BY <1>0, <2>2 DEF OnWire
  <2>4. OnWire(n + 3)' = Sample(produced' + 1)
    BY <1>0, <1>9, <2>2 DEF OnWire
  <2>5. After(Sample(produced')) = Marker(produced' \div N + 1)
    BY <1>11 DEF After, Sample
  <2>6. After(Marker(produced' \div N + 1)) = Sample(produced' + 1)
    <3>1. (((produced' \div N) + 1) - 1) * N = produced'
      BY <1>1, <1>6, <1>11
    <3> QED
      BY <3>1 DEF After, Marker
  <2>7. \A j \in 1 .. Len(wire') : j \in 1 .. n \/ j = n + 1 \/ j = n + 2
    BY <1>0, <2>2
  <2>8. (n + 1) + 1 = n + 2 /\ (n + 2) + 1 = n + 3
    BY <1>0
  <2>9. \A j \in 1 .. Len(wire') : OnWire(j + 1)' = After(wire'[j])
    BY <1>0, <1>7, <1>10, <2>2, <2>3, <2>4, <2>5, <2>6, <2>7, <2>8
  <2>10. 1 \in 1 .. n + 1
    BY <1>0
  <2> QED
    BY <1>0, <1>1, <1>2, <1>3, <1>8, <2>9, <2>10 DEF Counting, LinesFollow, After
<1>12. CASE produced' % N # 0
  <2>1. Len(wire') = n + 1
    BY <1>0, <1>5, <1>12 DEF PrintedNow
  <2>2. OnWire(n + 2)' = Sample(produced' + 1)
    BY <1>0, <1>9, <2>1 DEF OnWire
  <2>3. After(Sample(produced')) = Sample(produced' + 1)
    BY <1>12 DEF After, Sample
  <2>4. \A j \in 1 .. Len(wire') : j \in 1 .. n \/ j = n + 1
    BY <1>0, <2>1
  <2>5. (n + 1) + 1 = n + 2
    BY <1>0
  <2>6. \A j \in 1 .. Len(wire') : OnWire(j + 1)' = After(wire'[j])
    BY <1>0, <1>7, <1>10, <2>2, <2>3, <2>4, <2>5
  <2>7. 1 \in 1 .. n + 1
    BY <1>0
  <2> QED
    BY <1>0, <1>1, <1>2, <1>3, <1>8, <2>6, <2>7 DEF Counting, LinesFollow, After
<1> QED
  BY <1>11, <1>12

LEMMA ReadKeepsCount ==
    ASSUME TypeOK, AtRest, Counting, ReadLine
    PROVE  Counting'
<1> USE DEF processVars
<1>1. /\ UNCHANGED <<board, produced, tsQueue, dataQueue, process, starttime, opened, block, packed>>
      /\ line = NoLine
  BY DEF ReadLine, AtRest
<1>2. SamplesIn' = SamplesIn /\ MarkersIn' = MarkersIn /\ Expected' = Expected /\ Upcoming' = Upcoming
  BY <1>1 DEF SamplesIn, MarkersIn, Taken, Expected, Upcoming
<1>3. /\ InStep' /\ QueuesCount' /\ InBlock'
  BY <1>1, <1>2 DEF Counting, InStep, QueuesCount, InBlock, Taken
<1>4. /\ Len(wire) \in Nat /\ Len(wire) >= 1 /\ line' = wire[1] /\ line' \in Lines
      /\ Len(wire') = Len(wire) - 1
      /\ \A j \in 1 .. Len(wire) - 1 : wire'[j] = wire[j + 1]
  BY FirstOut DEF ReadLine, TypeOK
<1>5. ASSUME NEW j \in 1 .. Len(wire)
      PROVE  OnWire(j)' = OnWire(j + 1)
  <2>1. CASE j = Len(wire)
    BY <1>2, <1>4, <2>1 DEF OnWire
  <2>2. CASE j # Len(wire)
    <3>1. j \in 1 .. Len(wire) - 1 /\ j # Len(wire') + 1 /\ j + 1 # Len(wire) + 1
      BY <1>4, <2>2
    <3> QED
      BY <1>4, <3>1 DEF OnWire
  <2> QED
    BY <2>1, <2>2
<1>6. 1 \in 1 .. Len(wire) /\ 1 + 1 = 2
  BY <1>4
<1>7. line' = Expected /\ line' # NoLine
  <2>1. OnWire(1) = wire[1]
    BY <1>4 DEF OnWire
  <2> QED
    BY <1>1, <1>4, <2>1, LinesAreLines DEF Counting, LinesFollow
<1>8. OnWire(1)' = After(line)'
  <2>1. OnWire(1 + 1) = After(wire[1])
    BY <1>6 DEF Counting, LinesFollow
  <2>2. OnWire(1)' = OnWire(1 + 1)
    BY <1>5, <1>6
  <2> QED
    BY <1>4, <2>1, <2>2 DEF After
<1>9. ASSUME NEW j \in 1 .. Len(wire')
      PROVE  OnWire(j + 1)' = After(wire'[j])
  <2>1. j + 1 \in 1 .. Len(wire) /\ wire'[j] = wire[j + 1]
    BY <1>4
  <2>2. OnWire((j + 1) + 1) = After(wire[j + 1])
    BY <2>1 DEF Counting, LinesFollow
  <2> QED
    BY <1>5, <2>1, <2>2
<1> QED
  BY <1>2, <1>3, <1>7, <1>8, <1>9 DEF Counting, LinesFollow, After

(* A line enters its queue: the next one is the one to expect now. *)
LEMMA InsertKeepsCount ==
    ASSUME TypeOK, Counting, InsertTimestamp \/ InsertSample
    PROVE  Counting'
<1> USE DEF boardVars, processVars
<1>1. /\ UNCHANGED <<board, produced, wire, process, starttime, opened, block, packed>>
      /\ line' = NoLine /\ line # NoLine /\ line.kind \in {"marker", "sample"}
  BY DEF InsertTimestamp, InsertSample, NoLine
<1>2. line = Expected /\ OnWire(1) = After(line)
  BY <1>1 DEF Counting, LinesFollow
<1>3. /\ N \in Nat \ {0} /\ SamplesIn \in Nat /\ MarkersIn \in Nat
      /\ Len(dataQueue) \in Nat /\ Len(tsQueue) \in Nat /\ Len(block) \in Nat
      /\ N * Len(packed) \in Nat /\ Taken \in Nat
  BY Counts
<1>4. InStep'
  BY <1>1 DEF Counting, InStep
<1>5. InBlock
  BY DEF Counting
<1>6. \A j : OnWire(j)' = OnWire(j)
  BY <1>1 DEF OnWire, Upcoming
<1>7. CASE InsertTimestamp
  <2>1. line.id \in BlockNumbers /\ line.kind = "marker"
    BY <1>7, LinesAre DEF TypeOK, InsertTimestamp, NoLine
  <2>2. SamplesIn = N * MarkersIn /\ line = Marker(MarkersIn + 1) /\ line.id = MarkersIn + 1
    BY <1>2, <2>1 DEF Expected, Marker, Sample
  <2>3. UNCHANGED <<dataQueue, Taken>> /\ tsQueue' = Append(tsQueue, line.id)
    BY <1>1, <1>7 DEF InsertTimestamp, Taken
  <2>4. /\ Len(tsQueue') = Len(tsQueue) + 1 /\ tsQueue'[Len(tsQueue) + 1] = line.id
        /\ \A j \in 1 .. Len(tsQueue) : tsQueue'[j] = tsQueue[j]
    BY <2>1, <2>3, LastIn DEF TypeOK
  <2>5. MarkersIn' = MarkersIn + 1 /\ SamplesIn' = SamplesIn /\ MarkersIn = Taken + Len(tsQueue)
    BY <1>1, <1>3, <2>3, <2>4 DEF MarkersIn, SamplesIn
  <2>6. N * (MarkersIn + 1) = N * MarkersIn + N /\ N * ((MarkersIn + 1) - 1) = N * MarkersIn
    BY <1>3
  <2>7. InBlock'
    BY <1>3, <2>2, <2>5, <2>6 DEF InBlock
  <2>8. Expected' = Sample(SamplesIn + 1)
    BY <1>3, <2>2, <2>5, <2>6 DEF Expected
  <2>9. After(line) = Sample(SamplesIn + 1)
    <3>1. ((MarkersIn + 1) - 1) * N = SamplesIn
      BY <1>3, <2>2
    <3> QED
      BY <2>1, <2>2, <3>1 DEF After
  <2>10. QueuesCount'
    <3>1. ASSUME NEW j \in 1 .. Len(tsQueue')
          PROVE  tsQueue'[j] = Taken' + j
      <4>1. j \in 1 .. Len(tsQueue) \/ j = Len(tsQueue) + 1
        BY <1>3, <2>4
      <4>2. CASE j \in 1 .. Len(tsQueue)
        BY <2>3, <2>4, <4>2 DEF Counting, QueuesCount
      <4>3. CASE j = Len(tsQueue) + 1
        BY <1>3, <2>2, <2>3, <2>4, <2>5, <4>3
      <4> QED
        BY <4>1, <4>2, <4>3
    <3> QED
      BY <1>1, <2>3, <3>1 DEF Counting, QueuesCount
  <2>11. LinesFollow'
    BY <1>1, <1>2, <1>6, <2>8, <2>9 DEF Counting, LinesFollow
  <2> QED
    BY <1>4, <2>7, <2>10, <2>11 DEF Counting
<1>8. CASE InsertSample
  <2>1. line.id \in SampleNumbers /\ line.kind = "sample"
    BY <1>8, LinesAre DEF TypeOK, InsertSample, NoLine
  <2>2. SamplesIn # N * MarkersIn /\ line = Sample(SamplesIn + 1) /\ line.id = SamplesIn + 1
    BY <1>2, <2>1 DEF Expected, Marker, Sample
  <2>3. UNCHANGED <<tsQueue, Taken>> /\ dataQueue' = Append(dataQueue, line.id)
    BY <1>1, <1>8 DEF InsertSample, Taken
  <2>4. /\ Len(dataQueue') = Len(dataQueue) + 1 /\ dataQueue'[Len(dataQueue) + 1] = line.id
        /\ \A j \in 1 .. Len(dataQueue) : dataQueue'[j] = dataQueue[j]
    BY <2>1, <2>3, LastIn DEF TypeOK
  <2>5. /\ MarkersIn' = MarkersIn /\ SamplesIn' = SamplesIn + 1
        /\ SamplesIn = N * Len(packed) + Len(block) + Len(dataQueue)
    BY <1>1, <1>3, <2>3, <2>4 DEF MarkersIn, SamplesIn
  <2>6. N * MarkersIn \in Nat /\ N * (MarkersIn - 1) = N * MarkersIn - N
    BY <1>3
  <2>7. N * (MarkersIn - 1) < SamplesIn + 1 /\ SamplesIn + 1 <= N * MarkersIn
    BY <1>3, <1>5, <2>2, <2>6 DEF InBlock
  <2>8. InBlock'
    BY <1>3, <2>5, <2>6, <2>7 DEF InBlock
  <2>9. /\ (SamplesIn + 1) % N = 0 <=> SamplesIn + 1 = N * MarkersIn
        /\ SamplesIn + 1 = N * MarkersIn => (SamplesIn + 1) \div N = MarkersIn
    <3>1. SamplesIn + 1 \in Nat
      BY <1>3
    <3> QED
      BY <1>3, <2>7, <3>1, BlockEnd
  <2>10. Expected' = After(line)
    BY <2>1, <2>2, <2>5, <2>9 DEF Expected, After
  <2>11. QueuesCount'
    <3>1. ASSUME NEW j \in 1 .. Len(dataQueue')
          PROVE  dataQueue'[j] = N * Len(packed) + Len(block) + j
      <4>1. j \in 1 .. Len(dataQueue) \/ j = Len(dataQueue) + 1
        BY <1>3, <2>4
      <4>2. CASE j \in 1 .. Len(dataQueue)
        BY <2>4, <4>2 DEF Counting, QueuesCount
      <4>3. CASE j = Len(dataQueue) + 1
        BY <1>3, <2>2, <2>4, <2>5, <4>3
      <4> QED
        BY <4>1, <4>2, <4>3
    <3> QED
      BY <1>1, <2>3, <3>1 DEF Counting, QueuesCount
  <2>12. LinesFollow'
    BY <1>1, <1>2, <1>6, <2>10 DEF Counting, LinesFollow
  <2> QED
    BY <1>4, <2>8, <2>11, <2>12 DEF Counting
<1> QED
  BY <1>7, <1>8

LEMMA StartKeepsCount ==
    ASSUME TypeOK, AtRest, Quiet, Counting, SendStart
    PROVE  Counting'
<1> USE DEF readerVars
<1>1. /\ UNCHANGED <<produced, line, tsQueue, dataQueue, starttime, opened, block, packed>>
      /\ process = "start" /\ process' = "outer"
  BY DEF SendStart
<1>2. Taken' = Taken
  BY <1>1 DEF Taken
<1>3. SamplesIn' = SamplesIn /\ MarkersIn' = MarkersIn /\ Expected' = Expected
  BY <1>1, <1>2 DEF SamplesIn, MarkersIn, Expected
<1>4. InStep' /\ QueuesCount' /\ InBlock'
  BY <1>1, <1>2, <1>3 DEF Counting, InStep, QueuesCount, InBlock
<1>5. CASE board = "wait"
  <2>1. /\ board' = "sampling" /\ wire' = <<Marker(1)>> /\ Len(wire') = 1 /\ wire'[1] = Marker(1)
        /\ wire = << >> /\ Len(wire) = 0 /\ line = NoLine /\ produced = 0
    BY <1>5 DEF SendStart, Quiet, AtRest
  <2>2. Expected = Marker(1)
    BY <1>5, <2>1 DEF Counting, LinesFollow, OnWire, Upcoming
  <2>3. OnWire(1)' = Marker(1)
    BY <2>1 DEF OnWire
  <2>4. OnWire(2)' = Sample(1)
    BY <1>1, <2>1 DEF OnWire, Upcoming
  <2>5. After(Marker(1)) = Sample(1)
    <3>1. (1 - 1) * N + 1 = 1
      BY AcquisitionAssumption
    <3> QED
      BY <3>1 DEF After, Marker
  <2>6. \A j \in 1 .. Len(wire') : j = 1 /\ j + 1 = 2
    BY <2>1
  <2>7. LinesFollow'
    BY <1>1, <1>3, <2>1, <2>2, <2>3, <2>4, <2>5, <2>6 DEF LinesFollow, After
  <2> QED
    BY <1>4, <2>7 DEF Counting
<1>6. CASE board # "wait"
  <2>1. UNCHANGED <<wire, line, Upcoming>>
    BY <1>1, <1>6 DEF SendStart, Upcoming
  <2> QED
    BY <1>3, <1>4, <2>1, SameCounts DEF Counting
<1> QED
  BY <1>5, <1>6

(* process_data moves samples and start times on; the counts stay. *)
LEMMA ProcessKeepsCount ==
    ASSUME TypeOK, Counting, process' # "ended",
           \/ CheckKey \/ NoTimestamp \/ GetTimestamp \/ PackBlock
           \/ OpenRecord \/ GetSample \/ BlockComplete
    PROVE  Counting'
<1> USE DEF boardVars, readerVars
<1>1. UNCHANGED <<wire, line, board, produced>>
  BY DEF CheckKey, NoTimestamp, GetTimestamp, PackBlock, OpenRecord, GetSample, BlockComplete
<1>2. UNCHANGED <<wire, line, Upcoming>>
  BY <1>1 DEF Upcoming
<1>3. /\ N \in Nat \ {0} /\ Len(block) \in Nat /\ Len(dataQueue) \in Nat
      /\ Len(tsQueue) \in Nat /\ Len(packed) \in Nat
      /\ starttime \in Nat /\ opened \in Nat /\ N * Len(packed) \in Nat
  BY Counts
<1>4. SUFFICES InStep' /\ QueuesCount' /\ SamplesIn' = SamplesIn /\ MarkersIn' = MarkersIn
  BY <1>2, SameCounts DEF Counting
<1> USE DEF Counting
<1>5. CASE CheckKey \/ NoTimestamp \/ BlockComplete
  <2>1. /\ UNCHANGED <<tsQueue, dataQueue, opened, block, packed>>
        /\ process \notin {"pack", "open"} /\ process' \notin {"pack", "open"}
    BY <1>5 DEF CheckKey, NoTimestamp, BlockComplete
  <2>2. Taken' = Taken
    BY <2>1 DEF Taken
  <2>3. InStep'
    BY <1>5, <2>1 DEF InStep, CheckKey, NoTimestamp, BlockComplete
  <2> QED
    BY <2>1, <2>2, <2>3 DEF QueuesCount, SamplesIn, MarkersIn
<1>6. CASE GetTimestamp
  <2>1. /\ UNCHANGED <<dataQueue, opened, block, packed>>
        /\ process = "timestamp" /\ process' = (IF opened # 0 THEN "pack" ELSE "open")
        /\ tsQueue # << >> /\ starttime' = Head(tsQueue) /\ tsQueue' = Tail(tsQueue)
    BY <1>6 DEF GetTimestamp
  <2>2. /\ Len(tsQueue) >= 1 /\ starttime' = tsQueue[1] /\ Len(tsQueue') = Len(tsQueue) - 1
        /\ \A j \in 1 .. Len(tsQueue) - 1 : tsQueue'[j] = tsQueue[j + 1]
    BY <2>1, FirstOut DEF TypeOK
  <2>3. Taken = opened /\ Taken' = starttime'
    BY <2>1 DEF Taken
  <2>4. starttime' = opened + 1
    BY <1>3, <2>2, <2>3 DEF QueuesCount
  <2>5. InStep'
    BY <1>3, <2>1, <2>4 DEF InStep
  <2>6. ASSUME NEW j \in 1 .. Len(tsQueue')
        PROVE  tsQueue'[j] = Taken' + j
    <3>1. j + 1 \in 1 .. Len(tsQueue) /\ tsQueue'[j] = tsQueue[j + 1] /\ j \in Nat
      BY <1>3, <2>2
    <3>2. tsQueue[j + 1] = Taken + (j + 1)
      BY <3>1 DEF QueuesCount
    <3> QED
      BY <1>3, <2>3, <2>4, <3>1, <3>2
  <2>7. QueuesCount'
    BY <2>1, <2>6 DEF QueuesCount
  <2>8. MarkersIn' = MarkersIn
    BY <1>3, <2>2, <2>3, <2>4 DEF MarkersIn
  <2> QED
    BY <2>1, <2>5, <2>7, <2>8 DEF SamplesIn
<1>7. CASE PackBlock
  <2>1. /\ UNCHANGED <<tsQueue, dataQueue, opened, starttime>>
        /\ process = "pack" /\ process' = "open" /\ block' = << >> /\ Len(block') = 0
        /\ packed' = Append(packed, [start |-> opened, samples |-> block])
    BY <1>7 DEF PackBlock
  <2>2. Len(packed') = Len(packed) + 1
    BY <2>1
  <2>3. opened = Len(packed) + 1 /\ starttime = opened + 1 /\ Len(block) = N
    BY <2>1 DEF InStep
  <2>4. InStep'
    BY <2>1, <2>2, <2>3 DEF InStep
  <2>5. N * Len(packed') + Len(block') = N * Len(packed) + Len(block)
    <3>1. N * (Len(packed) + 1) = N * Len(packed) + N
      BY <1>3
    <3> QED
      BY <1>3, <2>1, <2>2, <2>3, <3>1
  <2>6. Taken' = Taken
    BY <2>1 DEF Taken
  <2>7. SamplesIn' = SamplesIn /\ MarkersIn' = MarkersIn
    BY <2>1, <2>5, <2>6 DEF SamplesIn, MarkersIn
  <2>8. QueuesCount'
    BY <2>1, <2>5, <2>6 DEF QueuesCount
  <2> QED
    BY <2>4, <2>7, <2>8
<1>8. CASE OpenRecord
  <2>1. /\ UNCHANGED <<tsQueue, dataQueue, block, packed>> /\ opened' = starttime
        /\ process = "open" /\ process' = "inner"
    BY <1>8 DEF OpenRecord
  <2>2. Taken' = Taken
    BY <2>1 DEF Taken
  <2>3. InStep'
    BY <2>1 DEF InStep
  <2> QED
    BY <2>1, <2>2, <2>3 DEF QueuesCount, SamplesIn, MarkersIn
<1>9. CASE GetSample
  <2>1. /\ UNCHANGED <<tsQueue, process, starttime, opened, packed>>
        /\ process = "inner" /\ dataQueue # << >>
        /\ dataQueue' = Tail(dataQueue) /\ block' = Append(block, Head(dataQueue))
    BY <1>9 DEF GetSample
  <2>2. /\ Len(dataQueue) >= 1 /\ Head(dataQueue) = dataQueue[1] /\ dataQueue[1] \in SampleNumbers
        /\ Len(dataQueue') = Len(dataQueue) - 1
        /\ \A j \in 1 .. Len(dataQueue) - 1 : dataQueue'[j] = dataQueue[j + 1]
    BY <2>1, FirstOut DEF TypeOK
  <2>3. /\ Len(block') = Len(block) + 1 /\ block'[Len(block) + 1] = dataQueue[1]
        /\ \A j \in 1 .. Len(block) : block'[j] = block[j]
    BY <2>1, <2>2, LastIn DEF TypeOK
  <2>4. Taken' = Taken /\ MarkersIn' = MarkersIn
    BY <2>1 DEF Taken, MarkersIn
  <2>5. SamplesIn' = SamplesIn
    BY <1>3, <2>1, <2>2, <2>3 DEF SamplesIn
  <2>6. InStep'
    BY <2>1 DEF InStep
  <2>7. ASSUME NEW j \in 1 .. Len(block')
        PROVE  block'[j] = N * Len(packed') + j
    <3>1. j \in 1 .. Len(block) \/ j = Len(block) + 1
      BY <1>3, <2>3
    <3>2. CASE j \in 1 .. Len(block)
      BY <2>1, <2>3, <3>2 DEF QueuesCount
    <3>3. CASE j = Len(block) + 1
      <4>1. dataQueue[1] = N * Len(packed) + Len(block) + 1
        BY <1>3, <2>2 DEF QueuesCount
      <4> QED
        BY <1>3, <2>1, <2>3, <3>3, <4>1
    <3> QED
      BY <3>1, <3>2, <3>3
  <2>8. ASSUME NEW j \in 1 .. Len(dataQueue')
        PROVE  dataQueue'[j] = N * Len(packed') + Len(block') + j
    <3>1. j + 1 \in 1 .. Len(dataQueue) /\ dataQueue'[j] = dataQueue[j + 1] /\ j \in Nat
      BY <1>3, <2>2
    <3>2. dataQueue[j + 1] = N * Len(packed) + Len(block) + (j + 1)
      BY <3>1 DEF QueuesCount
    <3> QED
      BY <1>3, <2>1, <2>3, <3>1, <3>2
  <2>9. QueuesCount'
    BY <2>1, <2>4, <2>7, <2>8 DEF QueuesCount
  <2> QED
    BY <2>4, <2>5, <2>6, <2>9
<1> QED
  BY <1>5, <1>6, <1>7, <1>8, <1>9

LEMMA RecordedKeeps ==
    ASSUME TypeOK, Placed, Recorded, process # "ended" => InStep /\ QueuesCount, [Next]_vars
    PROVE  Recorded'
<1> USE DEF boardVars, readerVars, processVars
<1>1. CASE PackBlock
  <2>1. /\ packed' = Append(packed, [start |-> opened, samples |-> block])
        /\ process = "pack"
    BY <1>1 DEF PackBlock
  <2>2. InStep /\ QueuesCount /\ opened = Len(packed) + 1 /\ Len(block) = N
    BY <2>1 DEF InStep
  <2>3. block = [j \in 1 .. N |-> ((Len(packed) + 1) - 1) * N + j]
    <3>1. block \in Seq(SampleNumbers) /\ Len(packed) \in Nat /\ N \in Nat \ {0}
      BY Counts DEF TypeOK
    <3>2. DOMAIN block = 1 .. N /\ block \in [1 .. N -> SampleNumbers]
      BY <2>2, <3>1, LenProperties
    <3>3. ((Len(packed) + 1) - 1) * N = N * Len(packed)
      BY <3>1
    <3>4. \A j \in 1 .. N : block[j] = ((Len(packed) + 1) - 1) * N + j
      BY <2>2, <3>3 DEF QueuesCount
    <3> QED
      BY <3>2, <3>4
  <2>4. [start |-> opened, samples |-> block] \in Records
    BY <2>1 DEF TypeOK, Placed, Records
  <2>5. /\ Len(packed') = Len(packed) + 1 /\ Len(packed) \in Nat
        /\ packed'[Len(packed) + 1] = [start |-> opened, samples |-> block]
        /\ \A i \in 1 .. Len(packed) : packed'[i] = packed[i]
    BY <2>1, <2>4, LastIn, LenProperties DEF TypeOK
  <2>6. ASSUME NEW i \in 1 .. Len(packed')
        PROVE  packed'[i] = [start |-> i, samples |-> [j \in 1 .. N |-> (i - 1) * N + j]]
    <3>1. i \in 1 .. Len(packed) \/ i = Len(packed) + 1
      BY <2>5
    <3>2. CASE i \in 1 .. Len(packed)
      BY <2>5, <3>2 DEF Recorded
    <3>3. CASE i = Len(packed) + 1
      BY <2>2, <2>3, <2>5, <3>3
    <3> QED
      BY <3>1, <3>2, <3>3
  <2> QED
    BY <2>6 DEF Recorded
<1>2. CASE ~PackBlock
  <2>1. packed' = packed
    BY <1>2 DEF Next, Board, Reader, Process, BootBoard, PrintSample, LoseLine, CheckStop, ReadTimeout,
       ReadLine, InsertTimestamp, InsertSample, InsertFails, SendStart, CheckKey, NoTimestamp,
       GetTimestamp, OpenRecord, GetSample, WaitForSample, BlockComplete, Return,
       PressKey, Ended, vars
  <2> QED
    BY <2>1 DEF Recorded
<1> QED
  BY <1>1, <1>2

LEMMA StepAligned ==
    TypeOK /\ Placed /\ AtRest /\ Quiet /\ Aligned /\ [Next]_vars => Aligned'
<1> SUFFICES ASSUME TypeOK, Placed, AtRest, Quiet, Aligned, [Next]_vars, lost' = {}
             PROVE  Recorded' /\ (process' # "ended" => Counting')
  BY DEF Aligned, Counting
<1>1. lost = {}
  BY LostGrows
<1>2. Recorded /\ (process # "ended" => Counting)
  BY <1>1 DEF Aligned, Counting
<1>3. Recorded'
  BY <1>2, RecordedKeeps DEF Counting
<1>4. ASSUME process' # "ended" PROVE Counting'
  <2> USE DEF boardVars, readerVars, processVars
  <2>1. process # "ended"
    BY <1>4 DEF Next, Board, Reader, Process, BootBoard, PrintSample, LoseLine, CheckStop, ReadTimeout,
       ReadLine, InsertTimestamp, InsertSample, InsertFails, SendStart, CheckKey, NoTimestamp,
       GetTimestamp, PackBlock, OpenRecord, GetSample, WaitForSample, BlockComplete, Return,
       PressKey, Ended, vars
  <2>2. Counting
    BY <1>2, <2>1
  <2>3. CASE PrintSample
    BY <2>2, <2>3, PrintKeepsCount
  <2>4. CASE ReadLine
    BY <2>2, <2>4, ReadKeepsCount
  <2>5. CASE InsertTimestamp \/ InsertSample
    BY <2>2, <2>5, InsertKeepsCount
  <2>6. CASE SendStart
    BY <2>2, <2>6, StartKeepsCount
  <2>7. CASE \/ CheckKey \/ NoTimestamp \/ GetTimestamp \/ PackBlock
             \/ OpenRecord \/ GetSample \/ BlockComplete
    BY <1>4, <2>2, <2>7, ProcessKeepsCount
  <2>8. CASE LoseLine
    BY <2>8 DEF LoseLine
  <2>9. CASE InsertFails \/ Return
    BY <1>4, <2>9 DEF InsertFails, Return
  <2>10. CASE \/ BootBoard \/ CheckStop \/ ReadTimeout \/ PressKey \/ WaitForSample \/ Ended
              \/ UNCHANGED vars
    <3>1. /\ UNCHANGED <<wire, line, produced, tsQueue, dataQueue, process, starttime, opened, block,
                         packed>>
          /\ (board = "sampling") = (board' = "sampling")
      BY <2>10 DEF BootBoard, CheckStop, ReadTimeout, PressKey, WaitForSample, Ended, vars
    <3>2. UNCHANGED <<wire, line, Upcoming>> /\ SamplesIn' = SamplesIn /\ MarkersIn' = MarkersIn
      BY <3>1 DEF Upcoming, SamplesIn, MarkersIn, Taken
    <3>3. InStep' /\ QueuesCount'
      BY <2>2, <3>1 DEF Counting, InStep, QueuesCount, Taken
    <3> QED
      BY <2>2, <3>2, <3>3, SameCounts DEF Counting
  <2> QED
    BY <2>3, <2>4, <2>5, <2>6, <2>7, <2>8, <2>9, <2>10 DEF Next, Board, Reader, Process
<1> QED
  BY <1>3, <1>4

(* With nothing lost, each record holds exactly the samples printed        *)
(* between its marker and the next one, in every interleaving of board,    *)
(* reader thread and process_data and for every block size: joining the    *)
(* two queues by counting (msrecord.c:266) is right.                       *)
THEOREM CountingIsRight == Spec => []RecordsAligned
<1>1. Init => Quiet /\ Aligned
  BY InitAligned
<1>2. Inv /\ Quiet /\ Aligned /\ [Next]_vars => Quiet' /\ Aligned'
  BY StepQuiet, StepAligned DEF Inv
<1>3. Aligned => RecordsAligned
  <2>1. SUFFICES ASSUME Recorded, NEW i \in 1 .. Len(packed)
                 PROVE  /\ packed[i].start = i
                        /\ packed[i].samples = [j \in 1 .. N |-> (i - 1) * N + j]
    BY DEF Aligned, RecordsAligned
  <2>2. packed[i] = [start |-> i, samples |-> [j \in 1 .. N |-> (i - 1) * N + j]]
    BY <2>1 DEF Recorded
  <2> QED
    BY <2>2
<1> QED
  BY <1>1, <1>2, <1>3, Inductive, PTL DEF Spec

-----------------------------------------------------------------------------
(* Nothing reaches the program before the board samples. *)
Silent ==
    board # "sampling" =>
        /\ wire = << >> /\ line = NoLine /\ tsQueue = << >>
        /\ opened = 0 /\ packed = << >>
        /\ process \in {"start", "outer", "timestamp", "return", "ended"}

LEMMA InitSilent == Init => Silent
BY DEF Init, Silent

LEMMA StepSilent == TypeOK /\ AtRest /\ Silent /\ [Next]_vars => Silent'
<1> SUFFICES ASSUME TypeOK, AtRest, Silent, [Next]_vars, board' # "sampling"
             PROVE  Silent'
  BY DEF Silent
<1> USE DEF vars, boardVars, readerVars, processVars
<1>1. board # "sampling"
  BY DEF Next, Board, Reader, Process, BootBoard, PrintSample, LoseLine, CheckStop, ReadTimeout,
         ReadLine, InsertTimestamp, InsertSample, InsertFails, SendStart, CheckKey, NoTimestamp,
         GetTimestamp, PackBlock, OpenRecord, GetSample, WaitForSample, BlockComplete, Return,
         PressKey, Ended
<1>2. /\ wire = << >> /\ Len(wire) = 0 /\ line = NoLine /\ tsQueue = << >>
      /\ opened = 0 /\ packed = << >>
      /\ process \in {"start", "outer", "timestamp", "return", "ended"}
  BY <1>1 DEF Silent
<1>3. ~PrintSample /\ ~LoseLine /\ ~ReadLine /\ ~GetTimestamp /\ ~PackBlock /\ ~OpenRecord
      /\ ~GetSample /\ ~WaitForSample /\ ~BlockComplete
  BY <1>1, <1>2 DEF PrintSample, LoseLine, ReadLine, GetTimestamp, PackBlock, OpenRecord, GetSample,
                    WaitForSample, BlockComplete
<1>4. ~InsertTimestamp /\ ~InsertSample
  BY <1>2 DEF InsertTimestamp, InsertSample, NoLine
<1> QED
  BY <1>2, <1>3, <1>4
     DEF Silent, Next, Board, Reader, Process, BootBoard, CheckStop, ReadTimeout, InsertFails,
         SendStart, CheckKey, NoTimestamp, Return, PressKey, Ended

(* The start byte was sent and the board did not take it. *)
Missed == process # "start" /\ board # "sampling"

(* A start byte that the board missed is missed for good (msrecord.c:136,  *)
(* a byte after a fixed sleep): nothing is ever recorded.                  *)
THEOREM MissedStart == Spec => LostStartIsFinal
<1>1. Missed /\ [Next]_vars => Missed'
  BY DEF Missed, Next, Board, Reader, Process, BootBoard, PrintSample, LoseLine, CheckStop, ReadTimeout,
         ReadLine, InsertTimestamp, InsertSample, InsertFails, SendStart, CheckKey, NoTimestamp,
         GetTimestamp, PackBlock, OpenRecord, GetSample, WaitForSample, BlockComplete, Return,
         PressKey, Ended, vars, boardVars, readerVars, processVars
<1>2. Silent /\ Missed => NothingRecorded
  BY DEF Silent, Missed, NothingRecorded
<1>3. Inv /\ Silent /\ [Next]_vars => Silent'
  BY StepSilent DEF Inv
<1>4. Spec => [](Inv /\ Silent)
  BY <1>3, InitSilent, Inductive, PTL DEF Spec
<1>5. Spec => [](Missed => []NothingRecorded)
  BY <1>1, <1>2, <1>4, PTL DEF Spec
<1> QED
  BY <1>5 DEF LostStartIsFinal, Missed

(* The reader dispatches nothing but a line. *)
HoldsLine == reader = "dispatch" => line # NoLine

LEMMA StepHoldsLine == TypeOK /\ HoldsLine /\ [Next]_vars => HoldsLine'
<1> SUFFICES ASSUME TypeOK, HoldsLine, [Next]_vars PROVE HoldsLine'
  OBVIOUS
<1>1. CASE ReadLine
  <2>1. line' \in Lines
    BY <1>1, FirstOut DEF TypeOK, ReadLine
  <2> QED
    BY <2>1, LinesAreLines DEF HoldsLine
<1>2. CASE ~ReadLine
  BY <1>2 DEF HoldsLine, Next, Board, Reader, Process, BootBoard, PrintSample, LoseLine, CheckStop,
              ReadTimeout, InsertTimestamp, InsertSample, InsertFails, SendStart, CheckKey, NoTimestamp,
              GetTimestamp, PackBlock, OpenRecord, GetSample, WaitForSample, BlockComplete, Return,
              PressKey, Ended, vars, boardVars, readerVars, processVars
<1> QED
  BY <1>1, <1>2

(* A board that fell silent inside the open block holds process_data for   *)
(* ever in the loop over the data queue (msrecord.c:266-328), which does   *)
(* not look at the keyboard: what KeyStops excepts is no passing moment.   *)
THEOREM SilenceIsFinal == Spec => [](Starved => []Starved)
<1>1. Starved /\ HoldsLine /\ [Next]_vars => Starved'
  <2> SUFFICES ASSUME Starved, HoldsLine, [Next]_vars PROVE Starved'
    OBVIOUS
  <2>1. /\ process = "inner" /\ Len(block) # N /\ dataQueue = << >> /\ line = NoLine
        /\ wire = << >> /\ Len(wire) = 0 /\ ~(produced < N * MaxBlocks) /\ reader # "dispatch"
    BY SampleCount, SMT DEF Starved, HoldsLine
  <2>2. ~PrintSample /\ ~LoseLine /\ ~ReadLine /\ ~GetSample /\ ~BlockComplete
        /\ ~InsertTimestamp /\ ~InsertSample /\ ~InsertFails
    BY <2>1 DEF PrintSample, LoseLine, ReadLine, GetSample, BlockComplete, InsertTimestamp,
                InsertSample, InsertFails
  <2> QED
    BY <2>1, <2>2
       DEF Starved, Next, Board, Reader, Process, BootBoard, CheckStop, ReadTimeout, SendStart, CheckKey,
           NoTimestamp, GetTimestamp, PackBlock, OpenRecord, WaitForSample, Return, PressKey, Ended,
           vars, boardVars, readerVars, processVars
<1>2. Init => HoldsLine
  BY DEF Init, HoldsLine
<1>3. Inv /\ HoldsLine /\ [Next]_vars => HoldsLine'
  BY StepHoldsLine DEF Inv
<1>4. Spec => []HoldsLine
  BY <1>2, <1>3, Inductive, PTL DEF Spec
<1> QED
  BY <1>1, <1>4, PTL DEF Spec

-----------------------------------------------------------------------------
(* Places: the n-th line of its kind that was not lost takes the n-th      *)
(* place, whatever happens to the others.                                  *)
LineOf(kind, n) == [kind |-> kind, id |-> n]
Kept(kind, n) == {m \in 1 .. n : LineOf(kind, m) \notin lost}
Rank(kind, n) == Cardinality(Kept(kind, n))

(* How many lines of a kind the board has printed. *)
PrintedLast(kind) ==
    IF kind = "sample" THEN produced
    ELSE IF board = "sampling" THEN produced \div N + 1 ELSE 0

(* The lines printed after line a of its kind are lost or on the wire, in  *)
(* order; no line up to a is on it.                                        *)
Frontier(kind, a) ==
    /\ a \in 0 .. PrintedLast(kind)
    /\ \A j \in 1 .. Len(wire) : wire[j].kind = kind =>
          /\ wire[j].id \in a + 1 .. PrintedLast(kind)
          /\ wire[j] \notin lost
    /\ \A i, j \in 1 .. Len(wire) :
          i < j /\ wire[i].kind = kind /\ wire[j].kind = kind => wire[i].id < wire[j].id
    /\ \A m \in a + 1 .. PrintedLast(kind) :
          LineOf(kind, m) \in lost \/ \E j \in 1 .. Len(wire) : wire[j] = LineOf(kind, m)
    /\ \A l \in lost : l.kind = kind => l.id <= PrintedLast(kind)

(* No line up to a is lost in this step. *)
LosesAfter(kind, a) ==
    /\ lost \subseteq lost'
    /\ \A l \in lost' : l.kind = kind => l \in lost \/ l.id > a

(* The lines past the wire that were not lost, and their places. *)
Places(kind, a) == {<<n, Rank(kind, n)>> : n \in Kept(kind, a)}

Held(kind) == IF line.kind = kind THEN 1 ELSE 0

(* Where the samples past the wire are. *)
SamplePlaces(a) ==
    /\ Rank("sample", a) = SamplesIn + Held("sample")
    /\ \A i \in 1 .. Len(packed) :
          /\ Len(packed[i].samples) = N
          /\ \A j \in 1 .. N : <<packed[i].samples[j], N * (i - 1) + j>> \in Places("sample", a)
    /\ \A j \in 1 .. Len(block) : <<block[j], N * Len(packed) + j>> \in Places("sample", a)
    /\ \A j \in 1 .. Len(dataQueue) : <<dataQueue[j], N * Len(packed) + Len(block) + j>> \in Places("sample", a)
    /\ line.kind = "sample" => <<line.id, SamplesIn + 1>> \in Places("sample", a)

(* Start times process_data has taken from the queue. *)
StartsTaken ==
    IF process = "pack" THEN Len(packed) + 2
    ELSE IF process = "open" \/ opened # 0 THEN Len(packed) + 1
    ELSE Len(packed)

(* Where the markers past the wire are; what the program held when it was  *)
(* ended no longer matters.                                                *)
MarkerPlaces(a) ==
    /\ \A i \in 1 .. Len(packed) : <<packed[i].start, i>> \in Places("marker", a)
    /\ process # "ended" =>
          /\ Rank("marker", a) = StartsTaken + Len(tsQueue) + Held("marker")
          /\ process \in {"pack", "open"} => <<starttime, StartsTaken>> \in Places("marker", a)
          /\ process # "open" /\ opened # 0 => <<opened, Len(packed) + 1>> \in Places("marker", a)
          /\ \A j \in 1 .. Len(tsQueue) : <<tsQueue[j], StartsTaken + j>> \in Places("marker", a)
          /\ line.kind = "marker" => <<line.id, StartsTaken + Len(tsQueue) + 1>> \in Places("marker", a)

(* A block is packed when it is complete. *)
BlockStage ==
    /\ process = "pack" => Len(block) = N
    /\ process = "open" => Len(block) = 0
    /\ process \in {"start", "outer", "timestamp", "return"} => Len(block) = (IF opened = 0 THEN 0 ELSE N)
    /\ process = "start" => opened = 0
    /\ process = "inner" => opened # 0
    /\ opened = 0 => packed = << >>

SamplesPlaced == \E a \in Nat : Frontier("sample", a) /\ SamplePlaces(a)
MarkersPlaced == \E a \in Nat : Frontier("marker", a) /\ MarkerPlaces(a)

-----------------------------------------------------------------------------
(* The place of a line: it grows by one with every line that is not lost.   *)
LEMMA RankZero == \A kind : Rank(kind, 0) = 0
<1> SUFFICES ASSUME NEW kind PROVE Rank(kind, 0) = 0
  OBVIOUS
<1>1. Kept(kind, 0) = {}
  BY DEF Kept
<1> QED
  BY <1>1, FS_EmptySet DEF Rank

LEMMA RankNat ==
    ASSUME NEW kind, NEW n \in Nat
    PROVE  IsFiniteSet(Kept(kind, n)) /\ Rank(kind, n) \in Nat
<1>1. IsFiniteSet(1 .. n)
  BY FS_Interval
<1>2. Kept(kind, n) \in SUBSET (1 .. n)
  BY DEF Kept
<1>3. IsFiniteSet(Kept(kind, n))
  BY <1>1, <1>2, FS_Subset
<1> QED
  BY <1>3, FS_CardinalityType DEF Rank

(* The next line that is not lost takes the next place. *)
LEMMA RankNext ==
    ASSUME NEW kind, NEW a \in Nat, NEW n \in Nat, a < n, LineOf(kind, n) \notin lost,
           \A m \in a + 1 .. n - 1 : LineOf(kind, m) \in lost
    PROVE  Rank(kind, n) = Rank(kind, a) + 1
<1>1. Kept(kind, n) = Kept(kind, a) \cup {n}
  <2>1. ASSUME NEW m \in 1 .. n, LineOf(kind, m) \notin lost
        PROVE  m \in 1 .. a \/ m = n
    BY <2>1
  <2> QED
    BY <2>1 DEF Kept
<1>2. n \notin Kept(kind, a)
  BY DEF Kept
<1> QED
  BY <1>1, <1>2, RankNat, FS_AddElement DEF Rank

(* A line that is not lost comes after every place before it. *)
LEMMA RankOrder ==
    ASSUME NEW kind, NEW m \in Nat, NEW n \in Nat, m < n, LineOf(kind, n) \notin lost
    PROVE  Rank(kind, m) < Rank(kind, n)
<1>1. Kept(kind, m) \in SUBSET Kept(kind, n)
  BY DEF Kept
<1>2. n \in Kept(kind, n) /\ n \notin Kept(kind, m)
  BY DEF Kept
<1>3. /\ Cardinality(Kept(kind, m)) <= Cardinality(Kept(kind, n))
      /\ Cardinality(Kept(kind, m)) # Cardinality(Kept(kind, n))
  BY <1>1, <1>2, RankNat, FS_Subset
<1> QED
  BY <1>3, RankNat DEF Rank

(* Losing a later line does not change a place. *)
LEMMA RankStays ==
    ASSUME NEW kind, NEW n \in Nat,
           \A m \in 1 .. n : LineOf(kind, m) \in lost' <=> LineOf(kind, m) \in lost
    PROVE  Rank(kind, n)' = Rank(kind, n)
BY DEF Rank, Kept, LineOf

(* A line's number is its place and the lines lost before it. *)
LEMMA RankAndLosses ==
    ASSUME NEW kind, NEW n \in Nat
    PROVE  Rank(kind, n) + Cardinality({m \in 1 .. n : LineOf(kind, m) \in lost}) = n
<1> DEFINE gone == {m \in 1 .. n : LineOf(kind, m) \in lost}
<1>1. IsFiniteSet(1 .. n) /\ Cardinality(1 .. n) = n
  BY FS_Interval
<1>2. gone = (1 .. n) \ Kept(kind, n) /\ (1 .. n) \cap Kept(kind, n) = Kept(kind, n)
  BY DEF Kept
<1>3. Cardinality(gone) = n - Rank(kind, n)
  BY <1>1, <1>2, FS_Difference DEF Rank
<1> QED
  BY <1>3, RankNat

-----------------------------------------------------------------------------
(* How the frontier between the lines past the wire and those under way     *)
(* moves: a line is printed, lost, or read.                                 *)
LEMMA NextBlock ==
    ASSUME NEW p \in Nat, (p + 1) % N = 0
    PROVE  (p + 1) \div N = p \div N + 1
<1> DEFINE d == p \div N
           r == p % N
           e == (p + 1) \div N
<1>1. N \in Nat \ {0}
  BY AcquisitionAssumption
<1>2. d \in Int /\ r \in Int /\ 0 <= r /\ r < N /\ p = N * d + r
  BY <1>1
<1>3. e \in Int /\ p + 1 = N * e
  BY <1>1
<1> HIDE DEF d, r, e
<1>4. N * e = N * d + r + 1
  BY <1>1, <1>2, <1>3
<1>5. N * d < N * e /\ N * e <= N * (d + 1)
  BY <1>1, <1>2, <1>3, <1>4
<1>6. d < e
  BY <1>1, <1>2, <1>3, <1>5
<1>7. e <= d + 1
  BY <1>1, <1>2, <1>3, <1>5
<1>8. e = d + 1
  BY <1>2, <1>3, <1>6, <1>7
<1> QED
  BY <1>8 DEF d, e

LEMMA LastType ==
    ASSUME TypeOK, NEW kind
    PROVE  PrintedLast(kind) \in Nat
<1>1. produced \in Nat
  BY SampleCount DEF TypeOK
<1>2. produced \div N \in Nat
  BY <1>1, AcquisitionAssumption
<1> QED
  BY <1>1, <1>2 DEF PrintedLast

(* What the board prints is the next line of its kind. *)
LEMMA PrintedNext ==
    ASSUME TypeOK, PrintSample, NEW kind \in {"sample", "marker"}
    PROVE  /\ \/ /\ PrintedLast(kind)' = PrintedLast(kind) + 1
                 /\ \E j \in 1 .. Len(PrintedNow) : PrintedNow[j] = LineOf(kind, PrintedLast(kind) + 1)
              \/ /\ PrintedLast(kind)' = PrintedLast(kind)
                 /\ \A j \in 1 .. Len(PrintedNow) : PrintedNow[j].kind # kind
           /\ \A j \in 1 .. Len(PrintedNow) :
                 PrintedNow[j].kind = kind => PrintedNow[j] = LineOf(kind, PrintedLast(kind) + 1)
           /\ \A i, j \in 1 .. Len(PrintedNow) : PrintedNow[i].kind = PrintedNow[j].kind => i = j
<1>1. produced \in Nat /\ produced' = produced + 1 /\ board = "sampling" /\ board' = "sampling"
  BY SampleCount DEF TypeOK, PrintSample
<1>2. CASE (produced + 1) % N = 0
  <2>1. (produced + 1) \div N = produced \div N + 1
    BY <1>1, <1>2, NextBlock
  <2>2. PrintedNow = <<LineOf("sample", produced + 1), LineOf("marker", (produced + 1) \div N + 1)>>
    BY <1>1, <1>2 DEF PrintedNow, Sample, Marker, LineOf
  <2>3. /\ Len(PrintedNow) = 2
        /\ PrintedNow[1] = LineOf("sample", produced + 1)
        /\ PrintedNow[2] = LineOf("marker", produced \div N + 1 + 1)
    BY <2>1, <2>2
  <2>4. /\ kind = "sample" => PrintedLast(kind) = produced /\ PrintedLast(kind)' = produced + 1
        /\ kind = "marker" => /\ PrintedLast(kind) = produced \div N + 1
                              /\ PrintedLast(kind)' = produced \div N + 1 + 1
    BY <1>1, <2>1 DEF PrintedLast
  <2> QED
    BY <2>3, <2>4 DEF LineOf
<1>3. CASE (produced + 1) % N # 0
  <2>1. (produced + 1) \div N = produced \div N
    BY <1>1, <1>3, SameBlock
  <2>2. PrintedNow = <<LineOf("sample", produced + 1)>>
    BY <1>1, <1>3 DEF PrintedNow, Sample, LineOf
  <2>3. /\ Len(PrintedNow) = 1
        /\ PrintedNow[1] = LineOf("sample", produced + 1)
    BY <2>2
  <2>4. /\ kind = "sample" => PrintedLast(kind) = produced /\ PrintedLast(kind)' = produced + 1
        /\ kind = "marker" => PrintedLast(kind)' = PrintedLast(kind)
    BY <1>1, <2>1 DEF PrintedLast
  <2> QED
    BY <2>3, <2>4 DEF LineOf
<1> QED
  BY <1>2, <1>3

LEMMA PrintKeepsFrontier ==
    ASSUME TypeOK, PrintSample, NEW kind \in {"sample", "marker"}, NEW a, Frontier(kind, a)
    PROVE  Frontier(kind, a)'
<1> DEFINE last == PrintedLast(kind)
           new == PrintedNow
<1>1. /\ wire \in Seq(Lines) /\ Len(wire) \in Nat /\ lost' = lost
      /\ new \in Seq(Lines) /\ Len(new) \in 1 .. 2 /\ wire' = wire \o new
      /\ last \in Nat
  BY PrintedLines, LenProperties, LastType DEF TypeOK, PrintSample
<1>2. /\ last' \in {last, last + 1}
      /\ last' = last + 1 => \E j \in 1 .. Len(new) : new[j] = LineOf(kind, last + 1)
      /\ \A j \in 1 .. Len(new) : new[j].kind = kind => last' = last + 1 /\ new[j] = LineOf(kind, last + 1)
      /\ \A i, j \in 1 .. Len(new) : new[i].kind = kind /\ new[j].kind = kind => i = j
  <2>1. \/ last' = last + 1 /\ \E j \in 1 .. Len(new) : new[j] = LineOf(kind, last + 1)
        \/ last' = last /\ \A j \in 1 .. Len(new) : new[j].kind # kind
    BY PrintedNext
  <2>2. /\ \A j \in 1 .. Len(new) : new[j].kind = kind => new[j] = LineOf(kind, last + 1)
        /\ \A i, j \in 1 .. Len(new) : new[i].kind = new[j].kind => i = j
    BY PrintedNext
  <2> HIDE DEF last, new
  <2>3. last # last + 1
    BY <1>1
  <2> QED
    BY <2>1, <2>2, <2>3
<1> HIDE DEF last, new
<1>3. /\ Len(wire') = Len(wire) + Len(new) /\ Len(wire') \in Nat
      /\ \A j \in 1 .. Len(wire) : wire'[j] = wire[j]
      /\ \A j \in 1 .. Len(new) : wire'[Len(wire) + j] = new[j]
  BY <1>1, ConcatProperties
<1>4. ASSUME NEW j \in 1 .. Len(wire')
      PROVE  \/ j \in 1 .. Len(wire) /\ wire'[j] = wire[j]
             \/ /\ j > Len(wire) /\ j - Len(wire) \in 1 .. Len(new)
                /\ wire'[j] = new[j - Len(wire)]
  <2>1. CASE j <= Len(wire)
    BY <1>1, <1>3, <2>1
  <2>2. CASE j > Len(wire)
    <3>1. j - Len(wire) \in 1 .. Len(new) /\ Len(wire) + (j - Len(wire)) = j
      BY <1>1, <1>3, <2>2
    <3> QED
      BY <1>3, <2>2, <3>1
  <2> QED
    BY <1>1, <2>1, <2>2
<1>5. /\ a \in 0 .. last
      /\ \A j \in 1 .. Len(wire) : wire[j].kind = kind =>
            wire[j].id \in a + 1 .. last /\ wire[j] \notin lost
      /\ \A i, j \in 1 .. Len(wire) :
            i < j /\ wire[i].kind = kind /\ wire[j].kind = kind => wire[i].id < wire[j].id
      /\ \A m \in a + 1 .. last :
            LineOf(kind, m) \in lost \/ \E j \in 1 .. Len(wire) : wire[j] = LineOf(kind, m)
      /\ \A l \in lost : l.kind = kind => l.id <= last
  BY DEF Frontier, last
<1>6. LineOf(kind, last + 1) \notin lost
  BY <1>1, <1>5 DEF LineOf
<1>7. ASSUME NEW j \in 1 .. Len(wire'), wire'[j].kind = kind
      PROVE  wire'[j].id \in a + 1 .. last' /\ wire'[j] \notin lost
  <2>1. CASE j \in 1 .. Len(wire) /\ wire'[j] = wire[j]
    BY <1>1, <1>2, <1>5, <1>7, <2>1
  <2>2. CASE j - Len(wire) \in 1 .. Len(new) /\ wire'[j] = new[j - Len(wire)]
    <3>1. wire'[j] = LineOf(kind, last + 1) /\ last' = last + 1
      BY <1>2, <1>7, <2>2
    <3>2. wire'[j].id = last + 1
      BY <3>1 DEF LineOf
    <3> QED
      BY <1>1, <1>5, <1>6, <3>1, <3>2
  <2> QED
    BY <1>4, <2>1, <2>2
<1>8. ASSUME NEW i \in 1 .. Len(wire'), NEW j \in 1 .. Len(wire'), i < j,
             wire'[i].kind = kind, wire'[j].kind = kind
      PROVE  wire'[i].id < wire'[j].id
  <2>1. CASE j \in 1 .. Len(wire) /\ wire'[j] = wire[j]
    <3>1. i \in 1 .. Len(wire) /\ wire'[i] = wire[i]
      BY <1>1, <1>3, <1>8, <2>1
    <3> QED
      BY <1>5, <1>8, <2>1, <3>1
  <2>2. CASE j > Len(wire) /\ j - Len(wire) \in 1 .. Len(new) /\ wire'[j] = new[j - Len(wire)]
    <3>1. wire'[j].id = last + 1
      BY <1>2, <1>8, <2>2 DEF LineOf
    <3>2. ~(i > Len(wire) /\ i - Len(wire) \in 1 .. Len(new) /\ wire'[i] = new[i - Len(wire)])
      <4>1. SUFFICES ASSUME i - Len(wire) \in 1 .. Len(new), wire'[i] = new[i - Len(wire)] PROVE FALSE
        OBVIOUS
      <4>2. new[i - Len(wire)].kind = kind /\ new[j - Len(wire)].kind = kind
        BY <1>8, <2>2, <4>1
      <4>3. i - Len(wire) = j - Len(wire)
        BY <1>2, <2>2, <4>1, <4>2
      <4>4. i \in Int /\ j \in Int
        OBVIOUS
      <4> QED
        BY <1>1, <1>8, <4>3, <4>4
    <3>3. i \in 1 .. Len(wire) /\ wire'[i] = wire[i]
      BY <1>4, <3>2
    <3> QED
      BY <1>1, <1>5, <1>8, <3>1, <3>3
  <2> QED
    BY <1>4, <2>1, <2>2
<1>9. ASSUME NEW m \in a + 1 .. last'
      PROVE  LineOf(kind, m) \in lost \/ \E j \in 1 .. Len(wire') : wire'[j] = LineOf(kind, m)
  <2>1. CASE m \in a + 1 .. last
    <3>1. \A j \in 1 .. Len(wire) : j \in 1 .. Len(wire') /\ wire'[j] = wire[j]
      BY <1>1, <1>3
    <3> QED
      BY <1>5, <2>1, <3>1
  <2>2. CASE m = last + 1 /\ last' = last + 1
    <3>1. PICK j \in 1 .. Len(new) : new[j] = LineOf(kind, m)
      BY <1>2, <2>2
    <3>2. Len(wire) + j \in 1 .. Len(wire') /\ wire'[Len(wire) + j] = LineOf(kind, m)
      BY <1>1, <1>3, <3>1
    <3> QED
      BY <3>2
  <2> QED
    BY <1>1, <1>2, <1>5, <2>1, <2>2
<1>10. a \in 0 .. last' /\ \A l \in lost : l.kind = kind => l.id <= last'
  <2>1. \A l \in lost : l \in Lines /\ l.id \in Int
    BY LinesAre DEF TypeOK, BlockNumbers, SampleNumbers
  <2> QED
    BY <1>1, <1>2, <1>5, <2>1
<1> QED
  BY <1>1, <1>7, <1>8, <1>9, <1>10 DEF Frontier, last, LineOf

LEMMA LoseKeepsFrontier ==
    ASSUME TypeOK, LoseLine, NEW kind, NEW a, Frontier(kind, a)
    PROVE  /\ Frontier(kind, a)'
           /\ LosesAfter(kind, a)
<1>1. PICK i \in 1 .. Len(wire) : lost' = lost \cup {wire[i]} /\ wire' = RemoveAt(wire, i)
  BY DEF LoseLine
<1>2. /\ wire \in Seq(Lines) /\ Len(wire) \in Nat
      /\ UNCHANGED <<board, produced>> /\ PrintedLast(kind)' = PrintedLast(kind)
  BY LenProperties DEF TypeOK, LoseLine, PrintedLast
<1>3. /\ Len(wire') = Len(wire) - 1
      /\ \A j \in 1 .. Len(wire) - 1 : wire'[j] = IF j < i THEN wire[j] ELSE wire[j + 1]
  BY <1>1, <1>2, Removal
<1> DEFINE old(j) == IF j < i THEN j ELSE j + 1
<1>4. ASSUME NEW j \in 1 .. Len(wire')
      PROVE  old(j) \in 1 .. Len(wire) /\ old(j) # i /\ wire'[j] = wire[old(j)]
  BY <1>1, <1>2, <1>3
<1>5. /\ a \in 0 .. PrintedLast(kind)
      /\ \A j \in 1 .. Len(wire) : wire[j].kind = kind =>
            wire[j].id \in a + 1 .. PrintedLast(kind) /\ wire[j] \notin lost
      /\ \A m, j \in 1 .. Len(wire) :
            m < j /\ wire[m].kind = kind /\ wire[j].kind = kind => wire[m].id < wire[j].id
      /\ \A m \in a + 1 .. PrintedLast(kind) :
            LineOf(kind, m) \in lost \/ \E j \in 1 .. Len(wire) : wire[j] = LineOf(kind, m)
      /\ \A l \in lost : l.kind = kind => l.id <= PrintedLast(kind)
  BY DEF Frontier
<1>6. \A m, j \in 1 .. Len(wire') : m < j => old(m) < old(j)
  BY <1>1, <1>2, <1>3
<1>7. \A m, j \in 1 .. Len(wire) : m # j /\ wire[m].kind = kind /\ wire[j].kind = kind => wire[m] # wire[j]
  <2>1. \A m, j \in 1 .. Len(wire) : m < j /\ wire[m].kind = kind /\ wire[j].kind = kind => wire[m] # wire[j]
    <3>1. \A j \in 1 .. Len(wire) : wire[j].kind = kind => wire[j].id \in Int
      BY <1>5
    <3> QED
      BY <1>5, <3>1
  <2> QED
    BY <1>2, <2>1
<1>8. ASSUME NEW j \in 1 .. Len(wire'), wire'[j].kind = kind
      PROVE  wire'[j].id \in a + 1 .. PrintedLast(kind) /\ wire'[j] \notin lost'
  BY <1>1, <1>4, <1>5, <1>7, <1>8
<1>9. ASSUME NEW m \in 1 .. Len(wire'), NEW j \in 1 .. Len(wire'), m < j,
             wire'[m].kind = kind, wire'[j].kind = kind
      PROVE  wire'[m].id < wire'[j].id
  BY <1>4, <1>5, <1>6, <1>9
<1>10. ASSUME NEW m \in a + 1 .. PrintedLast(kind), LineOf(kind, m) \notin lost'
       PROVE  \E j \in 1 .. Len(wire') : wire'[j] = LineOf(kind, m)
  <2>1. PICK j \in 1 .. Len(wire) : wire[j] = LineOf(kind, m)
    BY <1>1, <1>5, <1>10
  <2>2. j # i
    BY <1>1, <1>10, <2>1
  <2>3. CASE j < i
    <3>1. j \in 1 .. Len(wire') /\ wire'[j] = wire[j]
      BY <1>1, <1>2, <1>3, <2>3
    <3> QED
      BY <2>1, <3>1
  <2>4. CASE j > i
    <3>1. j - 1 \in 1 .. Len(wire') /\ ~(j - 1 < i) /\ (j - 1) + 1 = j
      BY <1>1, <1>2, <1>3, <2>4
    <3>2. wire'[j - 1] = wire[j]
      BY <1>3, <3>1
    <3> QED
      BY <2>1, <3>1, <3>2
  <2> QED
    BY <1>2, <2>2, <2>3, <2>4
<1>11. \A l \in lost' : l.kind = kind => l.id <= PrintedLast(kind)
  BY <1>1, <1>5
<1>12. Frontier(kind, a)'
  BY <1>2, <1>5, <1>8, <1>9, <1>10, <1>11 DEF Frontier, LineOf
<1> QED
  BY <1>1, <1>5, <1>12 DEF LosesAfter

(* The reader takes the next line of its kind that is not lost. *)
LEMMA ReadMovesFrontier ==
    ASSUME TypeOK, ReadLine, NEW kind, NEW a, Frontier(kind, a)
    PROVE  /\ line'.kind # kind => Frontier(kind, a)'
           /\ line'.kind = kind =>
                 \E n \in Nat : /\ Frontier(kind, n)'
                               /\ a < n /\ line' = LineOf(kind, n) /\ LineOf(kind, n) \notin lost
                               /\ Rank(kind, n) = Rank(kind, a) + 1
<1>1. /\ wire \in Seq(Lines) /\ wire # << >>
      /\ UNCHANGED <<board, produced, lost>> /\ PrintedLast(kind)' = PrintedLast(kind)
  BY DEF TypeOK, ReadLine, PrintedLast
<1>2. /\ Len(wire) \in Nat /\ Len(wire) >= 1 /\ line' = wire[1] /\ Len(wire') = Len(wire) - 1
      /\ \A j \in 1 .. Len(wire) - 1 : wire'[j] = wire[j + 1]
  BY <1>1, FirstOut DEF ReadLine
<1>3. /\ a \in 0 .. PrintedLast(kind)
      /\ \A j \in 1 .. Len(wire) : wire[j].kind = kind =>
            wire[j].id \in a + 1 .. PrintedLast(kind) /\ wire[j] \notin lost
      /\ \A m, j \in 1 .. Len(wire) :
            m < j /\ wire[m].kind = kind /\ wire[j].kind = kind => wire[m].id < wire[j].id
      /\ \A m \in a + 1 .. PrintedLast(kind) :
            LineOf(kind, m) \in lost \/ \E j \in 1 .. Len(wire) : wire[j] = LineOf(kind, m)
      /\ \A l \in lost : l.kind = kind => l.id <= PrintedLast(kind)
  BY DEF Frontier
<1>4. PrintedLast(kind) \in Nat
  BY LastType
<1>5. ASSUME NEW j \in 1 .. Len(wire')
      PROVE  j + 1 \in 1 .. Len(wire) /\ wire'[j] = wire[j + 1]
  BY <1>2
<1>6. 1 \in 1 .. Len(wire)
  BY <1>2
<1>7. ASSUME NEW m \in 1 .. Len(wire'), NEW j \in 1 .. Len(wire'), m < j,
             wire'[m].kind = kind, wire'[j].kind = kind
      PROVE  wire'[m].id < wire'[j].id
  <2>1. m + 1 < j + 1
    BY <1>7
  <2> QED
    BY <1>3, <1>5, <1>7, <2>1
<1>8. ASSUME line'.kind # kind PROVE Frontier(kind, a)'
  <2>1. \A m \in a + 1 .. PrintedLast(kind) :
            LineOf(kind, m) \in lost \/ \E j \in 1 .. Len(wire') : wire'[j] = LineOf(kind, m)
    <3> SUFFICES ASSUME NEW m \in a + 1 .. PrintedLast(kind), NEW j \in 1 .. Len(wire),
                        wire[j] = LineOf(kind, m)
                 PROVE  \E n \in 1 .. Len(wire') : wire'[n] = LineOf(kind, m)
      BY <1>3
    <3>1. j # 1
      BY <1>2, <1>8 DEF LineOf
    <3>2. j - 1 \in 1 .. Len(wire') /\ wire'[j - 1] = wire[j]
      BY <1>2, <3>1
    <3> QED
      BY <3>2
  <2> QED
    BY <1>1, <1>3, <1>5, <1>7, <2>1 DEF Frontier, LineOf
<1>9. ASSUME line'.kind = kind
      PROVE  \E n \in Nat : /\ Frontier(kind, n)'
                            /\ a < n /\ line' = LineOf(kind, n) /\ LineOf(kind, n) \notin lost
                            /\ Rank(kind, n) = Rank(kind, a) + 1
  <2>1. line' \in Lines /\ line'.id \in Nat
    <3>1. line' \in Lines
      BY <1>1, <1>2, <1>6, ElementOfSeq
    <3> QED
      BY <3>1, LinesAre DEF BlockNumbers, SampleNumbers
  <2>2. PICK n \in Nat : n = line'.id
    BY <2>1
  <2>3. line' = LineOf(kind, n) /\ wire[1] = LineOf(kind, n)
    BY <1>2, <1>9, <2>1, <2>2, LinesAre DEF Marker, Sample, LineOf
  <2>4. wire[1].kind = kind /\ wire[1].id = n
    BY <2>3 DEF LineOf
  <2>5. a \in Nat /\ a < n /\ n <= PrintedLast(kind) /\ LineOf(kind, n) \notin lost
    BY <1>3, <1>4, <1>6, <2>3, <2>4
  <2>6. ASSUME NEW j \in 1 .. Len(wire'), wire'[j].kind = kind
        PROVE  wire'[j].id \in n + 1 .. PrintedLast(kind) /\ wire'[j] \notin lost
    <3>1. j + 1 \in 1 .. Len(wire) /\ wire'[j] = wire[j + 1] /\ 1 < j + 1
      BY <1>5
    <3>2. wire[j + 1].id \in a + 1 .. PrintedLast(kind) /\ wire[j + 1] \notin lost /\ n < wire[j + 1].id
      BY <1>3, <1>6, <2>4, <2>6, <3>1
    <3> QED
      BY <1>4, <2>5, <3>1, <3>2
  <2>7. ASSUME NEW m \in a + 1 .. PrintedLast(kind), m # n, LineOf(kind, m) \notin lost
        PROVE  m > n /\ \E i \in 1 .. Len(wire') : wire'[i] = LineOf(kind, m)
    <3>1. PICK j \in 1 .. Len(wire) : wire[j] = LineOf(kind, m)
      BY <1>3, <2>7
    <3>2. j # 1 /\ wire[j].kind = kind /\ wire[j].id = m
      BY <2>3, <2>7, <3>1 DEF LineOf
    <3>3. j - 1 \in 1 .. Len(wire') /\ wire'[j - 1] = wire[j] /\ 1 < j
      BY <1>2, <3>2
    <3>4. n < m
      BY <1>3, <1>6, <2>4, <3>2, <3>3
    <3> QED
      BY <3>1, <3>3, <3>4
  <2>8. \A m \in n + 1 .. PrintedLast(kind) :
            LineOf(kind, m) \in lost \/ \E j \in 1 .. Len(wire') : wire'[j] = LineOf(kind, m)
    <3>1. \A m \in n + 1 .. PrintedLast(kind) : m \in a + 1 .. PrintedLast(kind) /\ m # n
      BY <1>4, <2>5
    <3> QED
      BY <2>7, <3>1
  <2>9. n \in 0 .. PrintedLast(kind)
    BY <1>4, <2>5
  <2>10. Frontier(kind, n)'
    BY <1>1, <1>3, <1>7, <2>6, <2>8, <2>9 DEF Frontier, LineOf
  <2>11. \A m \in a + 1 .. n - 1 : LineOf(kind, m) \in lost
    <3>1. \A m \in a + 1 .. n - 1 : m \in a + 1 .. PrintedLast(kind) /\ m # n /\ ~(m > n)
      BY <1>4, <2>5
    <3> QED
      BY <2>7, <3>1
  <2>12. Rank(kind, n) = Rank(kind, a) + 1
    BY <2>5, <2>11, RankNext
  <2> QED
    BY <2>3, <2>5, <2>10, <2>12
<1> QED
  BY <1>8, <1>9

(* The start byte: the marker of block 1 is the first line. *)
LEMMA StartKeepsFrontier ==
    ASSUME TypeOK, AtRest, Silent, SendStart, NEW kind \in {"sample", "marker"}, NEW a, Frontier(kind, a)
    PROVE  Frontier(kind, a)'
<1>1. CASE board = "wait"
  <2>1. /\ board' = "sampling" /\ wire' = <<LineOf("marker", 1)>> /\ Len(wire') = 1
        /\ wire'[1] = LineOf("marker", 1) /\ lost' = lost /\ produced' = 0 /\ produced = 0 /\ wire = << >>
        /\ Len(wire) = 0
    BY <1>1 DEF SendStart, Marker, LineOf, AtRest, Silent
  <2>2. 0 \div N = 0
    BY AcquisitionAssumption
  <2>3. /\ PrintedLast("sample") = 0 /\ PrintedLast("sample")' = 0
        /\ PrintedLast("marker") = 0 /\ PrintedLast("marker")' = 1
    BY <1>1, <2>1, <2>2 DEF PrintedLast
  <2>4. \A l \in lost : l.kind # kind
    <3>1. \A l \in lost : l \in Lines /\ l.id >= 1
      BY LinesAre DEF TypeOK, BlockNumbers, SampleNumbers
    <3>2. \A l \in lost : l.kind = kind => l.id <= 0
      BY <2>3 DEF Frontier
    <3> QED
      BY <3>1, <3>2, LinesAre DEF TypeOK, BlockNumbers, SampleNumbers
  <2>5. a = 0
    BY <2>3 DEF Frontier
  <2>6. CASE kind = "sample"
    BY <2>1, <2>3, <2>4, <2>5, <2>6 DEF Frontier, LineOf
  <2>7. CASE kind = "marker"
    BY <2>1, <2>3, <2>4, <2>5, <2>7 DEF Frontier, LineOf
  <2> QED
    BY <2>6, <2>7
<1>2. CASE board # "wait"
  BY <1>2 DEF SendStart, Frontier, PrintedLast, LineOf
<1> QED
  BY <1>1, <1>2

(* The other steps leave the wire alone. *)
LEMMA SameFrontier ==
    ASSUME NEW kind, NEW a, Frontier(kind, a), UNCHANGED <<wire, lost, produced>>,
           board' = "sampling" <=> board = "sampling"
    PROVE  Frontier(kind, a)'
BY DEF Frontier, PrintedLast, LineOf

-----------------------------------------------------------------------------
LEMMA PlacesStay ==
    ASSUME NEW kind, NEW a \in Nat, NEW b \in Nat, a <= b, LosesAfter(kind, a)
    PROVE  Places(kind, a) \subseteq Places(kind, b)' /\ Rank(kind, a)' = Rank(kind, a)
<1>1. \A m \in 1 .. a : LineOf(kind, m) \in lost' <=> LineOf(kind, m) \in lost
  <2>1. \A m : LineOf(kind, m).kind = kind /\ LineOf(kind, m).id = m
    BY DEF LineOf
  <2> QED
    BY <2>1 DEF LosesAfter
<1>2. ASSUME NEW n \in 1 .. a
      PROVE  Rank(kind, n)' = Rank(kind, n)
  BY <1>1, RankStays
<1>3. ASSUME NEW n \in Kept(kind, a)
      PROVE  n \in 1 .. a /\ n \in Kept(kind, b)'
  BY <1>1 DEF Kept, LineOf
<1>4. Places(kind, a) \subseteq Places(kind, b)'
  BY <1>2, <1>3 DEF Places
<1>5. Rank(kind, a)' = Rank(kind, a)
  BY <1>1, RankStays
<1> QED
  BY <1>4, <1>5

LEMMA NothingLost ==
    ASSUME NEW kind, NEW a, lost' = lost
    PROVE  LosesAfter(kind, a)
BY DEF LosesAfter

(* Steps that move no sample past the wire. *)
LEMMA SameSamplePlaces ==
    ASSUME NEW a \in Nat, SamplePlaces(a), LosesAfter("sample", a),
           UNCHANGED <<packed, block, dataQueue>>,
           line' = line \/ (line.kind # "sample" /\ line'.kind # "sample")
    PROVE  SamplePlaces(a)'
<1>1. Places("sample", a) \subseteq Places("sample", a)' /\ Rank("sample", a)' = Rank("sample", a)
  BY PlacesStay
<1>2. SamplesIn' = SamplesIn /\ Held("sample")' = Held("sample")
  BY DEF SamplesIn, Held
<1> QED
  BY <1>1, <1>2 DEF SamplePlaces

LEMMA ReadKeepsSamplePlaces ==
    ASSUME TypeOK, AtRest, ReadLine, NEW a \in Nat, Frontier("sample", a), SamplePlaces(a)
    PROVE  SamplesPlaced'
<1>1. line.kind = "none" /\ UNCHANGED <<packed, block, dataQueue, lost>>
  BY DEF AtRest, ReadLine, processVars, NoLine
<1>2. CASE line'.kind # "sample"
  <2>1. SamplePlaces(a)'
    BY <1>1, <1>2, NothingLost, SameSamplePlaces
  <2> QED
    BY <1>2, <2>1, ReadMovesFrontier DEF SamplesPlaced
<1>3. CASE line'.kind = "sample"
  <2>1. PICK n \in Nat : /\ Frontier("sample", n)'
                         /\ a < n /\ line' = LineOf("sample", n) /\ LineOf("sample", n) \notin lost
                         /\ Rank("sample", n) = Rank("sample", a) + 1
    BY <1>3, ReadMovesFrontier
  <2>2. Places("sample", a) \subseteq Places("sample", n)'
    BY <1>1, <2>1, NothingLost, PlacesStay
  <2>3. Rank("sample", a) = SamplesIn /\ SamplesIn \in Nat
    BY <1>1, Counts DEF SamplePlaces, Held
  <2>4. Rank("sample", n)' = Rank("sample", n)
    BY <1>1, <2>1, NothingLost, PlacesStay
  <2>5. n \in Kept("sample", n)'
    BY <1>1, <2>1 DEF Kept, LineOf
  <2>6. <<n, SamplesIn + 1>> \in Places("sample", n)'
    BY <2>1, <2>3, <2>4, <2>5 DEF Places
  <2>7. SamplesIn' = SamplesIn /\ Held("sample")' = 1 /\ line'.id = n
    BY <1>1, <1>3, <2>1 DEF SamplesIn, Held, LineOf
  <2>8. SamplePlaces(n)'
    BY <1>1, <2>1, <2>2, <2>3, <2>4, <2>6, <2>7 DEF SamplePlaces
  <2> QED
    BY <2>1, <2>8 DEF SamplesPlaced
<1> QED
  BY <1>2, <1>3

LEMMA InsertKeepsSamplePlaces ==
    ASSUME TypeOK, InsertSample, NEW a \in Nat, SamplePlaces(a)
    PROVE  SamplePlaces(a)'
<1>1. /\ line.kind = "sample" /\ line' = NoLine /\ dataQueue' = Append(dataQueue, line.id)
      /\ UNCHANGED <<packed, block, lost>>
  BY DEF InsertSample, boardVars, processVars
<1>2. line.id \in SampleNumbers /\ dataQueue \in Seq(SampleNumbers) /\ Len(dataQueue) \in Nat
  BY <1>1, LinesAre DEF TypeOK, NoLine
<1>3. /\ Len(dataQueue') = Len(dataQueue) + 1 /\ dataQueue'[Len(dataQueue) + 1] = line.id
      /\ \A j \in 1 .. Len(dataQueue) : dataQueue'[j] = dataQueue[j]
  BY <1>1, <1>2, LastIn
<1>4. Places("sample", a) \subseteq Places("sample", a)' /\ Rank("sample", a)' = Rank("sample", a)
  BY <1>1, NothingLost, PlacesStay
<1>5. PICK base \in Nat : base = N * Len(packed) + Len(block)
  BY Counts
<1>6. /\ SamplesIn = base + Len(dataQueue) /\ SamplesIn' = base + Len(dataQueue')
      /\ Held("sample") = 1 /\ Held("sample")' = 0
  BY <1>1, <1>5 DEF SamplesIn, Held, NoLine
<1>7. ASSUME NEW j \in 1 .. Len(dataQueue')
      PROVE  <<dataQueue'[j], base + j>> \in Places("sample", a)
  <2>1. CASE j \in 1 .. Len(dataQueue)
    BY <1>3, <1>5, <2>1 DEF SamplePlaces
  <2>2. CASE j = Len(dataQueue) + 1
    <3>1. base + j = SamplesIn + 1
      BY <1>2, <1>6, <2>2
    <3> QED
      BY <1>1, <1>3, <2>2, <3>1 DEF SamplePlaces
  <2> QED
    BY <1>2, <1>3, <2>1, <2>2
<1>8. Rank("sample", a)' = SamplesIn' + Held("sample")'
  BY <1>2, <1>3, <1>4, <1>6 DEF SamplePlaces
<1> QED
  BY <1>1, <1>4, <1>5, <1>7, <1>8 DEF SamplePlaces, NoLine

LEMMA GetKeepsSamplePlaces ==
    ASSUME TypeOK, GetSample, NEW a \in Nat, SamplePlaces(a)
    PROVE  SamplePlaces(a)'
<1>1. /\ dataQueue # << >> /\ dataQueue' = Tail(dataQueue) /\ block' = Append(block, Head(dataQueue))
      /\ UNCHANGED <<packed, line, lost>>
  BY DEF GetSample, boardVars, readerVars
<1>2. /\ Len(dataQueue) \in Nat /\ Len(dataQueue) >= 1 /\ Len(dataQueue') = Len(dataQueue) - 1
      /\ Head(dataQueue) = dataQueue[1] /\ Head(dataQueue) \in SampleNumbers
      /\ \A j \in 1 .. Len(dataQueue) - 1 : dataQueue'[j] = dataQueue[j + 1]
  BY <1>1, FirstOut DEF TypeOK
<1>3. /\ Len(block') = Len(block) + 1 /\ block'[Len(block) + 1] = dataQueue[1] /\ Len(block) \in Nat
      /\ \A j \in 1 .. Len(block) : block'[j] = block[j]
  BY <1>1, <1>2, LastIn, LenProperties DEF TypeOK
<1>4. Places("sample", a) \subseteq Places("sample", a)' /\ Rank("sample", a)' = Rank("sample", a)
  BY <1>1, NothingLost, PlacesStay
<1>5. N * Len(packed) \in Nat
  BY Counts
<1>6. SamplesIn' = SamplesIn /\ Held("sample")' = Held("sample")
  BY <1>1, <1>2, <1>3, <1>5 DEF SamplesIn, Held
<1>7. ASSUME NEW j \in 1 .. Len(block')
      PROVE  <<block'[j], N * Len(packed) + j>> \in Places("sample", a)
  <2>1. CASE j \in 1 .. Len(block)
    BY <1>3, <2>1 DEF SamplePlaces
  <2>2. CASE j = Len(block) + 1
    <3>1. 1 \in 1 .. Len(dataQueue) /\ N * Len(packed) + Len(block) + 1 = N * Len(packed) + j
      BY <1>2, <1>3, <1>5, <2>2
    <3> QED
      BY <1>3, <2>2, <3>1 DEF SamplePlaces
  <2> QED
    BY <1>3, <2>1, <2>2
<1>8. ASSUME NEW j \in 1 .. Len(dataQueue')
      PROVE  <<dataQueue'[j], N * Len(packed) + Len(block') + j>> \in Places("sample", a)
  <2>1. /\ j + 1 \in 1 .. Len(dataQueue) /\ dataQueue'[j] = dataQueue[j + 1]
        /\ N * Len(packed) + Len(block) + (j + 1) = N * Len(packed) + Len(block') + j
    BY <1>2, <1>3, <1>5
  <2> QED
    BY <2>1 DEF SamplePlaces
<1> QED
  BY <1>1, <1>4, <1>6, <1>7, <1>8 DEF SamplePlaces

LEMMA PackKeepsSamplePlaces ==
    ASSUME TypeOK, Placed, BlockStage, PackBlock, NEW a \in Nat, SamplePlaces(a)
    PROVE  SamplePlaces(a)'
<1> DEFINE record == [start |-> opened, samples |-> block]
<1>1. /\ packed' = Append(packed, record) /\ block' = << >> /\ Len(block') = 0 /\ Len(block) = N
      /\ UNCHANGED <<dataQueue, line, lost>>
  BY DEF PackBlock, boardVars, readerVars, BlockStage
<1>2. record \in Records /\ packed \in Seq(Records) /\ Len(packed) \in Nat
  BY LenProperties DEF TypeOK, Placed, PackBlock, Records
<1>3. /\ Len(packed') = Len(packed) + 1 /\ packed'[Len(packed) + 1] = record
      /\ \A i \in 1 .. Len(packed) : packed'[i] = packed[i]
  BY <1>1, <1>2, LastIn
<1>4. Places("sample", a) \subseteq Places("sample", a)' /\ Rank("sample", a)' = Rank("sample", a)
  BY <1>1, NothingLost, PlacesStay
<1>5. /\ N * (Len(packed) + 1) = N * Len(packed) + N /\ N * Len(packed) \in Nat /\ N \in Nat
      /\ Len(dataQueue) \in Nat
  BY <1>2, Counts
<1>6. SamplesIn' = SamplesIn /\ Held("sample")' = Held("sample")
  BY <1>1, <1>2, <1>3, <1>5 DEF SamplesIn, Held
<1>7. ASSUME NEW i \in 1 .. Len(packed')
      PROVE  /\ Len(packed'[i].samples) = N
             /\ \A j \in 1 .. N : <<packed'[i].samples[j], N * (i - 1) + j>> \in Places("sample", a)
  <2>1. CASE i \in 1 .. Len(packed)
    BY <1>3, <2>1 DEF SamplePlaces
  <2>2. CASE i = Len(packed) + 1
    <3>1. packed'[i].samples = block /\ i - 1 = Len(packed)
      BY <1>2, <1>3, <2>2
    <3> QED
      BY <1>1, <3>1 DEF SamplePlaces
  <2> QED
    BY <1>2, <1>3, <2>1, <2>2
<1>8. ASSUME NEW j \in 1 .. Len(dataQueue')
      PROVE  <<dataQueue'[j], N * Len(packed') + Len(block') + j>> \in Places("sample", a)
  <2>1. N * Len(packed') + Len(block') + j = N * Len(packed) + Len(block) + j
    BY <1>1, <1>3, <1>5
  <2> QED
    BY <1>1, <2>1 DEF SamplePlaces
<1> QED
  BY <1>1, <1>4, <1>6, <1>7, <1>8 DEF SamplePlaces

LEMMA StepBlockStage == TypeOK /\ Placed /\ BlockStage /\ [Next]_vars => BlockStage'
<1> SUFFICES ASSUME TypeOK, Placed, BlockStage, [Next]_vars PROVE BlockStage'
  OBVIOUS
<1> USE DEF boardVars, readerVars, processVars
<1>1. CASE UNCHANGED processVars
  BY <1>1 DEF BlockStage
<1>2. CASE SendStart \/ CheckKey \/ NoTimestamp \/ GetTimestamp \/ BlockComplete \/ Return \/ InsertFails
  BY <1>2 DEF BlockStage, SendStart, CheckKey, NoTimestamp, GetTimestamp, BlockComplete, Return,
              InsertFails
<1>3. CASE OpenRecord
  BY <1>3 DEF BlockStage, OpenRecord, Placed
<1>4. CASE GetSample
  BY <1>4 DEF BlockStage, GetSample
<1>5. CASE PackBlock
  BY <1>5 DEF BlockStage, PackBlock, Placed
<1> QED
  BY <1>1, <1>2, <1>3, <1>4, <1>5
     DEF Next, Board, Reader, Process, BootBoard, PrintSample, LoseLine, CheckStop, ReadTimeout,
         ReadLine, InsertTimestamp, InsertSample, WaitForSample, PressKey, Ended, vars

LEMMA StepSamplesPlaced ==
    ASSUME TypeOK, Placed, AtRest, Silent, BlockStage, SamplesPlaced, [Next]_vars
    PROVE  SamplesPlaced'
<1> USE DEF boardVars, readerVars, processVars
<1>a. PICK a \in Nat : Frontier("sample", a) /\ SamplePlaces(a)
  BY DEF SamplesPlaced
<1>b. ASSUME Frontier("sample", a)', SamplePlaces(a)'
      PROVE  SamplesPlaced'
  BY <1>b DEF SamplesPlaced
<1>1. CASE PrintSample
  <2>1. Frontier("sample", a)'
    BY <1>1, <1>a, PrintKeepsFrontier
  <2>2. SamplePlaces(a)'
    BY <1>1, <1>a, NothingLost, SameSamplePlaces DEF PrintSample
  <2> QED
    BY <1>b, <2>1, <2>2
<1>2. CASE LoseLine
  <2>1. Frontier("sample", a)' /\ LosesAfter("sample", a)
    BY <1>2, <1>a, LoseKeepsFrontier
  <2>2. SamplePlaces(a)'
    BY <1>2, <1>a, <2>1, SameSamplePlaces DEF LoseLine
  <2> QED
    BY <1>b, <2>1, <2>2
<1>3. CASE ReadLine
  BY <1>3, <1>a, ReadKeepsSamplePlaces
<1>4. CASE SendStart
  <2>1. Frontier("sample", a)'
    BY <1>4, <1>a, StartKeepsFrontier
  <2>2. SamplePlaces(a)'
    BY <1>4, <1>a, NothingLost, SameSamplePlaces DEF SendStart
  <2> QED
    BY <1>b, <2>1, <2>2
<1>5. CASE UNCHANGED <<wire, lost, produced>> /\ (board' = "sampling" <=> board = "sampling")
  <2>1. Frontier("sample", a)'
    BY <1>5, <1>a, SameFrontier
  <2>2. CASE InsertSample
    BY <1>a, <1>b, <2>1, <2>2, InsertKeepsSamplePlaces
  <2>3. CASE GetSample
    BY <1>a, <1>b, <2>1, <2>3, GetKeepsSamplePlaces
  <2>4. CASE PackBlock
    BY <1>a, <1>b, <2>1, <2>4, PackKeepsSamplePlaces
  <2>5. CASE /\ UNCHANGED <<packed, block, dataQueue>>
             /\ line' = line \/ (line.kind # "sample" /\ line'.kind # "sample")
    BY <1>5, <1>a, <1>b, <2>1, <2>5, NothingLost, SameSamplePlaces
  <2> QED
    BY <1>1, <1>2, <1>3, <1>4, <2>2, <2>3, <2>4, <2>5
       DEF Next, Board, Reader, Process, BootBoard, CheckStop, ReadTimeout, InsertTimestamp,
           InsertFails, CheckKey, NoTimestamp, GetTimestamp, OpenRecord, WaitForSample,
           BlockComplete, Return, PressKey, Ended, vars, NoLine
<1> QED
  BY <1>1, <1>2, <1>3, <1>4, <1>5
     DEF Next, Board, Reader, Process, BootBoard, CheckStop, ReadTimeout, InsertTimestamp, InsertSample,
         InsertFails, CheckKey, NoTimestamp, GetTimestamp, PackBlock, OpenRecord, GetSample,
         WaitForSample, BlockComplete, Return, PressKey, Ended, vars

LEMMA StartsCount ==
    ASSUME TypeOK
    PROVE  StartsTaken \in Nat /\ Len(tsQueue) \in Nat /\ Len(packed) \in Nat
BY Counts DEF StartsTaken

(* Steps that take no start time and read no marker. *)
LEMMA SameMarkerPlaces ==
    ASSUME NEW a \in Nat, MarkerPlaces(a), LosesAfter("marker", a),
           UNCHANGED <<packed, tsQueue, opened>>,
           line' = line \/ (line.kind # "marker" /\ line'.kind # "marker"),
           \/ process' = "ended"
           \/ UNCHANGED <<process, starttime>>
           \/ process \notin {"pack", "open", "ended"} /\ process' \notin {"pack", "open"}
    PROVE  MarkerPlaces(a)'
<1>1. Places("marker", a) \subseteq Places("marker", a)' /\ Rank("marker", a)' = Rank("marker", a)
  BY PlacesStay
<1>2. Held("marker")' = Held("marker")
  BY DEF Held
<1>3. CASE process' = "ended"
  BY <1>1, <1>3 DEF MarkerPlaces
<1>4. CASE UNCHANGED <<process, starttime>>
  <2>1. StartsTaken' = StartsTaken
    BY <1>4 DEF StartsTaken
  <2> QED
    BY <1>1, <1>2, <1>4, <2>1 DEF MarkerPlaces
<1>5. CASE process \notin {"pack", "open", "ended"} /\ process' \notin {"pack", "open"}
  <2>1. StartsTaken' = StartsTaken
    BY <1>5 DEF StartsTaken
  <2> QED
    BY <1>1, <1>2, <1>5, <2>1 DEF MarkerPlaces
<1> QED
  BY <1>3, <1>4, <1>5

LEMMA ReadKeepsMarkerPlaces ==
    ASSUME TypeOK, AtRest, ReadLine, NEW a \in Nat, Frontier("marker", a), MarkerPlaces(a)
    PROVE  MarkersPlaced'
<1>1. line.kind = "none" /\ UNCHANGED <<packed, tsQueue, process, starttime, opened, lost>>
  BY DEF AtRest, ReadLine, processVars, NoLine
<1>2. CASE line'.kind # "marker"
  <2>1. MarkerPlaces(a)'
    BY <1>1, <1>2, NothingLost, SameMarkerPlaces
  <2> QED
    BY <1>2, <2>1, ReadMovesFrontier DEF MarkersPlaced
<1>3. CASE line'.kind = "marker"
  <2>1. PICK n \in Nat : /\ Frontier("marker", n)'
                         /\ a < n /\ line' = LineOf("marker", n) /\ LineOf("marker", n) \notin lost
                         /\ Rank("marker", n) = Rank("marker", a) + 1
    BY <1>3, ReadMovesFrontier
  <2>2. Places("marker", a) \subseteq Places("marker", n)'
    BY <1>1, <2>1, NothingLost, PlacesStay
  <2>3. Rank("marker", n)' = Rank("marker", n)
    BY <1>1, <2>1, NothingLost, PlacesStay
  <2>4. n \in Kept("marker", n)'
    BY <1>1, <2>1 DEF Kept, LineOf
  <2>5. <<n, Rank("marker", a) + 1>> \in Places("marker", n)'
    BY <2>1, <2>3, <2>4 DEF Places
  <2>6. StartsTaken' = StartsTaken /\ Held("marker") = 0 /\ Held("marker")' = 1 /\ line'.id = n
    BY <1>1, <1>3, <2>1 DEF StartsTaken, Held, LineOf
  <2>7. process # "ended" => Rank("marker", a) = StartsTaken + Len(tsQueue)
    BY <2>6, StartsCount DEF MarkerPlaces
  <2>8. MarkerPlaces(n)'
    BY <1>1, <2>1, <2>2, <2>3, <2>5, <2>6, <2>7 DEF MarkerPlaces
  <2> QED
    BY <2>1, <2>8 DEF MarkersPlaced
<1> QED
  BY <1>2, <1>3

LEMMA InsertKeepsMarkerPlaces ==
    ASSUME TypeOK, InsertTimestamp, NEW a \in Nat, MarkerPlaces(a)
    PROVE  MarkerPlaces(a)'
<1>1. /\ line.kind = "marker" /\ line' = NoLine /\ tsQueue' = Append(tsQueue, line.id)
      /\ UNCHANGED <<packed, process, starttime, opened, lost>>
  BY DEF InsertTimestamp, boardVars, processVars
<1>2. line.id \in BlockNumbers /\ tsQueue \in Seq(BlockNumbers) /\ Len(tsQueue) \in Nat
  BY <1>1, LinesAre, LenProperties DEF TypeOK, NoLine
<1>3. /\ Len(tsQueue') = Len(tsQueue) + 1 /\ tsQueue'[Len(tsQueue) + 1] = line.id
      /\ \A j \in 1 .. Len(tsQueue) : tsQueue'[j] = tsQueue[j]
  BY <1>1, <1>2, LastIn
<1>4. Places("marker", a) \subseteq Places("marker", a)' /\ Rank("marker", a)' = Rank("marker", a)
  BY <1>1, NothingLost, PlacesStay
<1>5. StartsTaken' = StartsTaken /\ Held("marker") = 1 /\ Held("marker")' = 0 /\ StartsTaken \in Nat
  BY <1>1, StartsCount DEF StartsTaken, Held, NoLine
<1>6. ASSUME process # "ended", NEW j \in 1 .. Len(tsQueue')
      PROVE  <<tsQueue'[j], StartsTaken + j>> \in Places("marker", a)
  <2>1. CASE j \in 1 .. Len(tsQueue)
    BY <1>3, <1>6, <2>1 DEF MarkerPlaces
  <2>2. CASE j = Len(tsQueue) + 1
    <3>1. StartsTaken + j = StartsTaken + Len(tsQueue) + 1
      BY <1>2, <1>5, <2>2
    <3> QED
      BY <1>1, <1>3, <1>6, <2>2, <3>1 DEF MarkerPlaces
  <2> QED
    BY <1>2, <1>3, <2>1, <2>2
<1>7. process # "ended" => Rank("marker", a) = StartsTaken + Len(tsQueue') + 0
  BY <1>2, <1>3, <1>5 DEF MarkerPlaces
<1> QED
  BY <1>1, <1>4, <1>5, <1>6, <1>7 DEF MarkerPlaces, NoLine

LEMMA GetKeepsMarkerPlaces ==
    ASSUME TypeOK, GetTimestamp, NEW a \in Nat, MarkerPlaces(a)
    PROVE  MarkerPlaces(a)'
<1>1. /\ process = "timestamp" /\ process' = (IF opened # 0 THEN "pack" ELSE "open")
      /\ tsQueue # << >> /\ starttime' = Head(tsQueue) /\ tsQueue' = Tail(tsQueue)
      /\ UNCHANGED <<packed, line, opened, lost>>
  BY DEF GetTimestamp, boardVars
<1>2. /\ Len(tsQueue) \in Nat /\ Len(tsQueue) >= 1 /\ Len(tsQueue') = Len(tsQueue) - 1
      /\ Head(tsQueue) = tsQueue[1]
      /\ \A j \in 1 .. Len(tsQueue) - 1 : tsQueue'[j] = tsQueue[j + 1]
  BY <1>1, FirstOut DEF TypeOK
<1>3. Places("marker", a) \subseteq Places("marker", a)' /\ Rank("marker", a)' = Rank("marker", a)
  BY <1>1, NothingLost, PlacesStay
<1>4. StartsTaken' = StartsTaken + 1 /\ StartsTaken \in Nat /\ Held("marker")' = Held("marker")
  BY <1>1, StartsCount DEF StartsTaken, Held
<1>5. <<tsQueue[1], StartsTaken + 1>> \in Places("marker", a)
  <2>1. 1 \in 1 .. Len(tsQueue)
    BY <1>2
  <2> QED
    BY <1>1, <2>1 DEF MarkerPlaces
<1>6. ASSUME NEW j \in 1 .. Len(tsQueue')
      PROVE  <<tsQueue'[j], StartsTaken' + j>> \in Places("marker", a)
  <2>1. /\ j + 1 \in 1 .. Len(tsQueue) /\ tsQueue'[j] = tsQueue[j + 1]
        /\ StartsTaken + (j + 1) = StartsTaken' + j
    BY <1>2, <1>4
  <2> QED
    BY <1>1, <2>1 DEF MarkerPlaces
<1>7. /\ Rank("marker", a) = StartsTaken' + Len(tsQueue') + Held("marker")
      /\ line.kind = "marker" => <<line.id, StartsTaken' + Len(tsQueue') + 1>> \in Places("marker", a)
  <2>1. StartsTaken' + Len(tsQueue') = StartsTaken + Len(tsQueue)
    BY <1>2, <1>4
  <2> QED
    BY <1>1, <2>1 DEF MarkerPlaces
<1> QED
  BY <1>1, <1>2, <1>3, <1>4, <1>5, <1>6, <1>7 DEF MarkerPlaces

LEMMA PackKeepsMarkerPlaces ==
    ASSUME TypeOK, Placed, PackBlock, NEW a \in Nat, MarkerPlaces(a)
    PROVE  MarkerPlaces(a)'
<1> DEFINE record == [start |-> opened, samples |-> block]
<1>1. /\ process = "pack" /\ process' = "open" /\ packed' = Append(packed, record)
      /\ UNCHANGED <<tsQueue, line, starttime, opened, lost>> /\ opened # 0
  BY DEF PackBlock, boardVars, readerVars, Placed
<1>2. record \in Records /\ packed \in Seq(Records) /\ Len(packed) \in Nat
  BY LenProperties DEF TypeOK, Placed, PackBlock, Records
<1>3. /\ Len(packed') = Len(packed) + 1 /\ packed'[Len(packed) + 1] = record
      /\ \A i \in 1 .. Len(packed) : packed'[i] = packed[i]
  BY <1>1, <1>2, LastIn
<1>4. Places("marker", a) \subseteq Places("marker", a)' /\ Rank("marker", a)' = Rank("marker", a)
  BY <1>1, NothingLost, PlacesStay
<1>5. StartsTaken' = StartsTaken /\ Held("marker")' = Held("marker")
  BY <1>1, <1>2, <1>3 DEF StartsTaken, Held
<1>6. ASSUME NEW i \in 1 .. Len(packed')
      PROVE  <<packed'[i].start, i>> \in Places("marker", a)
  <2>1. CASE i \in 1 .. Len(packed)
    BY <1>3, <2>1 DEF MarkerPlaces
  <2>2. CASE i = Len(packed) + 1
    BY <1>1, <1>3, <2>2 DEF MarkerPlaces
  <2> QED
    BY <1>2, <1>3, <2>1, <2>2
<1> QED
  BY <1>1, <1>4, <1>5, <1>6 DEF MarkerPlaces

LEMMA OpenKeepsMarkerPlaces ==
    ASSUME TypeOK, Placed, OpenRecord, NEW a \in Nat, MarkerPlaces(a)
    PROVE  MarkerPlaces(a)'
<1>1. /\ process = "open" /\ process' = "inner" /\ opened' = starttime /\ starttime # 0
      /\ UNCHANGED <<packed, tsQueue, line, starttime, lost>>
  BY DEF OpenRecord, boardVars, readerVars, Placed
<1>2. Places("marker", a) \subseteq Places("marker", a)' /\ Rank("marker", a)' = Rank("marker", a)
  BY <1>1, NothingLost, PlacesStay
<1>3. StartsTaken' = StartsTaken /\ StartsTaken = Len(packed) + 1 /\ Held("marker")' = Held("marker")
  BY <1>1 DEF StartsTaken, Held
<1> QED
  BY <1>1, <1>2, <1>3 DEF MarkerPlaces

LEMMA StepMarkersPlaced ==
    ASSUME TypeOK, Placed, AtRest, Silent, MarkersPlaced, [Next]_vars
    PROVE  MarkersPlaced'
<1> USE DEF boardVars, readerVars, processVars
<1>a. PICK a \in Nat : Frontier("marker", a) /\ MarkerPlaces(a)
  BY DEF MarkersPlaced
<1>b. ASSUME Frontier("marker", a)', MarkerPlaces(a)'
      PROVE  MarkersPlaced'
  BY <1>b DEF MarkersPlaced
<1>1. CASE PrintSample
  <2>1. Frontier("marker", a)'
    BY <1>1, <1>a, PrintKeepsFrontier
  <2>2. MarkerPlaces(a)'
    BY <1>1, <1>a, NothingLost, SameMarkerPlaces DEF PrintSample
  <2> QED
    BY <1>b, <2>1, <2>2
<1>2. CASE LoseLine
  <2>1. Frontier("marker", a)' /\ LosesAfter("marker", a)
    BY <1>2, <1>a, LoseKeepsFrontier
  <2>2. MarkerPlaces(a)'
    BY <1>2, <1>a, <2>1, SameMarkerPlaces DEF LoseLine
  <2> QED
    BY <1>b, <2>1, <2>2
<1>3. CASE ReadLine
  BY <1>3, <1>a, ReadKeepsMarkerPlaces
<1>4. CASE SendStart
  <2>1. Frontier("marker", a)'
    BY <1>4, <1>a, StartKeepsFrontier
  <2>2. MarkerPlaces(a)'
    BY <1>4, <1>a, NothingLost, SameMarkerPlaces DEF SendStart
  <2> QED
    BY <1>b, <2>1, <2>2
<1>5. CASE UNCHANGED <<wire, lost, produced>> /\ (board' = "sampling" <=> board = "sampling")
  <2>1. Frontier("marker", a)'
    BY <1>5, <1>a, SameFrontier
  <2>2. CASE InsertTimestamp
    BY <1>a, <1>b, <2>1, <2>2, InsertKeepsMarkerPlaces
  <2>3. CASE GetTimestamp
    BY <1>a, <1>b, <2>1, <2>3, GetKeepsMarkerPlaces
  <2>4. CASE PackBlock
    BY <1>a, <1>b, <2>1, <2>4, PackKeepsMarkerPlaces
  <2>5. CASE OpenRecord
    BY <1>a, <1>b, <2>1, <2>5, OpenKeepsMarkerPlaces
  <2>6. CASE /\ UNCHANGED <<packed, tsQueue, opened>>
             /\ line' = line \/ (line.kind # "marker" /\ line'.kind # "marker")
             /\ \/ process' = "ended"
                \/ UNCHANGED <<process, starttime>>
                \/ process \notin {"pack", "open", "ended"} /\ process' \notin {"pack", "open"}
    BY <1>5, <1>a, <1>b, <2>1, <2>6, NothingLost, SameMarkerPlaces
  <2> QED
    BY <1>1, <1>2, <1>3, <1>4, <2>2, <2>3, <2>4, <2>5, <2>6
       DEF Next, Board, Reader, Process, BootBoard, CheckStop, ReadTimeout, InsertSample,
           InsertFails, CheckKey, NoTimestamp, GetSample, WaitForSample,
           BlockComplete, Return, PressKey, Ended, vars, NoLine
<1> QED
  BY <1>1, <1>2, <1>3, <1>4, <1>5
     DEF Next, Board, Reader, Process, BootBoard, CheckStop, ReadTimeout, InsertTimestamp, InsertSample,
         InsertFails, CheckKey, NoTimestamp, GetTimestamp, PackBlock, OpenRecord, GetSample,
         WaitForSample, BlockComplete, Return, PressKey, Ended, vars

-----------------------------------------------------------------------------
IInv == Inv /\ Silent /\ BlockStage /\ SamplesPlaced /\ MarkersPlaced

LEMMA InitPlaces == Init => BlockStage /\ SamplesPlaced /\ MarkersPlaced
<1> SUFFICES ASSUME Init PROVE BlockStage /\ SamplesPlaced /\ MarkersPlaced
  OBVIOUS
<1>1. /\ Len(wire) = 0 /\ Len(packed) = 0 /\ Len(block) = 0 /\ Len(dataQueue) = 0 /\ Len(tsQueue) = 0
      /\ line.kind = "none" /\ process = "start" /\ opened = 0 /\ packed = << >>
  BY DEF Init, NoLine
<1>2. BlockStage
  BY <1>1 DEF BlockStage
<1>3. N * 0 = 0 /\ N \in Nat \ {0}
  BY AcquisitionAssumption
<1>4. SamplesIn = 0 /\ StartsTaken = 0 /\ Held("sample") = 0 /\ Held("marker") = 0
  BY <1>1, <1>3 DEF SamplesIn, StartsTaken, Held
<1>5. ASSUME NEW a \in Nat, Rank("sample", a) = 0 PROVE SamplePlaces(a)
  BY <1>1, <1>4, <1>5 DEF SamplePlaces
<1>6. ASSUME NEW a \in Nat, Rank("marker", a) = 0 PROVE MarkerPlaces(a)
  BY <1>1, <1>4, <1>6 DEF MarkerPlaces
<1>7. CASE board = "boot" /\ produced = 0 /\ lost = {}
  <2>1. PrintedLast("sample") = 0 /\ PrintedLast("marker") = 0
    BY <1>7 DEF PrintedLast
  <2>2. Frontier("sample", 0) /\ Frontier("marker", 0)
    BY <1>1, <1>7, <2>1 DEF Frontier
  <2>3. SamplePlaces(0) /\ MarkerPlaces(0)
    BY <1>5, <1>6, RankZero
  <2> QED
    BY <1>2, <2>2, <2>3 DEF SamplesPlaced, MarkersPlaced
<1>8. ASSUME NEW c \in Restarts, board = "sampling", produced = c,
             lost = {Marker(1)} \cup {Sample(n) : n \in 1 .. c}
      PROVE  SamplesPlaced /\ MarkersPlaced
  <2>1. c \in Nat /\ c < N /\ c \div N = 0
    <3>1. c \in Nat /\ c < N
      BY <1>3, AcquisitionAssumption
    <3> QED
      BY <1>3, <3>1
  <2>2. PrintedLast("sample") = c /\ PrintedLast("marker") = 1
    BY <1>8, <2>1 DEF PrintedLast
  <2>3. /\ \A l \in lost : l.kind = "sample" => l.id <= c
        /\ \A l \in lost : l.kind = "marker" => l.id <= 1
    BY <1>8 DEF Marker, Sample
  <2>4. Frontier("sample", c) /\ Frontier("marker", 1)
    BY <1>1, <2>1, <2>2, <2>3 DEF Frontier
  <2>5. Kept("sample", c) = {} /\ Kept("marker", 1) = {}
    <3>1. \A m : LineOf("sample", m) = Sample(m) /\ LineOf("marker", m) = Marker(m)
      BY DEF LineOf, Marker, Sample
    <3>2. \A m \in 1 .. c : Sample(m) \in lost
      BY <1>8
    <3>3. \A m \in 1 .. 1 : m = 1 /\ Marker(m) \in lost
      BY <1>8
    <3> QED
      BY <3>1, <3>2, <3>3 DEF Kept
  <2>6. Rank("sample", c) = 0 /\ Rank("marker", 1) = 0
    BY <2>5, FS_EmptySet DEF Rank
  <2> QED
    BY <1>5, <1>6, <2>1, <2>4, <2>6 DEF SamplesPlaced, MarkersPlaced
<1> QED
  BY <1>2, <1>7, <1>8 DEF Init

LEMMA PlacesInductive == Spec => []IInv
<1>1. Init => Silent /\ BlockStage /\ SamplesPlaced /\ MarkersPlaced
  BY InitSilent, InitPlaces
<1>2. Inv /\ Silent /\ BlockStage /\ SamplesPlaced /\ MarkersPlaced /\ [Next]_vars
        => Silent' /\ BlockStage' /\ SamplesPlaced' /\ MarkersPlaced'
  BY StepSilent, StepBlockStage, StepSamplesPlaced, StepMarkersPlaced DEF Inv
<1> QED
  BY <1>1, <1>2, Inductive, PTL DEF Spec, IInv

(* A line past the wire is counted: its number is its place and the losses *)
(* before it.                                                              *)
LEMMA PlaceCounts ==
    ASSUME NEW kind, NEW a \in Nat, NEW n, NEW p \in Nat, <<n, p>> \in Places(kind, a)
    PROVE  /\ n \in 1 .. a /\ LineOf(kind, n) \notin lost /\ Rank(kind, n) = p
           /\ p = n - Cardinality({m \in 1 .. n : LineOf(kind, m) \in lost})
           /\ Cardinality({m \in 1 .. n : LineOf(kind, m) \in lost}) \in Nat
<1>1. n \in Kept(kind, a) /\ Rank(kind, n) = p
  BY DEF Places
<1>2. n \in 1 .. a /\ n \in Nat /\ LineOf(kind, n) \notin lost
  BY <1>1 DEF Kept
<1>3. IsFiniteSet({m \in 1 .. n : LineOf(kind, m) \in lost})
  <2>1. IsFiniteSet(1 .. n)
    BY <1>2, FS_Interval
  <2> QED
    BY <2>1, FS_Subset
<1>4. Cardinality({m \in 1 .. n : LineOf(kind, m) \in lost}) \in Nat
  BY <1>3, FS_CardinalityType
<1> QED
  BY <1>1, <1>2, <1>4, RankAndLosses

(* However the threads interleave and whatever is lost, for any block      *)
(* size: a record begins as many samples late as samples were lost before  *)
(* it, and a block early for every marker lost (process_data pairs start   *)
(* times and samples by counting only).                                    *)
THEOREM LossesShiftRecords == Spec => []OffsetIsLosses
<1>1. IInv => OffsetIsLosses
  <2> SUFFICES ASSUME IInv, NEW i \in 1 .. Len(packed)
               PROVE  Offset(packed[i]) = LostSamplesBefore(packed[i].samples[1])
                                            - N * LostMarkersUpTo(packed[i].start)
    BY DEF OffsetIsLosses
  <2>1. TypeOK /\ N \in Nat \ {0} /\ i \in Nat
    BY Counts DEF IInv, Inv
  <2>2. PICK a \in Nat : SamplePlaces(a)
    BY DEF IInv, SamplesPlaced
  <2>3. PICK b \in Nat : MarkerPlaces(b)
    BY DEF IInv, MarkersPlaced
  <2>4. PICK s, k : s = packed[i].samples[1] /\ k = packed[i].start
    OBVIOUS
  <2>5. <<s, N * (i - 1) + 1>> \in Places("sample", a) /\ <<k, i>> \in Places("marker", b)
    <3>1. 1 \in 1 .. N
      BY <2>1
    <3> QED
      BY <2>2, <2>3, <2>4, <3>1 DEF SamplePlaces, MarkerPlaces
  <2>6. PICK p \in Nat : p = N * (i - 1) + 1
    BY <2>1
  <2> DEFINE ls == Cardinality({m \in 1 .. s : LineOf("sample", m) \in lost})
             lm == Cardinality({m \in 1 .. k : LineOf("marker", m) \in lost})
  <2>7. /\ s \in Nat /\ LineOf("sample", s) \notin lost /\ N * (i - 1) + 1 = s - ls /\ ls \in Nat
        /\ k \in Nat /\ i = k - lm /\ lm \in Nat
    <3>0. <<s, p>> \in Places("sample", a)
      BY <2>5, <2>6
    <3>1. /\ s \in 1 .. a /\ LineOf("sample", s) \notin lost
          /\ p = s - ls /\ ls \in Nat
      BY <3>0, PlaceCounts
    <3>2. k \in 1 .. b /\ i = k - lm /\ lm \in Nat
      BY <2>1, <2>5, PlaceCounts
    <3> QED
      BY <2>6, <3>1, <3>2
  <2>8. LostSamplesBefore(s) = ls
    <3>1. {m \in 1 .. s - 1 : Sample(m) \in lost} = {m \in 1 .. s : LineOf("sample", m) \in lost}
      BY <2>7 DEF Sample, LineOf
    <3> QED
      BY <3>1 DEF LostSamplesBefore
  <2>9. LostMarkersUpTo(k) = lm
    BY DEF LostMarkersUpTo, Marker, LineOf
  <2> HIDE DEF ls, lm
  <2>10. Offset(packed[i]) = s - ((k - 1) * N + 1)
    BY <2>4 DEF Offset
  <2>11. s - ((k - 1) * N + 1) = ls - N * lm
    <3>1. k = i + lm /\ s = N * (i - 1) + 1 + ls
      BY <2>1, <2>7
    <3>2. (k - 1) * N = N * (i - 1) + N * lm
      BY <2>1, <2>7, <3>1
    <3>3. N * (i - 1) \in Int /\ N * lm \in Int
      BY <2>1, <2>7
    <3> QED
      BY <2>7, <3>1, <3>2, <3>3
  <2> QED
    BY <2>4, <2>8, <2>9, <2>10, <2>11
<1> QED
  BY <1>1, PlacesInductive, PTL

-----------------------------------------------------------------------------
(* What the pipeline holds, part by part. *)
LEMMA InPipeline ==
    ASSUME NEW p
    PROVE  p \in Pipeline <=>
             \/ \E k \in 1 .. Len(packed) : \E i \in 1 .. Len(packed[k].samples) :
                   p = <<k, i, packed[k].samples[i]>>
             \/ \E i \in 1 .. Len(block) : p = <<Len(packed) + 1, i, block[i]>>
             \/ \E i \in 1 .. Len(dataQueue) : p = <<Len(packed) + 2, i, dataQueue[i]>>
             \/ \E i \in 1 .. Len(<<line>> \o wire) :
                   /\ (<<line>> \o wire)[i].kind = "sample"
                   /\ p = <<Len(packed) + 3, i, (<<line>> \o wire)[i].id>>
<1> DEFINE stage(k, s) == {<<k, i, s[i]>> : i \in 1 .. Len(s)}
           lines == <<line>> \o wire
           recs == UNION {stage(k, packed[k].samples) : k \in 1 .. Len(packed)}
           coming == {<<Len(packed) + 3, i, lines[i].id>> : i \in {j \in 1 .. Len(lines) : lines[j].kind = "sample"}}
<1>1. Pipeline = recs \cup stage(Len(packed) + 1, block) \cup stage(Len(packed) + 2, dataQueue) \cup coming
  BY DEF Pipeline
<1>2. ASSUME NEW k, NEW s
      PROVE  p \in stage(k, s) <=> \E i \in 1 .. Len(s) : p = <<k, i, s[i]>>
  BY Zenon
<1>3. p \in recs <=> \E k \in 1 .. Len(packed) : \E i \in 1 .. Len(packed[k].samples) : p = <<k, i, packed[k].samples[i]>>
  <2>1. p \in recs <=> \E k \in 1 .. Len(packed) : p \in stage(k, packed[k].samples)
    <3> HIDE DEF stage
    <3> QED
      BY Zenon
  <2> HIDE DEF stage, recs
  <2> QED
    BY <1>2, <2>1, Zenon
<1>4. p \in coming <=> \E i \in 1 .. Len(lines) : lines[i].kind = "sample" /\ p = <<Len(packed) + 3, i, lines[i].id>>
  <2> HIDE DEF lines
  <2> QED
    BY Zenon
<1> HIDE DEF stage, recs, coming
<1>5. p \in stage(Len(packed) + 1, block) <=> \E i \in 1 .. Len(block) : p = <<Len(packed) + 1, i, block[i]>>
  BY <1>2, Zenon
<1>6. p \in stage(Len(packed) + 2, dataQueue) <=> \E i \in 1 .. Len(dataQueue) : p = <<Len(packed) + 2, i, dataQueue[i]>>
  BY <1>2, Zenon
<1>7. p \in Pipeline <=> p \in recs \/ p \in stage(Len(packed) + 1, block) \/ p \in stage(Len(packed) + 2, dataQueue) \/ p \in coming
  BY <1>1, Zenon
<1> QED
  BY <1>3, <1>4, <1>5, <1>6, <1>7, Zenon

-----------------------------------------------------------------------------
(* The stages of the pipeline follow each other without a gap: the i-th    *)
(* sample of stage k has place Base(k) + i.                                *)
Stages == 1 .. Len(packed) + 3

Base(k) ==
    IF k <= Len(packed) THEN N * (k - 1)
    ELSE IF k = Len(packed) + 1 THEN N * Len(packed)
    ELSE IF k = Len(packed) + 2 THEN N * Len(packed) + Len(block)
    ELSE SamplesIn

Size(k) ==
    IF k <= Len(packed) THEN N
    ELSE IF k = Len(packed) + 1 THEN Len(block)
    ELSE IF k = Len(packed) + 2 THEN Len(dataQueue)
    ELSE 1

LEMMA StagesFollow ==
    ASSUME TypeOK, NEW k \in Stages, NEW m \in Stages, k < m
    PROVE  /\ Base(k) \in Nat /\ Size(k) \in Nat /\ Base(m) \in Nat
           /\ Base(k) + Size(k) <= Base(m)
<1>1. /\ N \in Nat \ {0} /\ Len(packed) \in Nat /\ Len(block) \in Nat /\ Len(dataQueue) \in Nat
      /\ k \in Nat /\ m \in Nat /\ k >= 1
  BY Counts DEF Stages
<1>2. PICK whole \in Nat : whole = N * Len(packed)
  BY <1>1
<1>3. SamplesIn = whole + Len(block) + Len(dataQueue)
  BY <1>2 DEF SamplesIn
<1>4. CASE k <= Len(packed)
  <2>1. N * (k - 1) \in Nat /\ N * (k - 1) + N = N * k
    BY <1>1
  <2>2. N * k <= whole
    BY <1>1, <1>2, <1>4
  <2>3. CASE m <= Len(packed)
    <3>1. k <= m - 1 /\ m - 1 \in Nat
      BY <1>1
    <3>2. N * k <= N * (m - 1) /\ N * (m - 1) \in Nat
      BY <1>1, <3>1
    <3>3. Base(k) = N * (k - 1) /\ Size(k) = N /\ Base(m) = N * (m - 1)
      BY <1>4, <2>3 DEF Base, Size
    <3> QED
      BY <1>1, <2>1, <3>2, <3>3
  <2>4. CASE m > Len(packed)
    <3>1. Base(m) \in Nat /\ Base(m) >= whole
      BY <1>1, <1>2, <1>3, <2>4 DEF Base
    <3>2. Base(k) = N * (k - 1) /\ Size(k) = N
      BY <1>4 DEF Base, Size
    <3> QED
      BY <1>1, <2>1, <2>2, <3>1, <3>2
  <2> QED
    BY <1>1, <2>3, <2>4
<1>5. CASE k > Len(packed)
  <2>1. /\ m > Len(packed) + 1 /\ m <= Len(packed) + 3 /\ k < Len(packed) + 3
    BY <1>1, <1>5 DEF Stages
  <2>2. CASE k = Len(packed) + 1
    <3>1. Base(k) = whole /\ Size(k) = Len(block)
      BY <1>1, <1>2, <2>2 DEF Base, Size
    <3>2. CASE m = Len(packed) + 2
      <4>1. Base(m) = whole + Len(block)
        BY <1>1, <1>2, <3>2 DEF Base
      <4> QED
        BY <1>1, <3>1, <4>1
    <3>3. CASE m = Len(packed) + 3
      <4>1. Base(m) = SamplesIn
        BY <1>1, <3>3 DEF Base
      <4> QED
        BY <1>1, <1>3, <3>1, <4>1
    <3> QED
      BY <1>1, <2>1, <3>2, <3>3
  <2>3. CASE k = Len(packed) + 2
    BY <1>1, <1>2, <1>3, <2>1, <2>3 DEF Base, Size
  <2> QED
    BY <1>1, <1>5, <2>1, <2>2, <2>3
<1> QED
  BY <1>1, <1>4, <1>5

(* A sample of the pipeline is past the wire, in its place, or on it.      *)
Passed(p, a) ==
    /\ p[1] \in Stages /\ p[2] \in 1 .. Size(p[1])
    /\ <<p[3], Base(p[1]) + p[2]>> \in Places("sample", a)

Coming(p) ==
    /\ p[1] = Len(packed) + 3 /\ p[2] - 1 \in 1 .. Len(wire) /\ p[2] \in Nat
    /\ wire[p[2] - 1].kind = "sample" /\ p[3] = wire[p[2] - 1].id

LEMMA LinesUnderWay ==
    ASSUME TypeOK
    PROVE  /\ Len(<<line>> \o wire) = Len(wire) + 1
           /\ (<<line>> \o wire)[1] = line
           /\ \A j \in 1 .. Len(wire) : (<<line>> \o wire)[j + 1] = wire[j]
<1> DEFINE s == <<line>>
           S == Lines \cup {NoLine}
<1>1. s \in Seq(S) /\ wire \in Seq(S) /\ Len(s) = 1 /\ s[1] = line /\ Len(wire) \in Nat
  BY LenProperties DEF TypeOK
<1> HIDE DEF s, S
<1>2. /\ Len(s \o wire) = Len(s) + Len(wire)
      /\ \A i \in 1 .. Len(s) + Len(wire) :
            (s \o wire)[i] = IF i <= Len(s) THEN s[i] ELSE wire[i - Len(s)]
  BY <1>1, ConcatProperties
<1>3. \A j \in 1 .. Len(wire) : j + 1 \in 1 .. 1 + Len(wire) /\ ~(j + 1 <= 1) /\ (j + 1) - 1 = j
  BY <1>1
<1>4. 1 \in 1 .. 1 + Len(wire)
  BY <1>1
<1>5. (s \o wire)[1] = line /\ Len(s \o wire) = Len(wire) + 1
  BY <1>1, <1>2, <1>4
<1>6. ASSUME NEW j \in 1 .. Len(wire) PROVE (s \o wire)[j + 1] = wire[j]
  BY <1>1, <1>2, <1>3
<1> QED
  BY <1>5, <1>6 DEF s

LEMMA PipelineParts ==
    ASSUME TypeOK, NEW a \in Nat, SamplePlaces(a), NEW p \in Pipeline
    PROVE  Passed(p, a) \/ Coming(p)
<1>1. /\ Len(packed) \in Nat /\ Len(block) \in Nat /\ Len(dataQueue) \in Nat /\ Len(wire) \in Nat
      /\ N \in Nat \ {0}
  BY Counts
<1>2. CASE \E k \in 1 .. Len(packed) : \E i \in 1 .. Len(packed[k].samples) : p = <<k, i, packed[k].samples[i]>>
  <2>0. PICK k \in 1 .. Len(packed) : \E i \in 1 .. Len(packed[k].samples) : p = <<k, i, packed[k].samples[i]>>
    BY <1>2
  <2>1. PICK i \in 1 .. Len(packed[k].samples) : p = <<k, i, packed[k].samples[i]>>
    BY <2>0
  <2>2. i \in 1 .. N /\ <<packed[k].samples[i], N * (k - 1) + i>> \in Places("sample", a)
    BY <2>1 DEF SamplePlaces
  <2>3. k \in Stages /\ Size(k) = N /\ Base(k) = N * (k - 1)
    BY <1>1 DEF Stages, Size, Base
  <2> QED
    BY <2>1, <2>2, <2>3 DEF Passed
<1>3. CASE \E i \in 1 .. Len(block) : p = <<Len(packed) + 1, i, block[i]>>
  <2>1. PICK i \in 1 .. Len(block) : p = <<Len(packed) + 1, i, block[i]>>
    BY <1>3
  <2>2. <<block[i], N * Len(packed) + i>> \in Places("sample", a)
    BY DEF SamplePlaces
  <2>3. /\ Len(packed) + 1 \in Stages /\ Size(Len(packed) + 1) = Len(block)
        /\ Base(Len(packed) + 1) = N * Len(packed)
    BY <1>1 DEF Stages, Size, Base
  <2> QED
    BY <2>1, <2>2, <2>3 DEF Passed
<1>4. CASE \E i \in 1 .. Len(dataQueue) : p = <<Len(packed) + 2, i, dataQueue[i]>>
  <2>1. PICK i \in 1 .. Len(dataQueue) : p = <<Len(packed) + 2, i, dataQueue[i]>>
    BY <1>4
  <2>2. <<dataQueue[i], N * Len(packed) + Len(block) + i>> \in Places("sample", a)
    BY DEF SamplePlaces
  <2>3. /\ Len(packed) + 2 \in Stages /\ Size(Len(packed) + 2) = Len(dataQueue)
        /\ Base(Len(packed) + 2) = N * Len(packed) + Len(block)
    BY <1>1 DEF Stages, Size, Base
  <2> QED
    BY <2>1, <2>2, <2>3 DEF Passed
<1> DEFINE lines == <<line>> \o wire
<1>5. CASE \E i \in 1 .. Len(lines) : lines[i].kind = "sample" /\ p = <<Len(packed) + 3, i, lines[i].id>>
  <2>1. PICK i \in 1 .. Len(lines) : lines[i].kind = "sample" /\ p = <<Len(packed) + 3, i, lines[i].id>>
    BY <1>5
  <2>2. Len(lines) = Len(wire) + 1 /\ lines[1] = line /\ \A j \in 1 .. Len(wire) : lines[j + 1] = wire[j]
    BY LinesUnderWay
  <2> HIDE DEF lines
  <2>3. CASE i = 1
    <3>1. <<line.id, SamplesIn + 1>> \in Places("sample", a)
      BY <2>1, <2>2, <2>3 DEF SamplePlaces
    <3>2. /\ Len(packed) + 3 \in Stages /\ Size(Len(packed) + 3) = 1
          /\ Base(Len(packed) + 3) = SamplesIn
      BY <1>1 DEF Stages, Size, Base
    <3> QED
      BY <2>1, <2>2, <2>3, <3>1, <3>2 DEF Passed
  <2>4. CASE i # 1
    <3>1. i - 1 \in 1 .. Len(wire) /\ (i - 1) + 1 = i /\ i \in Nat
      BY <1>1, <2>1, <2>2, <2>4
    <3>2. lines[i] = wire[i - 1]
      BY <2>2, <3>1
    <3> QED
      BY <2>1, <3>1, <3>2 DEF Coming
  <2> QED
    BY <2>3, <2>4
<1> QED
  BY <1>2, <1>3, <1>4, <1>5, InPipeline

(* Whatever is in its place, or on the wire, is in the pipeline. *)
LEMMA PlaceFilled ==
    ASSUME TypeOK, NEW a \in Nat, SamplePlaces(a), NEW r \in 1 .. Rank("sample", a)
    PROVE  \E p \in Pipeline : <<p[3], r>> \in Places("sample", a)
<1>1. /\ Len(packed) \in Nat /\ Len(block) \in Nat /\ Len(dataQueue) \in Nat /\ Len(wire) \in Nat
      /\ N \in Nat \ {0} /\ r \in Nat /\ r >= 1
  BY Counts, RankNat
<1>2. PICK whole \in Nat : whole = N * Len(packed)
  BY <1>1
<1>3. r <= whole + Len(block) + Len(dataQueue) + Held("sample")
  BY <1>1, <1>2, RankNat DEF SamplePlaces, SamplesIn, Held
<1>4. CASE r <= whole
  <2> DEFINE k == ((r - 1) \div N) + 1
             i == ((r - 1) % N) + 1
  <2>1. /\ k \in 1 .. Len(packed) /\ i \in 1 .. N /\ r = N * (k - 1) + i
    <3>1. PICK d, e : d = (r - 1) \div N /\ e = (r - 1) % N
      OBVIOUS
    <3>2. /\ d \in Int /\ e \in Int /\ 0 <= e /\ e < N /\ r - 1 = N * d + e
      BY <1>1, <3>1
    <3>3. d >= 0
      <4>1. SUFFICES ASSUME d <= -1 PROVE FALSE
        BY <3>2
      <4>2. N * d <= N * (-1)
        BY <1>1, <3>2, <4>1
      <4> QED
        BY <1>1, <3>2, <4>2
    <3>4. d < Len(packed)
      <4>1. SUFFICES ASSUME d >= Len(packed) PROVE FALSE
        BY <1>1, <3>2
      <4>2. N * d >= N * Len(packed)
        BY <1>1, <3>2, <4>1
      <4> QED
        BY <1>1, <1>2, <1>4, <3>2, <4>2
    <3>5. k = d + 1 /\ i = e + 1
      BY <3>1
    <3> HIDE DEF k, i
    <3> QED
      BY <1>1, <3>2, <3>3, <3>4, <3>5
  <2> HIDE DEF k, i
  <2>2. <<packed[k].samples[i], r>> \in Places("sample", a) /\ Len(packed[k].samples) = N
    BY <2>1 DEF SamplePlaces
  <2>3. <<k, i, packed[k].samples[i]>> \in Pipeline
    BY <2>1, <2>2, InPipeline
  <2> QED
    BY <2>2, <2>3
<1>5. CASE r > whole /\ r <= whole + Len(block)
  <2>1. PICK i \in 1 .. Len(block) : r = whole + i
    <3>1. r - whole \in 1 .. Len(block) /\ r = whole + (r - whole)
      BY <1>1, <1>5
    <3> QED
      BY <3>1
  <2>2. <<Len(packed) + 1, i, block[i]>> \in Pipeline
    BY InPipeline
  <2>3. <<block[i], r>> \in Places("sample", a)
    BY <1>2, <2>1 DEF SamplePlaces
  <2> QED
    BY <2>2, <2>3
<1>6. CASE r > whole + Len(block) /\ r <= whole + Len(block) + Len(dataQueue)
  <2>1. PICK i \in 1 .. Len(dataQueue) : r = whole + Len(block) + i
    <3>1. /\ r - (whole + Len(block)) \in 1 .. Len(dataQueue)
          /\ r = whole + Len(block) + (r - (whole + Len(block)))
      BY <1>1, <1>6
    <3> QED
      BY <3>1
  <2>2. <<Len(packed) + 2, i, dataQueue[i]>> \in Pipeline
    BY InPipeline
  <2>3. <<dataQueue[i], r>> \in Places("sample", a)
    BY <1>2, <2>1 DEF SamplePlaces
  <2> QED
    BY <2>2, <2>3
<1>7. CASE r > whole + Len(block) + Len(dataQueue)
  <2>1. line.kind = "sample" /\ r = SamplesIn + 1
    BY <1>1, <1>2, <1>3, <1>7 DEF Held, SamplesIn
  <2> DEFINE lines == <<line>> \o wire
  <2>2. Len(lines) = Len(wire) + 1 /\ lines[1] = line
    BY LinesUnderWay
  <2>3. 1 \in 1 .. Len(lines)
    BY <1>1, <2>2
  <2>4. <<Len(packed) + 3, 1, lines[1].id>> \in Pipeline
    BY <2>1, <2>2, <2>3, InPipeline
  <2>5. <<line.id, r>> \in Places("sample", a)
    BY <2>1 DEF SamplePlaces
  <2> QED
    BY <2>2, <2>4, <2>5
<1>8. r \in Int /\ whole \in Int /\ Len(block) \in Int /\ Len(dataQueue) \in Int
  BY <1>1
<1>9. \/ r <= whole
      \/ r > whole /\ r <= whole + Len(block)
      \/ r > whole + Len(block) /\ r <= whole + Len(block) + Len(dataQueue)
      \/ r > whole + Len(block) + Len(dataQueue)
  BY <1>8
<1> QED
  BY <1>4, <1>5, <1>6, <1>7, <1>9

(* No interleaving of the threads drops, repeats or swaps samples, for any *)
(* block size and whatever is lost on the line (queue.c, main.c:           *)
(* read_serial_buffer, msrecord.c: process_data).                          *)
THEOREM NoSampleAstray == Spec => []SamplesConserved
<1>1. IInv => SamplesConserved
  <2> SUFFICES ASSUME IInv PROVE SamplesConserved
    OBVIOUS
  <2>1. TypeOK /\ produced \in Nat
    BY Counts DEF IInv, Inv
  <2>2. PICK a \in Nat : Frontier("sample", a) /\ SamplePlaces(a)
    BY DEF IInv, SamplesPlaced
  <2>3. PrintedLast("sample") = produced /\ a <= produced
    BY <2>2 DEF PrintedLast, Frontier
  <2>4. \A n : LineOf("sample", n) = Sample(n)
    BY DEF LineOf, Sample
  <2>5. /\ \A j \in 1 .. Len(wire) : wire[j].kind = "sample" =>
              wire[j].id \in a + 1 .. produced /\ wire[j] \notin lost /\ wire[j] = Sample(wire[j].id)
        /\ \A i, j \in 1 .. Len(wire) :
              i < j /\ wire[i].kind = "sample" /\ wire[j].kind = "sample" => wire[i].id < wire[j].id
        /\ \A m \in a + 1 .. produced :
              Sample(m) \in lost \/ \E j \in 1 .. Len(wire) : wire[j] = Sample(m)
    <3>1. \A j \in 1 .. Len(wire) : wire[j].kind = "sample" => wire[j] = Sample(wire[j].id)
      <4>1. \A j \in 1 .. Len(wire) : wire[j] \in Lines
        BY <2>1, ElementOfSeq DEF TypeOK
      <4> QED
        BY <4>1, LinesAre
    <3> QED
      BY <2>2, <2>3, <2>4, <3>1 DEF Frontier
  <2>6. \A n, r : <<n, r>> \in Places("sample", a) =>
            n \in 1 .. a /\ Sample(n) \notin lost /\ Rank("sample", n) = r
    BY <2>4 DEF Places, Kept
  <2>7. ASSUME NEW m \in Nat, NEW n \in Nat, Sample(m) \notin lost, Sample(n) \notin lost
        PROVE  /\ Rank("sample", m) < Rank("sample", n) => m < n
               /\ Rank("sample", m) = Rank("sample", n) => m = n
    <3>1. m < n => Rank("sample", m) < Rank("sample", n)
      BY <2>4, <2>7, RankOrder
    <3>2. n < m => Rank("sample", n) < Rank("sample", m)
      BY <2>4, <2>7, RankOrder
    <3>3. Rank("sample", m) \in Nat /\ Rank("sample", n) \in Nat
      BY RankNat
    <3> QED
      BY <3>1, <3>2, <3>3
  <2>8. ASSUME NEW p \in Pipeline
        PROVE  p[3] \in {n \in 1 .. produced : Sample(n) \notin lost}
    <3>1. CASE Passed(p, a)
      <4>1. p[3] \in 1 .. a /\ Sample(p[3]) \notin lost
        BY <2>6, <3>1 DEF Passed
      <4> QED
        BY <2>1, <2>3, <4>1
    <3>2. CASE Coming(p)
      BY <2>2, <2>3, <2>5, <3>2 DEF Coming
    <3> QED
      BY <2>1, <2>2, <3>1, <3>2, PipelineParts
  <2>9. ASSUME NEW n \in 1 .. produced, Sample(n) \notin lost
        PROVE  \E p \in Pipeline : p[3] = n
    <3>1. CASE n > a
      <4>1. PICK j \in 1 .. Len(wire) : wire[j] = Sample(n)
        BY <2>1, <2>5, <2>9, <3>1
      <4> DEFINE lines == <<line>> \o wire
      <4>2. Len(lines) = Len(wire) + 1 /\ lines[j + 1] = wire[j] /\ Len(wire) \in Nat
        BY <2>1, LinesUnderWay, Counts
      <4> HIDE DEF lines
      <4>3. j + 1 \in 1 .. Len(lines) /\ lines[j + 1].kind = "sample" /\ lines[j + 1].id = n
        BY <4>1, <4>2 DEF Sample
      <4>4. <<Len(packed) + 3, j + 1, lines[j + 1].id>> \in Pipeline
        BY <4>3, InPipeline DEF lines
      <4> QED
        BY <4>3, <4>4
    <3>2. CASE n <= a
      <4>1. n \in Nat /\ n >= 1 /\ Rank("sample", n) \in Nat /\ Rank("sample", a) \in Nat
        BY RankNat
      <4>2. Rank("sample", n) >= 1
        <5>1. Rank("sample", 0) < Rank("sample", n)
          BY <2>4, <2>9, <4>1, RankOrder
        <5> QED
          BY <4>1, <5>1, RankZero
      <4>3. Rank("sample", n) <= Rank("sample", a)
        <5>1. Kept("sample", n) \in SUBSET Kept("sample", a)
          BY <3>2, <4>1 DEF Kept
        <5> QED
          BY <5>1, RankNat, FS_Subset DEF Rank
      <4>4. PICK p \in Pipeline : <<p[3], Rank("sample", n)>> \in Places("sample", a)
        <5>1. Rank("sample", n) \in 1 .. Rank("sample", a)
          BY <4>1, <4>2, <4>3
        <5> QED
          BY <2>1, <2>2, <5>1, PlaceFilled
      <4>5. p[3] \in Nat /\ Sample(p[3]) \notin lost /\ Rank("sample", p[3]) = Rank("sample", n)
        BY <2>6, <4>4
      <4>6. p[3] = n
        BY <2>7, <2>9, <4>1, <4>5
      <4> QED
        BY <4>6
    <3> QED
      BY <2>1, <3>1, <3>2
  <2>10. ASSUME NEW p \in Pipeline, NEW q \in Pipeline, Before(p, q)
         PROVE  p[3] < q[3]
    <3>1. CASE Passed(p, a) /\ Passed(q, a)
      <4>1. PICK k \in Stages, m \in Stages, i \in Nat, j \in Nat :
                /\ k = p[1] /\ i = p[2] /\ m = q[1] /\ j = q[2]
                /\ i \in 1 .. Size(k) /\ j \in 1 .. Size(m)
        BY <3>1 DEF Passed
      <4>2. Base(k) + i < Base(m) + j
        <5>1. CASE k < m
          <6>1. Base(k) \in Nat /\ Size(k) \in Nat /\ Base(m) \in Nat /\ Base(k) + Size(k) <= Base(m)
            BY <2>1, <5>1, StagesFollow
          <6> QED
            BY <4>1, <5>1, <6>1
        <5>2. CASE k = m /\ i < j
          <6>1. Base(k) \in Nat
            <7>1. N \in Nat /\ Len(packed) \in Nat /\ Len(block) \in Nat /\ Len(dataQueue) \in Nat /\ k \in Nat /\ k >= 1
              BY <2>1, Counts DEF Stages
            <7>2. N * (k - 1) \in Nat /\ N * Len(packed) \in Nat
              BY <7>1
            <7>3. SamplesIn \in Nat
              BY <7>1, <7>2 DEF SamplesIn
            <7> QED
              BY <7>1, <7>2, <7>3 DEF Base
          <6> QED
            BY <4>1, <5>2, <6>1
        <5> QED
          BY <2>10, <4>1, <5>1, <5>2 DEF Before
      <4>3. /\ p[3] \in Nat /\ Sample(p[3]) \notin lost /\ Rank("sample", p[3]) = Base(k) + i
            /\ q[3] \in Nat /\ Sample(q[3]) \notin lost /\ Rank("sample", q[3]) = Base(m) + j
        BY <2>6, <3>1, <4>1 DEF Passed
      <4> QED
        BY <2>7, <4>2, <4>3
    <3>2. CASE Passed(p, a) /\ Coming(q)
      BY <2>5, <2>6, <3>2 DEF Passed, Coming
    <3>3. CASE Coming(p) /\ Passed(q, a)
      <4>0. Len(packed) \in Nat /\ Len(wire) \in Nat
        BY <2>1, Counts
      <4>1. /\ q[1] \in Stages /\ q[2] \in 1 .. Size(q[1]) /\ p[2] > 1 /\ p[2] \in Nat
            /\ p[1] = Len(packed) + 3
        BY <3>3, <4>0 DEF Passed, Coming
      <4>2. q[1] = p[1] /\ p[2] < q[2]
        BY <2>10, <4>0, <4>1 DEF Before, Stages
      <4>3. Size(q[1]) = 1
        BY <4>0, <4>1, <4>2 DEF Size
      <4> QED
        BY <4>1, <4>2, <4>3
    <3>4. CASE Coming(p) /\ Coming(q)
      <4>1. Len(packed) \in Nat /\ p[2] < q[2]
        BY <2>1, <2>10, <3>4, Counts DEF Before, Coming
      <4>2. p[2] - 1 < q[2] - 1
        BY <3>4, <4>1 DEF Coming
      <4> QED
        BY <2>5, <3>4, <4>2 DEF Coming
    <3> QED
      BY <2>1, <2>2, <3>1, <3>2, <3>3, <3>4, PipelineParts
  <2> QED
    BY <2>8, <2>9, <2>10 DEF SamplesConserved
<1> QED
  BY <1>1, PlacesInductive, PTL
=============================================================================
