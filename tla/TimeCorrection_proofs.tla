----------------------- MODULE TimeCorrection_proofs -----------------------
(***************************************************************************)
(* At 200 Hz and as long as the clock moves on by a sample period or more  *)
(* between markers, records tile the time axis for every block length,     *)
(* every clock reading and every drift.                                    *)
(***************************************************************************)
EXTENDS TimeCorrection, TLAPS

(* The rate the sketch samples at and config.cfg asks for. *)
Rate200 == SampRate = 200

(* The clock is not set back: successive markers are stamped a sample      *)
(* period or more apart.                                                   *)
ClockMovesOn == \A d \in Advances : d >= SamplePeriod

-----------------------------------------------------------------------------
(* Rounding a clock reading to the grid moves it by less than 3 ms.        *)
LEMMA StampNear ==
    ASSUME NEW r \in Nat
    PROVE  /\ Stamp(r) \in Nat
           /\ Stamp(r) % SamplePeriod = 0
           /\ r - 2999 <= Stamp(r) /\ Stamp(r) <= r + 2000
<1>1. \A a \in Nat : (a \div 1000) * 1000 <= a /\ a < (a \div 1000) * 1000 + 1000 /\ a \div 1000 \in Nat
  BY SMT
<1>2. PICK u \in Nat : Timespec2hptime(r) = 1000 * u /\ 1000 * u <= r /\ r < 1000 * u + 1000
  BY <1>1, SMT DEF Timespec2hptime
<1>3. PICK s \in Nat, m \in 0 .. 999 : u = 1000 * s + m
  <2>1. u = 1000 * (u \div 1000) + (u % 1000) /\ u \div 1000 \in Nat /\ u % 1000 \in 0 .. 999
    BY SMT
  <2> QED
    BY <2>1, SMT
<1>4. ((1000 * u) % HPTMODULUS) \div 1000 = m
  <2>1. (1000 * u) % 1000000 = 1000 * m
    BY <1>3, SMT
  <2> QED
    BY <2>1, SMT DEF HPTMODULUS
<1>5. PICK k \in Nat, x \in 0 .. 4 : m = 5 * k + x
  <2>1. m \in Nat
    BY SMT
  <2>2. m % 5 \in 0 .. 4
    BY <2>1, SMT
  <2>3. m \div 5 \in Nat
    BY <2>1, SMT
  <2>4. m = 5 * (m \div 5) + (m % 5)
    BY <2>1, SMT
  <2> QED
    BY <2>2, <2>3, <2>4, SMT
<1>6. m \div 5 = k /\ (m + 4) \div 5 = IF x = 0 THEN k ELSE k + 1
  BY <1>5, SMT
<1>7. StarttimeCorrection(1000 * u) =
        IF x <= 2 THEN 1000 * u - 1000 * x ELSE 1000 * u + 1000 * (5 - x)
  <2>1. CASE x = 0
    BY <2>1, <1>4, <1>5, <1>6, SMT DEF StarttimeCorrection, AbsDiff
  <2>2. CASE x \in 1 .. 2
    <3>1. AbsDiff(m, k * 5) = x /\ AbsDiff(m, (k + 1) * 5) = 5 - x
      BY <2>2, <1>5, SMT DEF AbsDiff
    <3>2. AbsDiff(m, k * 5) < AbsDiff(m, (k + 1) * 5) /\ ~(AbsDiff(m, (k + 1) * 5) < AbsDiff(m, k * 5))
      BY <3>1, <2>2, SMT
    <3>3. (m + 4) \div 5 = k + 1
      BY <2>2, <1>6, SMT
    <3>4. StarttimeCorrection(1000 * u) = 1000 * u - AbsDiff(m, k * 5) * 1000
      BY <3>2, <3>3, <1>4, <1>6, SMT DEF StarttimeCorrection
    <3> QED
      BY <3>1, <3>4, <2>2, SMT
  <2>3. CASE x \in 3 .. 4
    <3>1. AbsDiff(m, k * 5) = x /\ AbsDiff(m, (k + 1) * 5) = 5 - x
      BY <2>3, <1>5, SMT DEF AbsDiff
    <3>2. AbsDiff(m, (k + 1) * 5) < AbsDiff(m, k * 5)
      BY <3>1, <2>3, SMT
    <3>3. (m + 4) \div 5 = k + 1
      BY <2>3, <1>6, SMT
    <3>4. StarttimeCorrection(1000 * u) = 1000 * u + AbsDiff(m, (k + 1) * 5) * 1000
      BY <3>2, <3>3, <1>4, <1>6, SMT DEF StarttimeCorrection
    <3> QED
      BY <3>1, <3>4, <2>3, SMT
  <2> QED
    BY <2>1, <2>2, <2>3, SMT
<1>8. \E j \in Nat : StarttimeCorrection(1000 * u) = 5000 * j
  <2>1. PICK z \in Nat : z = IF x <= 2 THEN 200 * s + k ELSE 200 * s + k + 1
    BY SMT
  <2>2. CASE x <= 2
    BY <2>1, <2>2, <1>3, <1>5, <1>7, SMT
  <2>3. CASE x > 2
    <3>1. 1000 * u + 1000 * (5 - x) = 5000 * z
      BY <2>1, <2>3, <1>3, <1>5, SMT
    <3>2. StarttimeCorrection(1000 * u) = 5000 * z
      BY <3>1, <2>3, <1>7, SMT
    <3> QED
      BY <3>2, SMT
  <2> QED
    BY <2>2, <2>3, SMT
<1>9. StarttimeCorrection(1000 * u) - 1000 * u \in -2000 .. 2000
  BY <1>5, <1>7, SMT
<1>10. PICK j \in Nat : Stamp(r) = 5000 * j
  BY <1>2, <1>8, SMT DEF Stamp
<1>11. (5000 * j) % 5000 = 0
  BY SMT
<1>12. r - 2999 <= Stamp(r) /\ Stamp(r) <= r + 2000
  <2>1. Stamp(r) - 1000 * u \in -2000 .. 2000
    BY <1>2, <1>9, SMT DEF Stamp
  <2> QED
    BY <2>1, <1>2, <1>10, SMT
<1> QED
  BY <1>10, <1>11, <1>12, SMT DEF SamplePeriod

(* A clock that moves on gives start times that move on. *)
LEMMA StampForward ==
    ASSUME NEW r \in Nat, NEW d \in Int, d >= SamplePeriod
    PROVE  Stamp(r) < Stamp(r + d)
<1>1. r + d \in Nat /\ d >= 5000
  BY SMT DEF SamplePeriod
<1>2. Stamp(r) \in Nat /\ Stamp(r) <= r + 2000
  BY StampNear, SMT
<1>3. Stamp(r + d) \in Nat /\ (r + d) - 2999 <= Stamp(r + d)
  BY <1>1, StampNear, SMT
<1> QED
  BY <1>1, <1>2, <1>3, SMT

(* At 200 Hz the last sample is a whole number of periods after the first. *)
LEMMA EndtimeAt200 ==
    ASSUME Rate200, NEW s \in Nat, NEW n \in Int, n > 0
    PROVE  /\ MsrEndtime(s, n) = s + 5000 * (n - 1)
           /\ MsrEndtime(s, n) \in Nat
<1>1. (2 * (n - 1) * 1000000 + 200) \div (2 * 200) = 5000 * (n - 1)
  BY SMT
<1>2. MsrEndtime(s, n) = s + 5000 * (n - 1)
  BY <1>1, SMT DEF MsrEndtime, Rate200, HPTMODULUS
<1>3. s + 5000 * (n - 1) \in Nat
  BY SMT
<1> QED
  BY <1>2, <1>3

(* On the grid, a record that ends within one period of the next start     *)
(* ends exactly one period before it.                                      *)
LEMMA WindowOnGrid ==
    ASSUME NEW a \in Grid, NEW b \in Grid, NEW n \in Int, NEW e \in Int,
           e = a + 5000 * (n - 1), InWindow(b - e)
    PROVE  a + 5000 * n = b
<1>1. PICK x \in Nat : a = 5000 * x
  <2>1. a \in Nat /\ a % 5000 = 0
    BY DEF Grid, SamplePeriod
  <2>2. a \div 5000 \in Nat /\ a = 5000 * (a \div 5000)
    BY <2>1, SMT
  <2> QED
    BY <2>2, SMT
<1>2. PICK y \in Nat : b = 5000 * y
  <2>1. b \in Nat /\ b % 5000 = 0
    BY DEF Grid, SamplePeriod
  <2>2. b \div 5000 \in Nat /\ b = 5000 * (b \div 5000)
    BY <2>1, SMT
  <2> QED
    BY <2>2, SMT
<1>3. 0 < 5000 * (y - (x + n - 1)) /\ 5000 * (y - (x + n - 1)) <= 5000
  BY <1>1, <1>2, SMT DEF InWindow, SamplePeriod
<1>4. y - (x + n - 1) = 1
  BY <1>3, SMT
<1> QED
  BY <1>1, <1>2, <1>4, SMT

-----------------------------------------------------------------------------
(* Where each phase of a correction stands. *)
Opened ==
    /\ numsamples = NumSamples
    /\ endtime = recStart + 5000 * (NumSamples - 1)

Correcting ==
    /\ recStart < starttime
    /\ numsamples >= 1
    /\ endtime = recStart + 5000 * (numsamples - 1)

Phase ==
    /\ pc = "first" => last = NoRecord /\ numsamples = NumSamples
    /\ pc = "wait" => Opened /\ recStart = starttime
    /\ pc = "correct" => Opened /\ recStart < starttime
    /\ pc = "remove" => Correcting /\ Diff <= 0 /\ numsamples = NumSamples - correction
    /\ pc = "add" => Correcting /\ Diff > SamplePeriod /\ numsamples = NumSamples + correction
    /\ pc = "pack" =>
        /\ recStart < starttime
        /\ recStart + 5000 * numsamples = starttime
        /\ numsamples = NumSamples + correction
    /\ pc \in {"wait", "correct", "remove", "add", "pack"} => starttime = Stamp(reading)

(* The inductive invariant. *)
TInv == TypeOK /\ Phase /\ RecordsTile /\ NeverEmpty /\ StartNearMarker

(* Start times are on the sample grid. *)
LEMMA StampType ==
    ASSUME NEW r \in Nat
    PROVE  Stamp(r) \in Grid
  BY StampNear DEF Grid

(* Before the first marker there is no record and no reading. *)
LEMMA InitTInv ==
    ASSUME Init PROVE TInv
<1> USE RateAssumption, ClockAssumption DEF Init
<1>1. 0 \in Grid
  BY SMT DEF Grid, SamplePeriod
<1>2. TypeOK
  BY <1>1, SMT DEF TypeOK, NoRecord
<1>3. Phase /\ RecordsTile
  BY SMT DEF Phase, RecordsTile, NoRecord
<1>4. NeverEmpty /\ StartNearMarker
  BY SMT DEF NeverEmpty, StartNearMarker
<1> QED
  BY <1>2, <1>3, <1>4 DEF TInv

(* A removal or padding step: what the loop body leaves behind.            *)
LEMMA RemoveKeeps ==
    ASSUME TInv, Rate200, RemoveSample PROVE TInv'
<1>1. /\ recStart \in Grid /\ starttime \in Grid /\ numsamples \in Int /\ correction \in Int
      /\ recStart \in Nat /\ starttime \in Nat
      /\ Correcting /\ Diff <= 0 /\ numsamples = NumSamples - correction
      /\ starttime = Stamp(reading)
  BY SMT DEF TInv, TypeOK, Phase, RemoveSample, Grid
<1>2. NumSamples \in Int
  BY RateAssumption, SMT
<1>3. numsamples >= 2
  BY <1>1, SMT DEF Correcting, Diff
<1>4. numsamples' = numsamples - 1 /\ numsamples' >= 1 /\ numsamples' \in Int
  BY <1>1, <1>3, SMT DEF RemoveSample
<1>5. endtime' = recStart + 5000 * (numsamples' - 1) /\ endtime' \in Nat
  <2>1. endtime' = MsrEndtime(recStart, numsamples') /\ numsamples' > 0
    BY <1>4, SMT DEF RemoveSample
  <2> QED
    BY <2>1, <1>1, <1>4, EndtimeAt200
<1>6. /\ reading' = reading /\ starttime' = starttime /\ recStart' = recStart /\ last' = last
      /\ pc' \in {"remove", "pack"} /\ correction' \in Int
  BY <1>1, SMT DEF RemoveSample
<1>7. TypeOK'
  BY <1>4, <1>5, <1>6 DEF TypeOK, TInv
<1>8. Phase'
  <2>1. CASE InWindow(starttime - endtime')
    <3>1. recStart + 5000 * numsamples' = starttime
      <4>1. /\ recStart \in Grid /\ starttime \in Grid /\ numsamples' \in Int /\ endtime' \in Int
            /\ endtime' = recStart + 5000 * (numsamples' - 1)
        BY <1>1, <1>4, <1>5
      <4> QED
        BY <4>1, <2>1, WindowOnGrid, SMTT(60)
    <3>2. pc' = "pack" /\ correction' = -(correction + 1)
      BY <2>1 DEF RemoveSample
    <3>3. numsamples' = NumSamples + correction'
      BY <3>2, <1>1, <1>2, <1>4, SMT
    <3> QED
      BY <3>1, <3>2, <3>3, <1>1, <1>6 DEF Phase, Correcting
  <2>2. CASE ~InWindow(starttime - endtime')
    <3>1. pc' = "remove" /\ correction' = correction + 1
      BY <2>2 DEF RemoveSample
    <3>2. starttime - endtime' <= 0
      BY <2>2, <1>1, <1>4, <1>5, SMT DEF InWindow, SamplePeriod, Correcting, Diff
    <3>3. numsamples' = NumSamples - correction'
      BY <3>1, <1>1, <1>2, <1>4, SMT
    <3> QED
      BY <3>1, <3>2, <3>3, <1>1, <1>4, <1>5, <1>6 DEF Phase, Correcting, Diff
  <2> QED
    BY <2>1, <2>2
<1>9. RecordsTile' /\ NeverEmpty' /\ StartNearMarker'
  BY <1>4, <1>6 DEF TInv, RecordsTile, NeverEmpty, StartNearMarker
<1> QED
  BY <1>7, <1>8, <1>9 DEF TInv

(* The same for a padding step. *)
LEMMA AddKeeps ==
    ASSUME TInv, Rate200, AddSample PROVE TInv'
<1>1. /\ recStart \in Grid /\ starttime \in Grid /\ numsamples \in Int /\ correction \in Int
      /\ recStart \in Nat /\ starttime \in Nat
      /\ Correcting /\ Diff > SamplePeriod /\ numsamples = NumSamples + correction
      /\ starttime = Stamp(reading)
  BY SMT DEF TInv, TypeOK, Phase, AddSample, Grid
<1>2. NumSamples \in Int
  BY RateAssumption, SMT
<1>3. numsamples >= 1
  BY <1>1 DEF Correcting
<1>4. numsamples' = numsamples + 1 /\ numsamples' >= 1 /\ numsamples' \in Int
  BY <1>1, <1>3, SMT DEF AddSample
<1>5. endtime' = recStart + 5000 * (numsamples' - 1) /\ endtime' \in Nat
  <2>1. endtime' = MsrEndtime(recStart, numsamples') /\ numsamples' > 0
    BY <1>4, SMT DEF AddSample
  <2> QED
    BY <2>1, <1>1, <1>4, EndtimeAt200
<1>6. /\ reading' = reading /\ starttime' = starttime /\ recStart' = recStart /\ last' = last
      /\ pc' \in {"add", "pack"} /\ correction' = correction + 1 /\ correction' \in Int
  BY <1>1, SMT DEF AddSample
<1>7. TypeOK'
  BY <1>4, <1>5, <1>6 DEF TypeOK, TInv
<1>8. numsamples' = NumSamples + correction'
  BY <1>1, <1>2, <1>4, <1>6, SMT
<1>9. Phase'
  <2>1. CASE InWindow(starttime - endtime')
    <3>1. recStart + 5000 * numsamples' = starttime
      <4>1. /\ recStart \in Grid /\ starttime \in Grid /\ numsamples' \in Int /\ endtime' \in Int
            /\ endtime' = recStart + 5000 * (numsamples' - 1)
        BY <1>1, <1>4, <1>5
      <4> QED
        BY <4>1, <2>1, WindowOnGrid, SMTT(60)
    <3>2. pc' = "pack"
      BY <2>1 DEF AddSample
    <3> QED
      BY <3>1, <3>2, <1>1, <1>6, <1>8 DEF Phase, Correcting
  <2>2. CASE ~InWindow(starttime - endtime')
    <3>1. pc' = "add"
      BY <2>2 DEF AddSample
    <3>2. starttime - endtime' > SamplePeriod
      BY <2>2, <1>1, <1>4, <1>5, SMT DEF InWindow, SamplePeriod, Correcting, Diff
    <3> QED
      BY <3>1, <3>2, <1>1, <1>4, <1>5, <1>6, <1>8 DEF Phase, Correcting, Diff
  <2> QED
    BY <2>1, <2>2
<1>10. RecordsTile' /\ NeverEmpty' /\ StartNearMarker'
  BY <1>4, <1>6 DEF TInv, RecordsTile, NeverEmpty, StartNearMarker
<1> QED
  BY <1>7, <1>9, <1>10 DEF TInv

(* Choosing the branch of the correction. *)
LEMMA EnterKeeps ==
    ASSUME TInv, Rate200, EnterRemove \/ RemoveOne \/ EnterAdd \/ NoCorrection PROVE TInv'
<1>1. /\ recStart \in Grid /\ starttime \in Grid /\ recStart \in Nat /\ starttime \in Nat
      /\ pc = "correct" /\ Opened /\ recStart < starttime /\ starttime = Stamp(reading)
      /\ endtime \in Nat /\ numsamples \in Int
  BY SMT DEF TInv, TypeOK, Phase, EnterRemove, RemoveOne, EnterAdd, NoCorrection, Grid
<1>2. NumSamples \in Int /\ NumSamples >= 1
  BY RateAssumption, SMT
<1>3. Diff = starttime - (recStart + 5000 * (NumSamples - 1)) /\ Diff \in Int
  BY <1>1, <1>2, SMT DEF Opened, Diff
<1>4. /\ reading' = reading /\ starttime' = starttime /\ recStart' = recStart /\ last' = last
      /\ endtime' = endtime /\ correction' \in Int /\ numsamples' \in Int
      /\ pc' \in {"remove", "add", "pack"}
  BY <1>1, SMT DEF EnterRemove, RemoveOne, EnterAdd, NoCorrection
<1>5. TypeOK'
  BY <1>4 DEF TypeOK, TInv
<1>6. Phase' /\ NeverEmpty'
  <2>1. CASE EnterRemove
    <3>1. Diff <= 0 /\ pc' = "remove" /\ correction' = 0 /\ numsamples' = numsamples
      BY <2>1, <1>3, SMT DEF EnterRemove
    <3>2. numsamples' = NumSamples - correction' /\ numsamples' >= 1
      BY <3>1, <1>1, <1>2, SMT DEF Opened
    <3> QED
      BY <3>1, <3>2, <1>1, <1>4 DEF Phase, Correcting, Opened, Diff, NeverEmpty
  <2>2. CASE EnterAdd
    <3>1. Diff > SamplePeriod /\ pc' = "add" /\ correction' = 0 /\ numsamples' = numsamples
      BY <2>2 DEF EnterAdd
    <3>2. numsamples' = NumSamples + correction' /\ numsamples' >= 1
      BY <3>1, <1>1, <1>2, SMT DEF Opened
    <3> QED
      BY <3>1, <3>2, <1>1, <1>4 DEF Phase, Correcting, Opened, Diff, NeverEmpty
  <2>3. CASE RemoveOne
    <3>1. Diff = 0 /\ pc' = "pack" /\ correction' = -1 /\ numsamples' = NumSamples - 1
      BY <2>3, <1>1 DEF RemoveOne, Opened
    <3>2. recStart + 5000 * numsamples' = starttime
      BY <3>1, <1>1, <1>2, <1>3, SMT
    <3>3. numsamples' = NumSamples + correction' /\ numsamples' >= 1
      BY <3>1, <3>2, <1>1, <1>2, SMT
    <3> QED
      BY <3>1, <3>2, <3>3, <1>1, <1>4 DEF Phase, NeverEmpty
  <2>4. CASE NoCorrection
    <3>1. InWindow(Diff) /\ pc' = "pack" /\ correction' = 0 /\ numsamples' = NumSamples
      BY <2>4, <1>1, <1>3, SMT DEF NoCorrection, Opened, InWindow, SamplePeriod
    <3>2. recStart + 5000 * numsamples' = starttime
      <4>1. /\ endtime = recStart + 5000 * (NumSamples - 1) /\ endtime \in Int
            /\ InWindow(starttime - endtime)
            /\ recStart \in Grid /\ starttime \in Grid /\ NumSamples \in Int
        BY <3>1, <1>1, <1>2 DEF Opened, Diff
      <4>2. recStart + 5000 * NumSamples = starttime
        BY <4>1, WindowOnGrid, SMTT(60)
      <4> QED
        BY <4>2, <3>1
    <3>3. numsamples' = NumSamples + correction' /\ numsamples' >= 1
      BY <3>1, <1>2, SMT
    <3> QED
      BY <3>1, <3>2, <3>3, <1>1, <1>4 DEF Phase, NeverEmpty
  <2> QED
    BY <2>1, <2>2, <2>3, <2>4
<1>7. RecordsTile' /\ StartNearMarker'
  BY <1>4 DEF TInv, RecordsTile, StartNearMarker
<1> QED
  BY <1>5, <1>6, <1>7 DEF TInv

(* A marker opens or closes a record. *)
LEMMA MarkerKeeps ==
    ASSUME TInv, Rate200, ClockMovesOn, FirstMarker \/ NextMarker PROVE TInv'
<1>1. NumSamples \in Int /\ NumSamples >= 1
  BY RateAssumption, SMT
<1>2. CASE FirstMarker
  <2>1. PICK r \in Nat : reading' = r /\ starttime' = Stamp(r)
    BY <1>2, ClockAssumption DEF FirstMarker
  <2>2. /\ recStart' = starttime' /\ pc' = "wait" /\ numsamples' = numsamples
        /\ correction' = correction /\ last' = last /\ last = NoRecord
        /\ numsamples = NumSamples
        /\ endtime' = MsrEndtime(starttime', numsamples)
    BY <1>2 DEF FirstMarker, TInv, Phase
  <2>3. /\ Stamp(r) \in Grid /\ Stamp(r) \in Nat
        /\ r - 2999 <= Stamp(r) /\ Stamp(r) <= r + 2000
    BY StampType, StampNear
  <2>4. endtime' = recStart' + 5000 * (NumSamples - 1) /\ endtime' \in Nat
    <3>1. NumSamples > 0
      BY <1>1, SMT
    <3> QED
      BY <3>1, <2>1, <2>2, <2>3, <1>1, EndtimeAt200
  <2>5. TypeOK'
    BY <2>1, <2>2, <2>3, <2>4 DEF TInv, TypeOK
  <2>6. Phase'
    BY <2>1, <2>2, <2>4 DEF Phase, Opened
  <2>7. RecordsTile' /\ NeverEmpty' /\ StartNearMarker'
    BY <2>1, <2>2, <2>3, <1>1 DEF RecordsTile, NeverEmpty, StartNearMarker
  <2> QED
    BY <2>5, <2>6, <2>7 DEF TInv
<1>3. CASE NextMarker
  <2>1. PICK d \in Int : /\ d >= SamplePeriod
                         /\ reading' = reading + d
                         /\ starttime' = Stamp(reading + d)
    BY <1>3, ClockAssumption DEF NextMarker, ClockMovesOn
  <2>2. /\ pc = "wait" /\ pc' = "correct" /\ recStart' = recStart /\ numsamples' = numsamples
        /\ endtime' = endtime /\ correction' = correction /\ last' = last
        /\ Opened /\ recStart = starttime /\ starttime = Stamp(reading) /\ reading \in Nat
    BY <1>3 DEF NextMarker, TInv, Phase, TypeOK
  <2>3. reading' \in Nat
    BY <2>1, <2>2, SMT DEF SamplePeriod
  <2>4. /\ starttime' \in Grid
        /\ reading' - 2999 <= starttime' /\ starttime' <= reading' + 2000
    BY <2>1, <2>3, StampType, StampNear
  <2>5. recStart' < starttime'
    BY <2>1, <2>2, StampForward
  <2>6. TypeOK'
    BY <2>2, <2>3, <2>4 DEF TInv, TypeOK
  <2>7. Phase'
    BY <2>1, <2>2, <2>5 DEF Phase, Opened
  <2>8. RecordsTile' /\ NeverEmpty' /\ StartNearMarker'
    BY <2>2, <2>4 DEF TInv, RecordsTile, NeverEmpty, StartNearMarker
  <2> QED
    BY <2>6, <2>7, <2>8 DEF TInv
<1> QED
  BY <1>2, <1>3

(* Packing: the record abuts the next one, which starts with full length. *)
LEMMA PackKeeps ==
    ASSUME TInv, Rate200, PackBlock PROVE TInv'
<1>1. /\ starttime \in Grid /\ starttime \in Nat /\ recStart \in Grid
      /\ recStart + 5000 * numsamples = starttime /\ starttime = Stamp(reading)
      /\ numsamples \in Int
  BY SMT DEF TInv, TypeOK, Phase, PackBlock, Grid
<1>2. NumSamples \in Int /\ NumSamples >= 1
  BY RateAssumption, SMT
<1>3. /\ recStart' = starttime /\ starttime' = starttime /\ numsamples' = NumSamples
      /\ pc' = "wait" /\ reading' = reading /\ correction' = correction
      /\ last' = [start |-> recStart, numsamples |-> numsamples]
      /\ endtime' = MsrEndtime(starttime, NumSamples)
  BY DEF PackBlock
<1>4. endtime' = recStart' + 5000 * (NumSamples - 1) /\ endtime' \in Nat
  <2>1. NumSamples > 0
    BY <1>2, SMT
  <2> QED
    BY <2>1, <1>1, <1>2, <1>3, EndtimeAt200
<1>5. TypeOK'
  BY <1>1, <1>2, <1>3, <1>4 DEF TInv, TypeOK
<1>6. Phase'
  BY <1>1, <1>3, <1>4 DEF Phase, Opened
<1>7. RecordsTile'
  BY <1>1, <1>3, SMT DEF RecordsTile, SamplePeriod
<1>8. NeverEmpty' /\ StartNearMarker'
  BY <1>2, <1>3 DEF TInv, NeverEmpty, StartNearMarker
<1> QED
  BY <1>5, <1>6, <1>7, <1>8 DEF TInv

(* A key press between blocks changes nothing but the position. *)
LEMMA StopKeeps ==
    ASSUME TInv, Stop \/ UNCHANGED vars PROVE TInv'
<1>1. CASE Stop
  BY <1>1 DEF Stop, TInv, TypeOK, Phase, Opened, Correcting, Diff, RecordsTile, NeverEmpty,
              StartNearMarker
<1>2. CASE UNCHANGED vars
  BY <1>2 DEF vars, TInv, TypeOK, Phase, Opened, Correcting, Diff, RecordsTile, NeverEmpty,
              StartNearMarker
<1> QED
  BY <1>1, <1>2

(* No step leaves the invariant, at 200 Hz and with a clock that moves on. *)
LEMMA StepTInv == Rate200 /\ ClockMovesOn /\ TInv /\ [Next]_vars => TInv'
  BY RemoveKeeps, AddKeeps, EnterKeeps, MarkerKeeps, PackKeeps, StopKeeps
     DEF Next, Correct, Stopped

-----------------------------------------------------------------------------
(* The inductive invariant of process_data and time_correction holds at    *)
(* 200 Hz as long as any two markers are 5 ms or more of clock time apart. *)
THEOREM CorrectionInvariance ==
    ASSUME Rate200, ClockMovesOn
    PROVE  Spec => []TInv
<1>1. Init => TInv
  BY InitTInv
<1>2. TInv /\ [Next]_vars => TInv'
  BY StepTInv
<1> QED
  BY <1>1, <1>2, PTL DEF Spec

(* Whatever the drift between the board's crystal and the clock, and       *)
(* however many markers are lost, archived records follow each other       *)
(* without gap or overlap.                                                 *)
THEOREM GaplessRecords ==
    ASSUME Rate200, ClockMovesOn
    PROVE  Spec => []RecordsTile
<1>1. TInv => RecordsTile
  BY DEF TInv
<1> QED
  BY <1>1, CorrectionInvariance, PTL

(* A correction never trims a record away, and the arrays are allocated    *)
(* as long as they are indexed.                                            *)
THEOREM RecordsKeepSamples ==
    ASSUME Rate200, ClockMovesOn
    PROVE  Spec => [](NeverEmpty /\ ArraysFit)
<1>1. TInv => NeverEmpty /\ ArraysFit
  BY DEF TInv, Phase, ArraysFit
<1> QED
  BY <1>1, CorrectionInvariance, PTL

(* Start times are always on the sample grid and the record's counters     *)
(* keep their types.                                                       *)
THEOREM TypeCorrect ==
    ASSUME Rate200, ClockMovesOn
    PROVE  Spec => []TypeOK
<1>1. TInv => TypeOK
  BY DEF TInv
<1> QED
  BY <1>1, CorrectionInvariance, PTL

(* Start times are within 3 ms of the clock. *)
THEOREM StartsNearMarkers ==
    ASSUME Rate200, ClockMovesOn
    PROVE  Spec => []StartNearMarker
<1>1. TInv => StartNearMarker
  BY DEF TInv
<1> QED
  BY <1>1, CorrectionInvariance, PTL

-----------------------------------------------------------------------------
(* The clock may now do what it likes, and the rate be any.  A removal     *)
(* loop that has come down to one sample has seen the window missed.       *)
Looping ==
    /\ starttime \in Grid /\ recStart \in Grid
    /\ numsamples \in Int
    /\ pc \in {"first", "wait", "correct", "remove", "add", "pack", "stopped"}
    /\ pc \in {"first", "wait", "correct"} => numsamples = NumSamples
    /\ pc = "remove" /\ numsamples < 2 => ~InWindow(starttime - recStart)
    /\ numsamples < 1 => pc = "remove"

(* One sample, or none, ends where it starts. *)
LEMMA EndtimeOfOne ==
    ASSUME NEW s \in Nat, NEW n \in Int, n < 2
    PROVE  MsrEndtime(s, n) = s
<1>1. CASE n = 1
  <2>1. 2 * (n - 1) * HPTMODULUS + SampRate = SampRate /\ SampRate \in Nat \ {0}
    BY <1>1, RateAssumption, SMT DEF HPTMODULUS
  <2>2. PICK d \in Nat : d = 2 * SampRate /\ d > SampRate
    BY <2>1, SMT
  <2>3. SampRate \div d = 0
    BY <2>1, <2>2, SMT
  <2> QED
    BY <1>1, <2>1, <2>2, <2>3, SMT DEF MsrEndtime
<1>2. CASE n < 1
  <2>1. ~(n > 0)
    BY <1>2, SMT
  <2> QED
    BY <2>1, SMT DEF MsrEndtime
<1> QED
  BY <1>1, <1>2, SMT

(* One removal, at any rate. *)
LEMMA RemoveLoops ==
    ASSUME Looping, RemoveSample
    PROVE  Looping' /\ (numsamples < 1 => pc' = "remove")
<1>1. /\ recStart \in Nat /\ pc = "remove" /\ numsamples \in Int
      /\ starttime' = starttime /\ recStart' = recStart
      /\ numsamples' = numsamples - 1 /\ numsamples' \in Int
      /\ endtime' = MsrEndtime(recStart, numsamples')
  BY SMT DEF Looping, RemoveSample, Grid
<1>2. \/ pc' = "pack" /\ InWindow(starttime - endtime')
      \/ pc' = "remove" /\ ~InWindow(starttime - endtime')
  BY DEF RemoveSample
<1>3. numsamples' < 2 => endtime' = recStart
  BY <1>1, EndtimeOfOne
<1>4. numsamples < 2 => pc' = "remove"
  <2>1. numsamples < 2 => numsamples' < 2
    BY <1>1, SMT
  <2> QED
    BY <1>1, <1>2, <1>3, <2>1 DEF Looping
<1>5. (numsamples < 1 => numsamples < 2) /\ (numsamples' < 1 => numsamples < 2)
  BY <1>1, SMT
<1> QED
  BY <1>1, <1>2, <1>3, <1>4, <1>5 DEF Looping

(* Every other step leaves a record of at least one sample. *)
LEMMA OthersKeepLooping ==
    ASSUME NumSamples >= 2, Looping, [Next]_vars, ~RemoveSample
    PROVE  Looping' /\ (numsamples < 1 => UNCHANGED pc)
<1>1. /\ NumSamples \in Nat
      /\ ~(NumSamples < 2) /\ ~(NumSamples < 1) /\ ~(NumSamples - 1 < 1)
  BY RateAssumption, SMT
<1>2. CASE FirstMarker
  <2>1. starttime' \in Grid
    BY <1>2, ClockAssumption, StampType DEF FirstMarker
  <2> QED
    BY <1>1, <1>2, <2>1 DEF FirstMarker, Looping
<1>3. CASE NextMarker
  <2>1. starttime' \in Grid
    <3>1. PICK d \in Advances : reading + d \in 1 .. LastReading /\ starttime' = Stamp(reading + d)
      BY <1>3 DEF NextMarker
    <3>2. reading + d \in Nat
      BY <3>1, ClockAssumption, SMT
    <3> QED
      BY <3>1, <3>2, StampType
  <2> QED
    BY <1>1, <1>3, <2>1 DEF NextMarker, Looping
<1>4. CASE EnterRemove \/ EnterAdd \/ NoCorrection
  BY <1>1, <1>4 DEF EnterRemove, EnterAdd, NoCorrection, Looping
<1>5. CASE RemoveOne
  <2>1. numsamples' = NumSamples - 1 /\ numsamples' \in Int /\ ~(numsamples' < 1)
    BY <1>1, <1>5, SMT DEF RemoveOne, Looping
  <2> QED
    BY <1>1, <1>5, <2>1 DEF RemoveOne, Looping
<1>6. CASE AddSample
  <2>1. ~(numsamples < 1) /\ numsamples' = numsamples + 1 /\ pc' \in {"add", "pack"}
    BY <1>6 DEF AddSample, Looping
  <2>2. numsamples' \in Int /\ ~(numsamples' < 1)
    BY <2>1, SMT DEF Looping
  <2> QED
    BY <1>6, <2>1, <2>2 DEF AddSample, Looping
<1>7. CASE PackBlock
  BY <1>1, <1>7, SMT DEF PackBlock, Looping
<1>8. CASE Stop \/ UNCHANGED vars
  BY <1>1, <1>8 DEF Stop, vars, Looping
<1> QED
  BY <1>2, <1>3, <1>4, <1>5, <1>6, <1>7, <1>8 DEF Next, Correct, Stopped

(* Looping is invariant, and no step leaves the loop below one sample.     *)
LEMMA LoopingInvariance ==
    ASSUME NumSamples >= 2
    PROVE  Spec => []Looping /\ StepBackIsForever
<1>1. Init => Looping
  <2>1. 0 \in Grid /\ NumSamples \in Int /\ ~(NumSamples < 1)
    BY RateAssumption, SMT DEF Grid, SamplePeriod
  <2> QED
    BY <2>1 DEF Init, Looping
<1>2. Looping /\ [Next]_vars => Looping' /\ [numsamples < 1 => pc' = "remove"]_vars
  <2> SUFFICES ASSUME Looping, [Next]_vars
               PROVE  Looping' /\ [numsamples < 1 => pc' = "remove"]_vars
    OBVIOUS
  <2>1. CASE RemoveSample
    BY <2>1, RemoveLoops
  <2>2. CASE ~RemoveSample
    BY <2>2, OthersKeepLooping DEF Looping
  <2> QED
    BY <2>1, <2>2
<1> QED
  BY <1>1, <1>2, PTL DEF Spec, StepBackIsForever

(* Once removing has used up the record, process_data never leaves the     *)
(* loop: for every rate, every clock and every block of two samples or     *)
(* more.                                                                   *)
THEOREM RemovalNeverEnds ==
    ASSUME NumSamples >= 2
    PROVE  Spec => StepBackIsForever
  BY LoopingInvariance, PTL

(* At 200 Hz the next start is never after the end of what is left: no     *)
(* removal jumps over the window.                                          *)
Shrinking ==
    /\ pc \in {"wait", "correct", "remove", "add"} => endtime = MsrEndtime(recStart, numsamples)
    /\ pc = "remove" => Diff <= 0

(* One removal at 200 Hz. *)
LEMMA RemoveShrinks ==
    ASSUME Rate200, Looping, Shrinking, RemoveSample
    PROVE  Shrinking'
<1>1. /\ starttime \in Nat /\ recStart \in Nat /\ numsamples \in Int
      /\ starttime' = starttime /\ recStart' = recStart
      /\ numsamples' = numsamples - 1 /\ numsamples' \in Int
      /\ endtime' = MsrEndtime(recStart, numsamples')
      /\ endtime = MsrEndtime(recStart, numsamples)
      /\ starttime - endtime <= 0
  BY SMT DEF Looping, Shrinking, RemoveSample, Grid, Diff
<1>2. pc' = "pack" \/ (pc' = "remove" /\ ~InWindow(starttime - endtime'))
  BY DEF RemoveSample
<1>3. starttime - endtime' <= 5000 /\ endtime' \in Int
  <2>1. CASE numsamples >= 2
    <3>1. endtime = recStart + 5000 * (numsamples - 1)
      BY <1>1, <2>1, EndtimeAt200, SMT
    <3>2. endtime' = recStart + 5000 * (numsamples' - 1)
      BY <1>1, <2>1, EndtimeAt200, SMT
    <3> QED
      BY <1>1, <3>1, <3>2, SMT
  <2>2. CASE numsamples < 2
    <3>1. numsamples' < 2
      BY <1>1, <2>2, SMT
    <3>2. endtime = recStart /\ endtime' = recStart
      BY <1>1, <2>2, <3>1, EndtimeOfOne
    <3> QED
      BY <1>1, <3>2, SMT
  <2> QED
    BY <1>1, <2>1, <2>2, SMT
<1>4. pc' = "remove" => starttime - endtime' <= 0
  BY <1>1, <1>2, <1>3, SMT DEF InWindow, SamplePeriod
<1> QED
  BY <1>1, <1>2, <1>4 DEF Shrinking, Diff

(* The other steps. *)
LEMMA OthersKeepShrinking ==
    ASSUME Rate200, Looping, Shrinking, [Next]_vars, ~RemoveSample
    PROVE  Shrinking'
<1>1. CASE EnterRemove
  <2>1. starttime \in Nat /\ endtime \in Nat
    <3>1. NumSamples > 0 /\ NumSamples \in Int
      BY RateAssumption, SMT
    <3>2. endtime = MsrEndtime(recStart, NumSamples) /\ recStart \in Nat /\ starttime \in Nat
      BY <1>1 DEF EnterRemove, Looping, Shrinking, Grid
    <3> QED
      BY <3>1, <3>2, EndtimeAt200
  <2>2. starttime - endtime < 0 => starttime - endtime <= 0
    BY <2>1, SMT
  <2> QED
    BY <1>1, <2>2 DEF EnterRemove, Shrinking, Diff
<1>2. CASE FirstMarker \/ NextMarker \/ RemoveOne \/ EnterAdd \/ NoCorrection
  BY <1>2 DEF FirstMarker, NextMarker, RemoveOne, EnterAdd, NoCorrection, Shrinking
<1>3. CASE AddSample \/ PackBlock \/ Stop \/ UNCHANGED vars
  BY <1>3 DEF AddSample, PackBlock, Stop, vars, Shrinking, Diff
<1> QED
  BY <1>1, <1>2, <1>3 DEF Next, Correct, Stopped

(* At 200 Hz only a clock set back to the record's start or before it      *)
(* drives process_data into a loop that never ends.                        *)
THEOREM OnlyStepBacks ==
    ASSUME Rate200, NumSamples >= 2
    PROVE  Spec => []OnlyStepBackEmpties
<1>1. Init => Shrinking
  BY DEF Init, Shrinking
<1>2. Looping /\ Shrinking /\ [Next]_vars => Shrinking'
  BY RemoveShrinks, OthersKeepShrinking
<1>3. Looping /\ Shrinking => OnlyStepBackEmpties
  <2> SUFFICES ASSUME Looping, Shrinking, numsamples < 1 PROVE starttime <= recStart
    BY DEF OnlyStepBackEmpties
  <2>1. numsamples < 2
    BY SMT DEF Looping
  <2>2. endtime = recStart
    BY <2>1, EndtimeOfOne DEF Looping, Shrinking, Grid
  <2> QED
    BY <2>2, SMT DEF Looping, Shrinking, Diff, Grid
<1> QED
  BY <1>1, <1>2, <1>3, LoopingInvariance, PTL DEF Spec

-----------------------------------------------------------------------------
(* What a correction has left to do: how far the record's end, one period  *)
(* after its last sample, is from the next start.                          *)
Remaining == AbsDiff(starttime, recStart + SamplePeriod * numsamples)

(* A correction that has an end, and is not there yet. *)
Converging == pc \in {"remove", "add"} /\ starttime > recStart

(* Padding never overshoots. *)
Growing == pc = "add" => Diff > SamplePeriod

(* A record in a loop ends where its length says, a whole number of        *)
(* periods, and not none, away from the next start.                        *)
LEMMA RemainsWhole ==
    ASSUME Rate200, Looping, Shrinking, Growing, Converging
    PROVE  /\ numsamples >= 1 /\ endtime = recStart + 5000 * (numsamples - 1)
           /\ pc = "remove" => numsamples >= 2
           /\ \E k \in Nat \ {0} :
                starttime = recStart + 5000 * numsamples + (IF pc = "add" THEN 5000 * k ELSE -(5000 * k))
<1>1. /\ starttime \in Nat /\ recStart \in Nat /\ numsamples \in Int
      /\ starttime % 5000 = 0 /\ recStart % 5000 = 0
      /\ starttime > recStart /\ endtime = MsrEndtime(recStart, numsamples)
  BY DEF Looping, Shrinking, Converging, Grid, SamplePeriod
<1>2. pc = "remove" => numsamples >= 2
  <2> SUFFICES ASSUME pc = "remove", numsamples < 2 PROVE FALSE
    BY <1>1, SMT
  <2>1. endtime = recStart
    BY <1>1, EndtimeOfOne
  <2>2. starttime - recStart <= 0
    BY <2>1 DEF Shrinking, Diff
  <2>3. starttime \in Nat /\ recStart \in Nat /\ starttime > recStart
    BY <1>1
  <2> QED
    BY <2>2, <2>3, SMT
<1>3. numsamples >= 1
  <2>1. pc = "add" => ~(numsamples < 1)
    BY DEF Looping
  <2> QED
    BY <2>1, <1>1, <1>2, SMT DEF Converging
<1>4. endtime = recStart + 5000 * (numsamples - 1)
  <2>1. numsamples > 0
    BY <1>1, <1>3, SMT
  <2>2. MsrEndtime(recStart, numsamples) = recStart + 5000 * (numsamples - 1)
    <3>1. recStart \in Nat /\ numsamples \in Int
      BY <1>1
    <3> QED
      BY <2>1, <3>1, EndtimeAt200
  <2> QED
    BY <1>1, <2>2
<1>5. PICK x \in Nat, y \in Nat : starttime = 5000 * y /\ recStart = 5000 * x
  <2>1. starttime \div 5000 \in Nat /\ starttime = 5000 * (starttime \div 5000)
    BY <1>1, SMT
  <2>2. recStart \div 5000 \in Nat /\ recStart = 5000 * (recStart \div 5000)
    BY <1>1, SMT
  <2> QED
    BY <2>1, <2>2
<1>6. CASE pc = "add"
  <2>1. starttime - endtime > 5000
    BY <1>6 DEF Growing, Diff, SamplePeriod
  <2>2. PICK k \in Int : k = y - x - numsamples
    BY <1>1, SMT
  <2>3. k \in Nat \ {0} /\ starttime = recStart + 5000 * numsamples + 5000 * k
    BY <1>1, <1>4, <1>5, <2>1, <2>2, SMT
  <2> QED
    BY <1>2, <1>3, <1>4, <1>6, <2>3
<1>7. CASE pc = "remove"
  <2>1. starttime - endtime <= 0
    BY <1>7 DEF Shrinking, Diff
  <2>2. PICK k \in Int : k = x + numsamples - y
    BY <1>1, SMT
  <2>3. k \in Nat \ {0} /\ starttime = recStart + 5000 * numsamples + (-(5000 * k))
    BY <1>1, <1>4, <1>5, <2>1, <2>2, SMT
  <2> QED
    BY <1>2, <1>3, <1>4, <1>7, <2>3
<1> QED
  BY <1>6, <1>7 DEF Converging

(* Every step a loop can make brings the record one period nearer, and     *)
(* leaves the loop exactly when there is nothing left to do.               *)
LEMMA StepConverges ==
    ASSUME Rate200, Looping, Shrinking, Growing, Converging, RemoveSample \/ AddSample
    PROVE  /\ Remaining' = Remaining - SamplePeriod
           /\ pc' = IF Remaining' = 0 THEN "pack" ELSE pc
<1>1. PICK k \in Nat \ {0} :
        starttime = recStart + 5000 * numsamples + (IF pc = "add" THEN 5000 * k ELSE -(5000 * k))
  BY RemainsWhole
<1>2. /\ starttime \in Nat /\ recStart \in Nat /\ numsamples \in Int
      /\ numsamples >= 1 /\ (pc = "remove" => numsamples >= 2)
  BY RemainsWhole DEF Looping, Grid
<1>3. starttime' = starttime /\ recStart' = recStart /\ endtime' = MsrEndtime(recStart, numsamples')
  BY DEF RemoveSample, AddSample
<1>4. PICK n \in Int : /\ n = numsamples' /\ n >= 1
                       /\ n = IF pc = "add" THEN numsamples + 1 ELSE numsamples - 1
  BY <1>2, SMT DEF RemoveSample, AddSample
<1>5. endtime' = recStart + 5000 * (n - 1)
  BY <1>2, <1>3, <1>4, EndtimeAt200, SMT
<1>6. Remaining = 5000 * k
  BY <1>1, <1>2, SMT DEF Remaining, AbsDiff, SamplePeriod
<1>7. Remaining' = AbsDiff(starttime, recStart + 5000 * n)
  BY <1>3, <1>4 DEF Remaining, AbsDiff, SamplePeriod
<1>8. starttime = recStart + 5000 * n + (IF pc = "add" THEN 5000 * (k - 1) ELSE -(5000 * (k - 1)))
  BY <1>1, <1>2, <1>4, SMT
<1>9. AbsDiff(starttime, recStart + 5000 * n) = 5000 * (k - 1)
  BY <1>2, <1>4, <1>8, SMT DEF AbsDiff
<1>10. InWindow(starttime - endtime') <=> k - 1 = 0
  BY <1>2, <1>4, <1>5, <1>8, SMT DEF InWindow, SamplePeriod
<1>11. pc' = IF InWindow(starttime - endtime') THEN "pack" ELSE pc
  BY <1>3 DEF RemoveSample, AddSample
<1>12. 5000 * (k - 1) = 5000 * k - 5000 /\ (5000 * (k - 1) = 0 <=> k - 1 = 0)
  BY SMT
<1> QED
  BY <1>6, <1>7, <1>9, <1>10, <1>11, <1>12 DEF SamplePeriod

(* Padding ends before it overshoots, whatever the clock does. *)
LEMMA KeepsGrowing ==
    ASSUME Rate200, Looping, Shrinking, Growing, [Next]_vars
    PROVE  Growing'
<1>1. CASE AddSample
  <2>1. /\ starttime \in Nat /\ recStart \in Nat /\ numsamples \in Int /\ ~(numsamples < 1)
        /\ starttime' = starttime /\ recStart' = recStart /\ numsamples' = numsamples + 1
        /\ endtime' = MsrEndtime(recStart, numsamples')
        /\ endtime = MsrEndtime(recStart, numsamples) /\ starttime - endtime > 5000
    BY <1>1 DEF AddSample, Looping, Shrinking, Growing, Diff, Grid, SamplePeriod
  <2>2. PICK n \in Int : n = numsamples' /\ n = numsamples + 1 /\ n > 0 /\ numsamples > 0
    BY <2>1, SMT
  <2>3. endtime = recStart + 5000 * (numsamples - 1) /\ endtime' = recStart + 5000 * (n - 1)
    BY <2>1, <2>2, EndtimeAt200
  <2>4. pc' = "add" => starttime - endtime' > 5000
    <3>1. pc' = "add" => ~InWindow(starttime - endtime')
      BY <1>1, <2>1 DEF AddSample
    <3> QED
      BY <2>1, <2>2, <2>3, <3>1, SMT DEF InWindow, SamplePeriod
  <2> QED
    BY <2>1, <2>4 DEF Growing, Diff, SamplePeriod
<1>2. CASE EnterAdd \/ Stop \/ UNCHANGED vars
  BY <1>2 DEF EnterAdd, Stop, vars, Growing, Diff
<1>3. CASE FirstMarker \/ NextMarker \/ EnterRemove \/ RemoveOne \/ NoCorrection \/ RemoveSample \/ PackBlock
  BY <1>3 DEF FirstMarker, NextMarker, EnterRemove, RemoveOne, NoCorrection, RemoveSample,
              PackBlock, Growing
<1> QED
  BY <1>1, <1>2, <1>3 DEF Next, Correct, Stopped

(* Towards a start time after the record's own, both correction loops have *)
(* a variant: at 200 Hz, for every block length and whatever the clock     *)
(* did before, each pass takes one period off what remains, which is never *)
(* nothing inside a loop, and the pass that takes off the last one leaves  *)
(* the loop.  With the fairness of a running thread this is why            *)
(* time_correction returns.                                                *)
THEOREM CorrectionsConverge ==
    ASSUME Rate200, NumSamples >= 2
    PROVE  Spec => /\ [](Converging => Remaining \in Nat \ {0})
                   /\ [][Converging => /\ Remaining' = Remaining - SamplePeriod
                                       /\ pc' = IF Remaining' = 0 THEN "pack" ELSE pc]_vars
<1>1. Init => Shrinking /\ Growing
  BY DEF Init, Shrinking, Growing
<1>2. Looping /\ Shrinking /\ Growing /\ [Next]_vars => Shrinking' /\ Growing'
  BY RemoveShrinks, OthersKeepShrinking, KeepsGrowing
<1>3. Looping /\ Shrinking /\ Growing => (Converging => Remaining \in Nat \ {0})
  <2> SUFFICES ASSUME Looping, Shrinking, Growing, Converging PROVE Remaining \in Nat \ {0}
    OBVIOUS
  <2>1. PICK k \in Nat \ {0} :
          starttime = recStart + 5000 * numsamples + (IF pc = "add" THEN 5000 * k ELSE -(5000 * k))
    BY RemainsWhole
  <2>2. starttime \in Nat /\ recStart \in Nat /\ numsamples \in Int
    BY DEF Looping, Grid
  <2> QED
    BY <2>1, <2>2, SMT DEF Remaining, AbsDiff, SamplePeriod
<1>4. Looping /\ Shrinking /\ Growing /\ [Next]_vars =>
        [Converging => /\ Remaining' = Remaining - SamplePeriod
                       /\ pc' = IF Remaining' = 0 THEN "pack" ELSE pc]_vars
  <2> SUFFICES ASSUME Looping, Shrinking, Growing, Converging, Next, ~UNCHANGED vars
               PROVE  /\ Remaining' = Remaining - SamplePeriod
                      /\ pc' = IF Remaining' = 0 THEN "pack" ELSE pc
    OBVIOUS
  <2>1. RemoveSample \/ AddSample
    BY DEF Converging, Next, Correct, FirstMarker, NextMarker, EnterRemove, RemoveOne,
           EnterAdd, NoCorrection, PackBlock, Stop, Stopped
  <2> QED
    BY <2>1, StepConverges
<1> QED
  BY <1>1, <1>2, <1>3, <1>4, LoopingInvariance, PTL DEF Spec

-----------------------------------------------------------------------------
(* At 100 Hz samples are 10 ms apart and the window is still 5 ms wide.    *)
LEMMA EndtimeAt100 ==
    ASSUME SampRate = 100, NEW s \in Nat, NEW n \in Int, n > 0
    PROVE  MsrEndtime(s, n) = s + 10000 * (n - 1)
<1>1. (2 * (n - 1) * 1000000 + 100) \div 200 = 10000 * (n - 1)
  BY SMT
<1>2. 2 * SampRate = 200
  BY SMT
<1> QED
  BY <1>1, <1>2, SMT DEF MsrEndtime, HPTMODULUS

(* An end time inside the window would be a sample away from a start time  *)
(* that WindowMissed excludes.                                             *)
LEMMA MissedAt100 ==
    ASSUME SampRate = 100, WindowMissed, starttime \in Nat, recStart \in Nat,
           NEW n \in Int
    PROVE  ~InWindow(starttime - MsrEndtime(recStart, n))
<1>1. (starttime - recStart - 1) % 10000 >= 5000
  <2>1. HPTMODULUS \div SampRate = 10000
    BY SMT DEF HPTMODULUS
  <2> QED
    BY <2>1 DEF WindowMissed, Period, SamplePeriod
<1>2. CASE n > 0
  <2>1. MsrEndtime(recStart, n) = recStart + 10000 * (n - 1)
    BY <1>2, EndtimeAt100
  <2>2. ASSUME starttime - (recStart + 10000 * (n - 1)) > 0,
               starttime - (recStart + 10000 * (n - 1)) <= 5000
        PROVE  FALSE
    <3>1. PICK r \in Int : r = starttime - recStart - 1 - 10000 * (n - 1)
      BY SMT
    <3>2. r \in 0 .. 4999 /\ starttime - recStart - 1 = 10000 * (n - 1) + r
      BY <2>2, <3>1, SMT
    <3>3. (10000 * (n - 1) + r) % 10000 = r
      BY <3>2, SMT
    <3> QED
      BY <1>1, <3>2, <3>3, SMT
  <2> QED
    BY <2>1, <2>2 DEF InWindow, SamplePeriod
<1>3. CASE ~(n > 0)
  <2>1. MsrEndtime(recStart, n) = recStart
    BY <1>3, SMT DEF MsrEndtime
  <2>2. ASSUME starttime - recStart > 0, starttime - recStart <= 5000
        PROVE  FALSE
    BY <1>1, <2>2, SMT
  <2> QED
    BY <2>1, <2>2 DEF InWindow, SamplePeriod
<1> QED
  BY <1>2, <1>3

(* With samprate set to 100 Hz, whenever two start times are a multiple of *)
(* 10 ms apart, neither loop of time_correction is ever left: its window   *)
(* stays 5 ms wide whatever samprate says (msrecord.c lines 110, 368, 404).*)
THEOREM MissedWindowLoops ==
    ASSUME SampRate = 100, NumSamples >= 2
    PROVE  Spec => LoopsJumpWindow
<1>1. Looping /\ [Next]_vars =>
        [WindowMissed /\ pc \in {"remove", "add"} => (UNCHANGED pc)]_vars
  <2> SUFFICES ASSUME Looping, Next, WindowMissed, pc \in {"remove", "add"}
               PROVE  UNCHANGED pc
    OBVIOUS
  <2>1. starttime \in Nat /\ recStart \in Nat /\ numsamples \in Int
    BY DEF Looping, Grid
  <2>2. CASE RemoveSample
    <3>1. numsamples - 1 \in Int /\ numsamples' = numsamples - 1
      BY <2>1, <2>2, SMT DEF RemoveSample
    <3>2. ~InWindow(starttime - MsrEndtime(recStart, numsamples'))
      BY <2>1, <3>1, MissedAt100
    <3> QED
      BY <2>2, <3>2 DEF RemoveSample
  <2>3. CASE AddSample
    <3>1. numsamples + 1 \in Int /\ numsamples' = numsamples + 1
      BY <2>1, <2>3, SMT DEF AddSample
    <3>2. ~InWindow(starttime - MsrEndtime(recStart, numsamples'))
      BY <2>1, <3>1, MissedAt100
    <3> QED
      BY <2>3, <3>2 DEF AddSample
  <2> QED
    BY <2>2, <2>3 DEF Next, Correct, FirstMarker, NextMarker, EnterRemove, RemoveOne,
                      EnterAdd, NoCorrection, PackBlock, Stop, Stopped
<1> QED
  BY <1>1, LoopingInvariance, PTL DEF Spec, LoopsJumpWindow
=============================================================================
