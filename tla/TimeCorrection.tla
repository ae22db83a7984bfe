--------------------------- MODULE TimeCorrection ---------------------------
(***************************************************************************)
(* How SDAS keeps its records on the clock.  The board sends a marker when *)
(* a block of samples begins; the reader thread stamps it with the system  *)
(* clock, rounded to the sample grid (utils.c: timespec2hptime and         *)
(* starttime_correction).  When the next marker is taken, process_data     *)
(* compares the new start time with the end of the record being built and  *)
(* trims or pads that record sample by sample until the two abut           *)
(* (msrecord.c: time_correction), then packs it.                           *)
(*                                                                         *)
(* Times are in microseconds (HPTMODULUS per second), exactly as in the    *)
(* code.  One iteration of a correction loop is one step, so a loop that   *)
(* never ends is a behaviour that never leaves "remove" or "add".          *)
(***************************************************************************)
EXTENDS Integers

CONSTANTS
    SampRate,           \* msrstruct.samprate, in Hz
    NumSamples,         \* samples per block; the code takes it equal to samprate
    FirstReadings,      \* clock readings the first marker may get
    Advances,           \* how far the clock may move between two markers
    LastReading         \* bound: no marker is stamped after this reading

ASSUME RateAssumption ==
    /\ SampRate \in Nat \ {0}
    /\ NumSamples \in Nat \ {0}

ASSUME ClockAssumption ==
    /\ FirstReadings \subseteq Nat \ {0}
    /\ Advances \subseteq Int
    /\ LastReading \in Nat

HPTMODULUS == 1000000

(* hptime_sample_period in process_data: 5 ms whatever samprate says.      *)
SamplePeriod == 5000

NoRecord == [start |-> 0, numsamples |-> 0]

-----------------------------------------------------------------------------
(* timespec2hptime drops everything below the millisecond. *)
Timespec2hptime(reading) == (reading \div 1000) * 1000

AbsDiff(a, b) == IF a < b THEN b - a ELSE a - b

(* Mutant: always round down. *)
StarttimeCorrection_Floor(t) == t - (((t % HPTMODULUS) \div 1000) % 5) * 1000

(* Mutant: no rounding. *)
StarttimeCorrection_None(t) == t

(* starttime_correction(t, 0.005): to the nearer multiple of 5 ms.         *)
StarttimeCorrection(t) ==
    LET subsec == (t % HPTMODULUS) \div 1000
        floor  == (subsec \div 5) * 5
        ceil   == ((subsec + 4) \div 5) * 5
        floorDiff == AbsDiff(subsec, floor)
        ceilDiff  == AbsDiff(subsec, ceil)
    IN  IF ceilDiff < floorDiff THEN t + ceilDiff * 1000
        ELSE IF floorDiff < ceilDiff THEN t - floorDiff * 1000
        ELSE t

Stamp(reading) == StarttimeCorrection(Timespec2hptime(reading))

(* Mutant: the count is not tested. *)
MsrEndtime_NoGuard(start, samplecnt) ==
    start + (2 * (samplecnt - 1) * HPTMODULUS + SampRate) \div (2 * SampRate)

(* msr_endtime: the time of the last sample, rounded to the microsecond.   *)
MsrEndtime(start, samplecnt) ==
    start + IF samplecnt > 0
            THEN (2 * (samplecnt - 1) * HPTMODULUS + SampRate) \div (2 * SampRate)
            ELSE 0

-----------------------------------------------------------------------------
VARIABLES
    pc,             \* where process_data is
    reading,        \* the clock reading of the last marker
    starttime,      \* starttime of process_data, from the timestamp queue
    recStart,       \* msr->starttime of the record being built
    numsamples,     \* msr->numsamples (= samplecnt) of the three records
    endtime,        \* endtime of process_data
    correction,     \* i of time_correction, then its return value
    last            \* history: the record packed last

vars == <<pc, reading, starttime, recStart, numsamples, endtime, correction, last>>

Init ==
    /\ pc = "first"
    /\ reading = 0
    /\ starttime = 0
    /\ recStart = 0
    /\ numsamples = NumSamples
    /\ endtime = 0
    /\ correction = 0
    /\ last = NoRecord

Diff == starttime - endtime

InWindow(diff) == diff > 0 /\ diff <= SamplePeriod

(* The first start time opens the first record; there is nothing to pack.  *)
FirstMarker ==
    /\ pc = "first"
    /\ \E r \in FirstReadings :
        /\ r <= LastReading
        /\ reading' = r
        /\ starttime' = Stamp(r)
    /\ recStart' = starttime'
    /\ endtime' = MsrEndtime(starttime', numsamples)
    /\ pc' = "wait"
    /\ UNCHANGED <<numsamples, correction, last>>

NextMarker ==
    /\ pc = "wait"
    /\ \E d \in Advances :
        /\ reading + d \in 1 .. LastReading
        /\ reading' = reading + d
        /\ starttime' = Stamp(reading + d)
    /\ pc' = "correct"
    /\ UNCHANGED <<recStart, numsamples, endtime, correction, last>>

(* The record ends after the next one starts: remove samples. *)
EnterRemove ==
    /\ pc = "correct"
    /\ Diff < 0
    /\ correction' = 0
    /\ pc' = "remove"
    /\ UNCHANGED <<reading, starttime, recStart, numsamples, endtime, last>>

(* It ends exactly at the next start: remove one; endtime is not updated.  *)
RemoveOne ==
    /\ pc = "correct"
    /\ Diff = 0
    /\ numsamples' = numsamples - 1
    /\ correction' = -1
    /\ pc' = "pack"
    /\ UNCHANGED <<reading, starttime, recStart, endtime, last>>

EnterAdd ==
    /\ pc = "correct"
    /\ Diff > SamplePeriod
    /\ correction' = 0
    /\ pc' = "add"
    /\ UNCHANGED <<reading, starttime, recStart, numsamples, endtime, last>>

NoCorrection ==
    /\ pc = "correct"
    /\ Diff > 0 /\ ~(Diff > SamplePeriod)
    /\ correction' = 0
    /\ pc' = "pack"
    /\ UNCHANGED <<reading, starttime, recStart, numsamples, endtime, last>>

(* Mutant: the exit test comes before the end time is recomputed. *)
RemoveSample_StaleEnd ==
    /\ pc = "remove"
    /\ numsamples' = numsamples - 1
    /\ endtime' = MsrEndtime(recStart, numsamples')
    /\ IF InWindow(Diff)
       THEN pc' = "pack" /\ correction' = -(correction + 1)
       ELSE pc' = "remove" /\ correction' = correction + 1
    /\ UNCHANGED <<reading, starttime, recStart, last>>

(* Mutant: removing stops at two samples' distance as well. *)
RemoveSample_EarlyExit ==
    /\ pc = "remove"
    /\ numsamples' = numsamples - 1
    /\ endtime' = MsrEndtime(recStart, numsamples')
    /\ IF starttime - endtime' >= 0
       THEN pc' = "pack" /\ correction' = -(correction + 1)
       ELSE pc' = "remove" /\ correction' = correction + 1
    /\ UNCHANGED <<reading, starttime, recStart, last>>

(* Mutant: a record is never cut below two samples. *)
RemoveSample_KeepsTwo ==
    /\ pc = "remove"
    /\ numsamples' = IF numsamples > 2 THEN numsamples - 1 ELSE 2
    /\ endtime' = MsrEndtime(recStart, numsamples')
    /\ IF InWindow(starttime - endtime')
       THEN pc' = "pack" /\ correction' = numsamples' - NumSamples
       ELSE pc' = "remove" /\ correction' = NumSamples - numsamples'
    /\ UNCHANGED <<reading, starttime, recStart, last>>

(* One iteration of the loop of lines 353-370. *)
RemoveSample ==
    /\ pc = "remove"
    /\ numsamples' = numsamples - 1
    /\ endtime' = MsrEndtime(recStart, numsamples')
    /\ IF InWindow(starttime - endtime')
       THEN pc' = "pack" /\ correction' = -(correction + 1)
       ELSE pc' = "remove" /\ correction' = correction + 1
    /\ UNCHANGED <<reading, starttime, recStart, last>>

(* One iteration of the loop of lines 390-406. *)
AddSample ==
    /\ pc = "add"
    /\ numsamples' = numsamples + 1
    /\ endtime' = MsrEndtime(recStart, numsamples')
    /\ IF InWindow(starttime - endtime')
       THEN pc' = "pack" /\ correction' = correction + 1
       ELSE pc' = "add" /\ correction' = correction + 1
    /\ UNCHANGED <<reading, starttime, recStart, last>>

(* Mutant: numsamples keeps the corrected length. *)
PackBlock_NoReset ==
    /\ pc = "pack"
    /\ last' = [start |-> recStart, numsamples |-> numsamples]
    /\ recStart' = starttime
    /\ endtime' = MsrEndtime(starttime, NumSamples)
    /\ pc' = "wait"
    /\ UNCHANGED <<reading, starttime, numsamples, correction>>

(* The block is resampled to numsamples, packed, and the next record is    *)
(* opened at the new start time with the configured length.                *)
PackBlock ==
    /\ pc = "pack"
    /\ last' = [start |-> recStart, numsamples |-> numsamples]
    /\ recStart' = starttime
    /\ numsamples' = NumSamples
    /\ endtime' = MsrEndtime(starttime, NumSamples)
    /\ pc' = "wait"
    /\ UNCHANGED <<reading, starttime, correction>>

(* kbhit is looked at between blocks only; the last record is not packed.  *)
Stop ==
    /\ pc \in {"first", "wait"}
    /\ pc' = "stopped"
    /\ UNCHANGED <<reading, starttime, recStart, numsamples, endtime, correction, last>>

Stopped == pc = "stopped" /\ UNCHANGED vars

Correct == EnterRemove \/ RemoveOne \/ EnterAdd \/ NoCorrection \/ RemoveSample \/ AddSample

Next ==
    \/ FirstMarker \/ NextMarker
    \/ Correct \/ PackBlock
    \/ Stop \/ Stopped

Spec == Init /\ [][Next]_vars

(* time_correction is a loop of one running thread. *)
FairSpec == Spec /\ WF_vars(Correct)

-----------------------------------------------------------------------------
(* Times that are a whole number of sample periods. *)
Grid == {t \in Nat : t % SamplePeriod = 0}

(* Types; start times are always on the sample grid. *)
TypeOK ==
    /\ pc \in {"first", "wait", "correct", "remove", "add", "pack", "stopped"}
    /\ reading \in Nat
    /\ starttime \in Grid
    /\ recStart \in Grid
    /\ numsamples \in Int
    /\ endtime \in Nat
    /\ correction \in Int
    /\ last \in [start : Grid, numsamples : Int]

(* Archived records neither overlap nor leave a gap: the record packed     *)
(* last covers the time up to the start of the next one, sample by sample. *)
RecordsTile ==
    last # NoRecord => last.start + SamplePeriod * last.numsamples = recStart

(* A correction never consumes the whole record: msr_pack is never called  *)
(* without samples and the arrays are never indexed below zero.            *)
NeverEmpty == numsamples >= 1

(* process_data sizes its arrays with msr->numsamples and indexes them with *)
(* msrecord_members->numsamples + sample_correction: the two must agree.   *)
ArraysFit == pc = "pack" => numsamples = NumSamples + correction

(* A record starts within 3 ms of the clock reading its marker got. *)
StartNearMarker ==
    reading - 2999 <= starttime /\ starttime <= reading + 2000

(* Towards a start time that lies after the start of the record, a         *)
(* correction always ends: the loops hit the window.                       *)
CorrectionEnds == pc = "correct" /\ starttime > recStart ~> pc = "pack"

(* When the clock is set back behind the start of the current record,      *)
(* msr_endtime stops decreasing at one sample and the removal loop has no  *)
(* exit left: process_data stays in it.                                    *)
StepBackIsForever == [][numsamples < 1 => pc' = "remove"]_vars

(* The microseconds from sample to sample, as msr_endtime counts. *)
Period == HPTMODULUS \div SampRate

(* No end time of the record lies in the window before the next start: the *)
(* window is SamplePeriod wide whatever samprate says.                     *)
WindowMissed == (starttime - recStart - 1) % Period >= SamplePeriod

(* Nothing but a clock set back, or such a window, empties a record. *)
OnlyStepBackEmpties == numsamples < 1 => starttime <= recStart \/ WindowMissed

(* At 100 Hz, whenever two start times are a multiple of 10 ms apart, the  *)
(* removal and the padding loop jump over the window and never end.        *)
LoopsJumpWindow ==
    [][WindowMissed /\ pc \in {"remove", "add"} => (UNCHANGED pc)]_vars
=============================================================================
