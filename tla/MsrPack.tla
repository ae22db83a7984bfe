------------------------------ MODULE MsrPack ------------------------------
(***************************************************************************)
(* From a block of samples to the records of the three channels.  For each *)
(* block process_data calls msr_pack (libmseed/pack.c, as the program      *)
(* changed it) once per channel.  msr_pack fills as many records as the    *)
(* compressed samples need, updates start time and sequence number after   *)
(* each, and hands each to dl_write under a start and an end time computed *)
(* beside the header.  It can fail before the first record or between two; *)
(* process_data does not look at what it returns.                          *)
(*                                                                         *)
(* Blocks come as TimeCorrection leaves them: the next one starts one      *)
(* sample period after the last sample of this one (RecordsTile there).    *)
(* How many samples fit into a record depends on the data: any number      *)
(* from 1 up to those left.                                                *)
(***************************************************************************)
EXTENDS Integers

CONSTANTS
    SampRate,       \* msr->samprate, in Hz
    NumSamples,     \* msrecord_members->numsamples, the samples per block
    Corrections,    \* what time_correction may return
    NumChannels,    \* NS, EW and Z
    FirstStart,     \* start time of the first block
    MaxSequence,    \* 999999 in the code
    MaxBlocks       \* bound: blocks until the key is pressed at the latest

ASSUME PackAssumption ==
    /\ SampRate \in Nat \ {0}
    /\ NumSamples \in Nat \ {0}
    /\ Corrections \subseteq Int
    /\ \A i \in Corrections : NumSamples + i >= 1
    /\ NumChannels \in Nat \ {0}
    /\ FirstStart \in Nat \ {0}
    /\ MaxSequence \in Nat \ {0}
    /\ MaxBlocks \in Nat

HPTMODULUS == 1000000
SamplePeriod == 5000
Channels == 1 .. NumChannels

-----------------------------------------------------------------------------
(* (hptime_t)(k / samprate * HPTMODULUS + 0.5) *)
Span(k) == (2 * k * HPTMODULUS + SampRate) \div (2 * SampRate)

(* msr_endtime, for a record with samples. *)
MsrEndtime(start, samplecnt) == start + Span(samplecnt - 1)

(* The header keeps tenths of milliseconds, rounded; without a blockette   *)
(* 1001 the rest is dropped.                                               *)
HeaderTime(t) == ((t + 50) \div 100) * 100

NextSequence(s) == IF s >= MaxSequence THEN 1 ELSE s + 1

ResetSequence(s) == IF s <= 0 \/ s > MaxSequence THEN 1 ELSE s

(* A record as it leaves: header fields, samples, and the two times dl_write gets. *)
NoRecord == [start |-> 0, sequence |-> 0, count |-> 0, datastart |-> 0, dataend |-> 0]

-----------------------------------------------------------------------------
VARIABLES
    process,        \* "collect", "begin", "pack", "open", "stopped"
    blocks,         \* blocks packed so far
    numsamples,     \* msr->numsamples (= samplecnt) of all channels
    channel,        \* the channel being packed
    nextStart,      \* starttime of process_data: where the next block begins
    starttime,      \* msr->starttime of each channel
    sequence,       \* msr->sequence_number of each channel
    segstarttime,   \* local to msr_pack
    header,         \* what rawrec's header says
    total,          \* totalpackedsamples
    last,           \* history: the last record each channel handed to dl_write
    dropped         \* history: samples of each channel no record got since

blockVars == <<blocks, numsamples, nextStart>>
history == <<last, dropped>>
vars == <<process, channel, blockVars, starttime, sequence, segstarttime, header, total, history>>

Init ==
    /\ process = "collect"
    /\ blocks = 0
    /\ numsamples = NumSamples
    /\ nextStart = FirstStart
    /\ channel = 1
    /\ starttime = [c \in Channels |-> FirstStart]
    /\ sequence = [c \in Channels |-> 0]
    /\ segstarttime = 0
    /\ header = [start |-> 0, sequence |-> 0]
    /\ total = 0
    /\ last = [c \in Channels |-> NoRecord]
    /\ dropped = [c \in Channels |-> 0]

(* The block is complete and the next start time is there; time_correction *)
(* has trimmed or padded it.                                               *)
BlockDone ==
    /\ process = "collect"
    /\ blocks < MaxBlocks
    /\ \E i \in Corrections : numsamples' = NumSamples + i
    /\ nextStart' = starttime[1] + SamplePeriod * numsamples'
    /\ channel' = 1
    /\ process' = "begin"
    /\ UNCHANGED <<blocks, starttime, sequence, segstarttime, header, total, history>>

BeginPack ==
    /\ process = "begin"
    /\ segstarttime' = starttime[channel]
    /\ sequence' = [sequence EXCEPT ![channel] = ResetSequence(@)]
    /\ header' = [start |-> HeaderTime(starttime[channel]),
                  sequence |-> ResetSequence(sequence[channel])]
    /\ total' = 0
    /\ process' = "pack"
    /\ UNCHANGED <<blockVars, channel, starttime, history>>

(* msr_pack returns; process_data calls it for the next channel. *)
ReturnToBlock ==
    IF channel < NumChannels
    THEN channel' = channel + 1 /\ process' = "begin"
    ELSE process' = "open" /\ UNCHANGED channel

(* No memory for the stream state (the sequence number is not looked at    *)
(* yet) or for the record: -1.                                             *)
BeginFails ==
    /\ process = "begin"
    /\ sequence' \in {sequence, [sequence EXCEPT ![channel] = ResetSequence(@)]}
    /\ dropped' = [dropped EXCEPT ![channel] = @ + numsamples]
    /\ ReturnToBlock
    /\ UNCHANGED <<blockVars, starttime, segstarttime, header, total, last>>

(* Mutant: the end is that of this record's samples, but counted from the  *)
(* start of the block.                                                     *)
Record_EndFromSegment(k) ==
    [start |-> header.start, sequence |-> header.sequence, count |-> k,
     datastart |-> starttime[channel],
     dataend |-> MsrEndtime(segstarttime, k)]

(* What dl_write gets.  dl_endtime is msr_endtime of the whole block,      *)
(* counted from this record's start.                                       *)
Record(k) ==
    [start |-> header.start, sequence |-> header.sequence, count |-> k,
     datastart |-> starttime[channel],
     dataend |-> MsrEndtime(starttime[channel], numsamples)]

(* Mutant: the header is made ready before the sequence number moves on.   *)
PackRecord_OldNumber ==
    /\ process = "pack"
    /\ \E k \in 1 .. numsamples - total :
        /\ last' = [last EXCEPT ![channel] = Record(k)]
        /\ total' = total + k
    /\ dropped' = [dropped EXCEPT ![channel] = 0]
    /\ sequence' = [sequence EXCEPT ![channel] = NextSequence(@)]
    /\ starttime' = [starttime EXCEPT ![channel] = segstarttime + Span(total')]
    /\ header' = [start |-> HeaderTime(starttime'[channel]), sequence |-> sequence[channel]]
    /\ IF total' >= numsamples THEN ReturnToBlock ELSE UNCHANGED <<process, channel>>
    /\ UNCHANGED <<blockVars, segstarttime>>

(* Mutant: all samples packed so far are added to this record's start.     *)
PackRecord_NoSegstart ==
    /\ process = "pack"
    /\ \E k \in 1 .. numsamples - total :
        /\ last' = [last EXCEPT ![channel] = Record(k)]
        /\ total' = total + k
    /\ dropped' = [dropped EXCEPT ![channel] = 0]
    /\ sequence' = [sequence EXCEPT ![channel] = NextSequence(@)]
    /\ starttime' = [starttime EXCEPT ![channel] = @ + Span(total')]
    /\ header' = [start |-> HeaderTime(starttime'[channel]), sequence |-> sequence'[channel]]
    /\ IF total' >= numsamples THEN ReturnToBlock ELSE UNCHANGED <<process, channel>>
    /\ UNCHANGED <<blockVars, segstarttime>>

(* One turn of the loop: k samples fit, the record is handed to dl_write   *)
(* (whether that works only changes the log), then start time, sequence    *)
(* number and header are made ready for the next record.                   *)
PackRecord ==
    /\ process = "pack"
    /\ \E k \in 1 .. numsamples - total :
        /\ last' = [last EXCEPT ![channel] = Record(k)]
        /\ total' = total + k
    /\ dropped' = [dropped EXCEPT ![channel] = 0]
    /\ sequence' = [sequence EXCEPT ![channel] = NextSequence(@)]
    /\ starttime' = [starttime EXCEPT ![channel] = segstarttime + Span(total')]
    /\ header' = [start |-> HeaderTime(starttime'[channel]), sequence |-> sequence'[channel]]
    /\ IF total' >= numsamples THEN ReturnToBlock ELSE UNCHANGED <<process, channel>>
    /\ UNCHANGED <<blockVars, segstarttime>>

(* The encoder reports an error: -1, the rest of the block is dropped. *)
PackFails ==
    /\ process = "pack"
    /\ dropped' = [dropped EXCEPT ![channel] = @ + numsamples - total]
    /\ ReturnToBlock
    /\ UNCHANGED <<blockVars, starttime, sequence, segstarttime, header, total, last>>

(* Mutant: only the first channel gets the new start time, the others go   *)
(* on from where msr_pack left them.                                       *)
OpenNext_FirstOnly ==
    /\ process = "open"
    /\ starttime' = [starttime EXCEPT ![1] = nextStart]
    /\ numsamples' = NumSamples
    /\ blocks' = blocks + 1
    /\ process' = "collect"
    /\ UNCHANGED <<nextStart, channel, sequence, segstarttime, header, total, history>>

(* All channels start over from the start time taken from the queue. *)
OpenNext ==
    /\ process = "open"
    /\ starttime' = [c \in Channels |-> nextStart]
    /\ numsamples' = NumSamples
    /\ blocks' = blocks + 1
    /\ process' = "collect"
    /\ UNCHANGED <<nextStart, channel, sequence, segstarttime, header, total, history>>

(* A key was pressed before the next start time: the open block stays      *)
(* unpacked.                                                               *)
Stop ==
    /\ process = "collect"
    /\ process' = "stopped"
    /\ UNCHANGED <<channel, blockVars, starttime, sequence, segstarttime, header, total, history>>

Stopped == process = "stopped" /\ UNCHANGED vars

Next ==
    \/ BlockDone \/ BeginPack \/ BeginFails \/ PackRecord \/ PackFails \/ OpenNext
    \/ Stop \/ Stopped

Spec == Init /\ [][Next]_vars

-----------------------------------------------------------------------------
TypeOK ==
    /\ process \in {"collect", "begin", "pack", "open", "stopped"}
    /\ blocks \in 0 .. MaxBlocks
    /\ numsamples \in Nat \ {0}
    /\ nextStart \in Nat
    /\ channel \in Channels
    /\ starttime \in [Channels -> Nat]
    /\ sequence \in [Channels -> 0 .. MaxSequence]
    /\ segstarttime \in Nat
    /\ header \in [start : Nat, sequence : 0 .. MaxSequence]
    /\ total \in Nat
    /\ last \in [Channels -> [start : Nat, sequence : 0 .. MaxSequence, count : Nat,
                               datastart : Nat, dataend : Nat]]
    /\ dropped \in [Channels -> Nat]

(* What the header of a record says it covers, plus what was dropped after *)
(* it, ends here.                                                          *)
CoveredUpTo(c) == last[c].start + SamplePeriod * (last[c].count + dropped[c])

(* Between blocks the three channels have come equally far, and exactly to *)
(* the start of the open block: a failure in one channel leaves a hole of  *)
(* its own length there and moves nothing else (process_data opens all     *)
(* three records at the same start time).                                  *)
ChannelsInStep ==
    process = "collect" =>
        \A c \in Channels : last[c] # NoRecord => CoveredUpTo(c) = starttime[c]

(* Each record begins where the one before it ended, or later by exactly   *)
(* the samples packing failed on (the start times msr_pack computes from   *)
(* segstarttime and puts into the next header).                            *)
HolesAreDrops ==
    [][\A c \in Channels :
        last[c] # NoRecord /\ last'[c] # last[c] => last'[c].start = CoveredUpTo(c)]_vars

(* Sequence numbers count what is handed to dl_write, through failures and *)
(* across blocks: a number missing at the server is a record not stored    *)
(* (pack.c wraps the number and writes it into the reused header).         *)
SequenceCounts ==
    [][\A c \in Channels :
        last'[c] # last[c] => last'[c].sequence = NextSequence(last[c].sequence)]_vars

(* The time of a record's last sample. *)
LastSample(record) == record.start + SamplePeriod * (record.count - 1)

(* The times dl_write announces include every sample of the record it      *)
(* carries, so a request by time finds it, and they are the record's own   *)
(* just when it takes the whole block, as SaveWindow supposes: of a block  *)
(* in several records each one is announced with an end too late, that of  *)
(* a whole block counted from its own start (dl_endtime, pack.c:454).      *)
TimesCoverRecord ==
    [][\A c \in Channels : last'[c] # last[c] =>
        /\ last'[c].datastart = last'[c].start
        /\ last'[c].dataend >= LastSample(last'[c])
        /\ last'[c].dataend = LastSample(last'[c]) <=> last'[c].count = numsamples]_vars
=============================================================================
