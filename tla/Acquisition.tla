---------------------------- MODULE Acquisition ----------------------------
(***************************************************************************)
(* The path of a sample from the board to a record: the Arduino sketch     *)
(* (arduino/3_channel/3_channel.ino), the serial line, the reader thread   *)
(* (main.c: read_serial_buffer), the two queues and process_data           *)
(* (msrecord.c).                                                           *)
(*                                                                         *)
(* Markers and samples travel over one line but through two queues, and    *)
(* process_data puts them together again by counting: the k-th start time  *)
(* goes with samples (k-1)*N+1 .. k*N of the data queue.  A marker's id is *)
(* the number of the block it begins, a sample's id its number since the   *)
(* board was started.                                                      *)
(*                                                                         *)
(* Each queue operation is one step: SampleQueue shows that the code's     *)
(* list takes effect at one instant.  Start times are block numbers here   *)
(* and a record keeps its block as it was collected; what the clock and    *)
(* time_correction make of them is module TimeCorrection.                  *)
(***************************************************************************)
EXTENDS Integers, Sequences, SequencesExt, FiniteSets

CONSTANTS
    N,              \* samples per block (200 in the sketch and as numsamples)
    MaxBlocks,      \* bound: the board sends this many whole blocks
    LineCapacity,   \* bound: lines the serial line and tty buffer can hold
    MaxLost,        \* bound: lines lost on the way
    Restarts        \* samples of block 1 sent before this program was started

ASSUME AcquisitionAssumption ==
    /\ N \in Nat \ {0}
    /\ MaxBlocks \in Nat \ {0}
    /\ LineCapacity \in Nat \ {0, 1}
    /\ MaxLost \in Nat
    /\ Restarts \subseteq 1 .. N - 1

VARIABLES
    board,          \* "boot", "wait" (for a byte), "sampling"
    produced,       \* samples the board has printed
    wire,           \* lines under way, oldest first
    lost,           \* history: the lines that got lost
    reader,         \* "check", "read", "dispatch", "exit"
    line,           \* what read_serial returned
    tsQueue,        \* timestamp_queue
    dataQueue,      \* data_queue
    process,        \* where process_data (then main) is
    starttime,      \* starttime in process_data, 0 when there was none
    opened,         \* msr->starttime of the record being built, 0 at first
    block,          \* sample_block_*[0 .. data_sample_counter-1]
    packed,         \* the records handed to msr_pack, in order
    key,            \* a key was pressed: kbhit() is true from now on
    stopReader      \* stop_read_serial_buffer_thread = 0

boardVars == <<board, produced, wire, lost>>
readerVars == <<reader, line, tsQueue>>
processVars == <<process, starttime, opened, block, packed>>
vars == <<boardVars, readerVars, dataQueue, processVars, key, stopReader>>

Marker(k) == [kind |-> "marker", id |-> k]
Sample(n) == [kind |-> "sample", id |-> n]
BlockNumbers == 1 .. MaxBlocks + 1
SampleNumbers == 1 .. N * MaxBlocks

Lines == {Marker(k) : k \in BlockNumbers} \cup {Sample(n) : n \in SampleNumbers}
Records == [start : BlockNumbers, samples : Seq(SampleNumbers)]

NoLine == [kind |-> "none", id |-> 0]

-----------------------------------------------------------------------------
(* The program starts; usually opening the port resets the board, but it   *)
(* may also find it sampling, in the middle of a block whose marker and    *)
(* first samples it has missed.                                            *)
Init ==
    /\ \/ board = "boot" /\ produced = 0 /\ lost = {}
       \/ \E c \in Restarts :
            /\ board = "sampling"
            /\ produced = c
            /\ lost = {Marker(1)} \cup {Sample(n) : n \in 1 .. c}
    /\ wire = << >>
    /\ reader = "check"
    /\ line = NoLine
    /\ tsQueue = << >>
    /\ dataQueue = << >>
    /\ process = "start"
    /\ starttime = 0
    /\ opened = 0
    /\ block = << >>
    /\ packed = << >>
    /\ key = FALSE
    /\ stopReader = FALSE

-----------------------------------------------------------------------------
(* The board *)

(* Reset, bootloader, Serial.begin: from here on bytes are received.       *)
BootBoard ==
    /\ board = "boot"
    /\ board' = "wait"
    /\ UNCHANGED <<produced, wire, lost, readerVars, dataQueue, processVars, key, stopReader>>

(* Mutant: the marker follows one sample late (counter compared with >). *)
PrintSample_LateMarker ==
    /\ board = "sampling"
    /\ produced < N * MaxBlocks
    /\ Len(wire) + 2 <= LineCapacity
    /\ produced' = produced + 1
    /\ wire' = wire \o (IF produced' % N = 1 /\ produced' > 1
                        THEN <<Sample(produced'), Marker(produced' \div N + 1)>>
                        ELSE <<Sample(produced')>>)
    /\ UNCHANGED <<board, lost, readerVars, dataQueue, processVars, key, stopReader>>

(* loop(): every third conversion of the three converters is printed; when *)
(* that was the last of a block the next block's marker follows at once.   *)
PrintSample ==
    /\ board = "sampling"
    /\ produced < N * MaxBlocks
    /\ Len(wire) + 2 <= LineCapacity
    /\ produced' = produced + 1
    /\ wire' = wire \o (IF produced' % N = 0
                        THEN <<Sample(produced'), Marker(produced' \div N + 1)>>
                        ELSE <<Sample(produced')>>)
    /\ UNCHANGED <<board, lost, readerVars, dataQueue, processVars, key, stopReader>>

(* A line is lost: a full tty buffer, a timeout of read_serial in the      *)
(* middle of the line, noise.                                              *)
LoseLine ==
    /\ Cardinality(lost) < MaxLost
    /\ \E i \in 1 .. Len(wire) :
        /\ lost' = lost \cup {wire[i]}
        /\ wire' = RemoveAt(wire, i)
    /\ UNCHANGED <<board, produced, readerVars, dataQueue, processVars, key, stopReader>>

-----------------------------------------------------------------------------
(* The reader thread *)

CheckStop ==
    /\ reader = "check"
    /\ reader' = IF stopReader THEN "exit" ELSE "read"
    /\ UNCHANGED <<boardVars, line, tsQueue, dataQueue, processVars, key, stopReader>>

(* Mutant: the thread takes a timeout for the end of the line. *)
ReadTimeout_Exits ==
    /\ reader = "read"
    /\ wire = << >>
    /\ reader' = "exit"
    /\ UNCHANGED <<boardVars, line, tsQueue, dataQueue, processVars, key, stopReader>>

(* read_serial gives up after its timeout and returns NULL. *)
ReadTimeout ==
    /\ reader = "read"
    /\ wire = << >>
    /\ reader' = "check"
    /\ UNCHANGED <<boardVars, line, tsQueue, dataQueue, processVars, key, stopReader>>

ReadLine ==
    /\ reader = "read"
    /\ wire # << >>
    /\ line' = Head(wire)
    /\ wire' = Tail(wire)
    /\ reader' = "dispatch"
    /\ UNCHANGED <<board, produced, lost, tsQueue, dataQueue, processVars, key, stopReader>>

InsertTimestamp ==
    /\ reader = "dispatch"
    /\ line.kind = "marker"
    /\ tsQueue' = Append(tsQueue, line.id)
    /\ line' = NoLine
    /\ reader' = "check"
    /\ UNCHANGED <<boardVars, dataQueue, processVars, key, stopReader>>

(* Mutant: samples are put in front. *)
InsertSample_Front ==
    /\ reader = "dispatch"
    /\ line.kind = "sample"
    /\ dataQueue' = <<line.id>> \o dataQueue
    /\ line' = NoLine
    /\ reader' = "check"
    /\ UNCHANGED <<boardVars, tsQueue, processVars, key, stopReader>>

InsertSample ==
    /\ reader = "dispatch"
    /\ line.kind = "sample"
    /\ dataQueue' = Append(dataQueue, line.id)
    /\ line' = NoLine
    /\ reader' = "check"
    /\ UNCHANGED <<boardVars, tsQueue, processVars, key, stopReader>>

(* A node could not be allocated: exit(0) ends the whole program.          *)
InsertFails ==
    /\ reader = "dispatch"
    /\ process # "ended"
    /\ reader' = "exit"
    /\ process' = "ended"
    /\ UNCHANGED <<boardVars, line, tsQueue, dataQueue, starttime, opened, block, packed,
                   key, stopReader>>

-----------------------------------------------------------------------------
(* process_data *)

(* write_serial: the sketch waits for any byte, then prints the marker of  *)
(* block 1.  A byte that arrives during boot is gone, and is not repeated; *)
(* a board that is sampling ignores it.                                    *)
SendStart ==
    /\ process = "start"
    /\ process' = "outer"
    /\ IF board = "wait"
       THEN board' = "sampling" /\ wire' = <<Marker(1)>>
       ELSE UNCHANGED <<board, wire>>
    /\ UNCHANGED <<produced, lost, readerVars, dataQueue, starttime, opened, block, packed,
                   key, stopReader>>

(* Mutant: a key only counts while no start time is there. *)
CheckKey_WhenIdle ==
    /\ process = "outer"
    /\ process' = IF key /\ tsQueue = << >> THEN "return" ELSE "timestamp"
    /\ UNCHANGED <<boardVars, readerVars, dataQueue, starttime, opened, block, packed,
                   key, stopReader>>

CheckKey ==
    /\ process = "outer"
    /\ process' = IF key THEN "return" ELSE "timestamp"
    /\ UNCHANGED <<boardVars, readerVars, dataQueue, starttime, opened, block, packed,
                   key, stopReader>>

(* Mutant: the start byte is sent again while no start time comes. *)
NoTimestamp_SendsAgain ==
    /\ process = "timestamp"
    /\ tsQueue = << >>
    /\ starttime' = 0
    /\ process' = "start"
    /\ UNCHANGED <<boardVars, readerVars, dataQueue, opened, block, packed, key, stopReader>>

(* No start time: usleep, and back to the loop's condition. *)
NoTimestamp ==
    /\ process = "timestamp"
    /\ tsQueue = << >>
    /\ starttime' = 0
    /\ process' = "outer"
    /\ UNCHANGED <<boardVars, readerVars, dataQueue, opened, block, packed, key, stopReader>>

GetTimestamp ==
    /\ process = "timestamp"
    /\ tsQueue # << >>
    /\ starttime' = Head(tsQueue)
    /\ tsQueue' = Tail(tsQueue)
    /\ process' = IF opened # 0 THEN "pack" ELSE "open"
    /\ UNCHANGED <<boardVars, reader, line, dataQueue, opened, block, packed, key, stopReader>>

(* Mutant: data_sample_counter is not reset. *)
PackBlock_KeepsCounter ==
    /\ process = "pack"
    /\ packed' = Append(packed, [start |-> opened, samples |-> block])
    /\ process' = "open"
    /\ UNCHANGED <<boardVars, readerVars, dataQueue, starttime, opened, block, key, stopReader>>

(* Mutant: the block is packed under the start time just taken. *)
PackBlock_NextStart ==
    /\ process = "pack"
    /\ packed' = Append(packed, [start |-> starttime, samples |-> block])
    /\ block' = << >>
    /\ process' = "open"
    /\ UNCHANGED <<boardVars, readerVars, dataQueue, starttime, opened, key, stopReader>>

PackBlock ==
    /\ process = "pack"
    /\ packed' = Append(packed, [start |-> opened, samples |-> block])
    /\ block' = << >>
    /\ process' = "open"
    /\ UNCHANGED <<boardVars, readerVars, dataQueue, starttime, opened, key, stopReader>>

OpenRecord ==
    /\ process = "open"
    /\ opened' = starttime
    /\ process' = "inner"
    /\ UNCHANGED <<boardVars, readerVars, dataQueue, starttime, block, packed, key, stopReader>>

(* Mutant: the loop stops one sample late. *)
GetSample_OneMore ==
    /\ process = "inner"
    /\ Len(block) <= N
    /\ dataQueue # << >>
    /\ block' = Append(block, Head(dataQueue))
    /\ dataQueue' = Tail(dataQueue)
    /\ UNCHANGED <<boardVars, readerVars, process, starttime, opened, packed, key, stopReader>>

GetSample ==
    /\ process = "inner"
    /\ Len(block) # N
    /\ dataQueue # << >>
    /\ block' = Append(block, Head(dataQueue))
    /\ dataQueue' = Tail(dataQueue)
    /\ UNCHANGED <<boardVars, readerVars, process, starttime, opened, packed, key, stopReader>>

(* No sample yet: usleep and try again; kbhit is not looked at. *)
WaitForSample ==
    /\ process = "inner"
    /\ Len(block) # N
    /\ dataQueue = << >>
    /\ UNCHANGED vars

BlockComplete ==
    /\ process = "inner"
    /\ Len(block) = N
    /\ process' = "outer"
    /\ UNCHANGED <<boardVars, readerVars, dataQueue, starttime, opened, block, packed,
                   key, stopReader>>

(* process_data returned: main tells the reader thread to stop. *)
Return ==
    /\ process = "return"
    /\ stopReader' = TRUE
    /\ process' = "ended"
    /\ UNCHANGED <<boardVars, readerVars, dataQueue, starttime, opened, block, packed, key>>

(* Somebody presses a key. *)
PressKey ==
    /\ ~key
    /\ key' = TRUE
    /\ UNCHANGED <<boardVars, readerVars, dataQueue, processVars, stopReader>>

Ended == process = "ended" /\ reader = "exit" /\ UNCHANGED vars

-----------------------------------------------------------------------------
Board == BootBoard \/ PrintSample
Reader ==
    \/ CheckStop \/ ReadTimeout \/ ReadLine
    \/ InsertTimestamp \/ InsertSample \/ InsertFails
Process ==
    \/ SendStart \/ CheckKey \/ NoTimestamp \/ GetTimestamp
    \/ PackBlock \/ OpenRecord \/ GetSample \/ WaitForSample \/ BlockComplete \/ Return

Next == Board \/ LoseLine \/ Reader \/ Process \/ PressKey \/ Ended

Spec == Init /\ [][Next]_vars

(* The board samples by its own crystal; both threads are scheduled.       *)
FairSpec == Spec /\ WF_vars(Board) /\ WF_vars(Reader) /\ WF_vars(Process)

-----------------------------------------------------------------------------
TypeOK ==
    /\ board \in {"boot", "wait", "sampling"}
    /\ produced \in 0 .. N * MaxBlocks
    /\ wire \in Seq(Lines) /\ Len(wire) <= LineCapacity
    /\ lost \subseteq Lines
    /\ reader \in {"check", "read", "dispatch", "exit"}
    /\ line \in Lines \cup {NoLine}
    /\ tsQueue \in Seq(BlockNumbers)
    /\ dataQueue \in Seq(SampleNumbers)
    /\ process \in {"start", "outer", "timestamp", "pack", "open", "inner", "return", "ended"}
    /\ starttime \in BlockNumbers \cup {0}
    /\ opened \in BlockNumbers \cup {0}
    /\ block \in Seq(SampleNumbers) /\ Len(block) <= N
    /\ packed \in Seq(Records)
    /\ key \in BOOLEAN
    /\ stopReader \in BOOLEAN

(* The board is silent, all it sent was taken, and the open block still    *)
(* needs samples: nothing can end the loop over the data queue any more.   *)
Starved ==
    /\ process = "inner" /\ Len(block) < N
    /\ dataQueue = << >> /\ line = NoLine /\ wire = << >>
    /\ produced = N * MaxBlocks

NothingRecorded == opened = 0 /\ packed = << >>

LostSamplesBefore(n) == Cardinality({m \in 1 .. n - 1 : Sample(m) \in lost})
LostMarkersUpTo(k) == Cardinality({m \in 1 .. k : Marker(m) \in lost})

(* How many samples after its block's first one a record begins.           *)
Offset(record) == record.samples[1] - ((record.start - 1) * N + 1)

(* Every record begins exactly as many samples too late as samples were    *)
(* lost before it, and a block too early for every marker lost: the two    *)
(* queues never exchange or mix anything themselves, but one lost line     *)
(* shifts every later record of the run, because process_data pairs start  *)
(* times and samples by counting only.                                     *)
OffsetIsLosses ==
    \A i \in 1 .. Len(packed) :
        Offset(packed[i]) = LostSamplesBefore(packed[i].samples[1])
                              - N * LostMarkersUpTo(packed[i].start)

(* With nothing lost, a record holds exactly the samples printed between   *)
(* its marker and the next one.                                            *)
RecordsAligned ==
    lost = {} =>
        \A i \in 1 .. Len(packed) :
            /\ packed[i].start = i
            /\ packed[i].samples = [j \in 1 .. N |-> (i - 1) * N + j]

(* All samples between the board and the archive, each with its stage - a  *)
(* record, the open block, the data queue, the line - and its place there. *)
Pipeline ==
    LET stage(k, s) == {<<k, i, s[i]>> : i \in 1 .. Len(s)}
        lines == <<line>> \o wire
    IN  (UNION {stage(k, packed[k].samples) : k \in 1 .. Len(packed)})
          \cup stage(Len(packed) + 1, block)
          \cup stage(Len(packed) + 2, dataQueue)
          \cup {<<Len(packed) + 3, i, lines[i].id>> :
                    i \in {j \in 1 .. Len(lines) : lines[j].kind = "sample"}}

Before(p, q) == p[1] < q[1] \/ (p[1] = q[1] /\ p[2] < q[2])

(* Every sample that was printed and not lost is somewhere on its way, in  *)
(* order and once: no interleaving of the threads drops, repeats or swaps  *)
(* samples.                                                                *)
SamplesConserved ==
    /\ {p[3] : p \in Pipeline} = {n \in 1 .. produced : Sample(n) \notin lost}
    /\ \A p, q \in Pipeline : Before(p, q) => p[3] < q[3]

(* A sample reaches the data queue only after the start time of its block  *)
(* reached the timestamp queue (unless that marker was lost): process_data *)
(* may take start times without looking at the samples.                    *)
TimestampFirst ==
    \A n \in Range(dataQueue) \cup Range(block) :
        LET k == (n - 1) \div N + 1
        IN  \/ Marker(k) \in lost
            \/ k \in Range(tsQueue) \cup {starttime, opened}
            \/ \E i \in 1 .. Len(packed) : packed[i].start >= k

(* The start byte is sent once.  If it went out while the board was still  *)
(* booting, nothing is ever recorded: the board waits for a byte, the      *)
(* program for a marker.                                                   *)
LostStartIsFinal ==
    [](process # "start" /\ board # "sampling" => []NothingRecorded)

(* Every whole block is packed once the next marker was printed, unless a  *)
(* line gets lost.  When the program ends, by a key or by exit(0) in the   *)
(* reader thread, that costs only the open block and those behind it in    *)
(* the queues: they are never packed, but every block before them was.     *)
BlocksPacked ==
    \A k \in 1 .. MaxBlocks :
        produced >= k * N ~>
            Len(packed) >= k \/ (process = "ended" /\ k >= opened) \/ lost # {}

(* A key press ends process_data, then the reader thread, after at most    *)
(* one more record, however the two threads, the board, the losses and the *)
(* press interleave - unless the board falls silent inside the open block: *)
(* process_data then waits for its samples for ever and never looks at the *)
(* keyboard again.                                                         *)
KeyStops ==
    \A n \in 0 .. MaxBlocks :
        key /\ Len(packed) = n ~>
            /\ Len(packed) <= n + 1
            /\ (process = "ended" /\ reader = "exit") \/ []Starved
=============================================================================
