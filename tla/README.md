# SDAS in TLA+

SDAS is a seismic digitizer. An Arduino (`arduino/3_channel`) samples three
24-bit converters at 200 Hz and prints the values on a serial line; the program
in `code/src`, running on a Raspberry Pi, stamps blocks of samples with the NTP
disciplined clock, packs them as miniSEED records and hands them to a
ringserver over DataLink. This directory models the parts of that chain where
threads, clocks, lost input and failing calls meet, checks them with TLC, and
proves the central facts with TLAPS for all sizes.

All paths are relative to the repository.

## 1. Inventory

| Component | State | Operations | What is hard | What makes it correct |
|---|---|---|---|---|
| Sketch `3_channel.ino` | printed samples, `counter` | wait for any byte, print `*`, print a sample, print `*` after every 200 | the start byte comes once; the line has no flow control | a `*` precedes every block |
| Serial line and `serialutils.c` | tty buffer, `line_data` | open, flush, `read_serial` with one timeout per line | a timeout in the middle of a line drops what was read | lines come out in order, whole |
| Reader thread (`main.c: read_serial_buffer`) | the current line | stamp and queue a `*`, queue a sample, exit on failure, stop flag | runs against `process_data` and against `main`'s clean-up | start time queued before its samples |
| `queue.c` (two queues) | linked list with a dummy, two locks | create, insert, get, free | the two ends share the dummy's `next_p` without a common lock; nodes are freed by the other thread | linearizable FIFO, no freed node touched, no leak |
| Clock stamps (`utils.c`) | – | `current_utc_hptime`, `starttime_correction` | rounding across a second; NTP may step the clock | start times on the 5 ms grid, near the clock |
| `process_data`, `time_correction` (`msrecord.c`) | block arrays and counter, open record, `endtime` | take a start time, correct, pack, open, collect a block | joins two queues by counting; loops that only leave through a window | records abut; none is empty; arrays are as long as indexed |
| `msr_pack` (`libmseed/pack.c`, changed by the program) | encoding state, sequence number | split a block into records, send each | failure in the middle of a block | records of a channel cover its samples |
| DataLink client (`libdali`) | socket, `iotimeout` | connect, write with acknowledgement | late or missing replies, a restarted server | an acknowledgement belongs to its packet |
| `main` | resources of the process | start-up with error exits, clean-up | the reader thread is detached, not joined | everything taken is released; nothing is used after that |
| Hourly save | window begin | window, `slarchive` command | hour boundary, seconds field | windows cover all records |
| Scripts | – | start, power switch, monitors | ordering of services | – |

Interaction: sketch → serial line → reader thread → two queues →
`process_data` → `msr_pack` → `dl_write` → ringserver; `main` starts the thread,
calls `process_data` and takes everything down when that returns; the keyboard
(`kbhit`) ends `process_data`.

`PROJECT.json` lists every component with its status, and the hazards at the
lines where they bite.

## 2. Modules

| Module | Models | Used by |
|---|---|---|
| `Fifo` | what the callers of `queue.c` rely on: a linearizable queue | refined by `SampleQueue` |
| `SampleQueue` | `queue.c`, one access to shared memory per step | `MC_SampleQueue`, `SampleQueue_proofs` |
| `TimeCorrection` | stamping, rounding, `msr_endtime`, `time_correction`, reset after packing | `MC_TimeCorrection`, `TimeCorrection_proofs` |
| `Acquisition` | board, line, reader thread, both queues, `process_data`, stop | `MC_Acquisition`, `Acquisition_proofs` |
| `MsrPack` | from a block to the records of three channels: `msr_pack`, its failures, the times and numbers it gives out | `MC_MsrPack`, `MsrPack_proofs` |
| `RecordLog` | what `process_data` may rely on when it writes records: a log | refined by `DataLink` |
| `DataLink` | `dl_write`, the socket, the ringserver's thread for the connection | `MC_DataLink`, `DataLink_proofs` |
| `Lifecycle` | `main` from its first call to its last, with the detached reader thread | `MC_Lifecycle`, `Lifecycle_proofs` |
| `SerialLine` | a line from `println` to the sample block, character by character | `MC_SerialLine`, `SerialLine_proofs` |
| `SaveWindow` | the hourly save: its windows, the command, what it selects from the ring | `MC_SaveWindow`, `SaveWindow_proofs` |

Every module has its mutants next to the action they change
(`Action_WhatIsWrong`, with a comment that starts with "Mutant"). They are never
part of `Next`; each is a plausible slip in that piece of code, and the run
named in `PROJECT.json` must find the property violated when the mutant takes
its action's place.

### SampleQueue and Fifo

`front_p`, `rear_p`, `next_p`, `sample` and the two mutexes are variables; a
thread's position (`pc`) is the statement it executes next. A mutex is `Null` or
its holder. Statements that touch only private memory are merged with their
neighbour (filling a new node with `malloc`). `malloc` may return any address
that is not live, including one freed a moment ago, and may fail. The order of
memory accesses is that of the program text: a consumer that sees a node in
`next_p` also sees its contents. C gives no such promise for the one unlocked
meeting point (`queue.c:71` against `84`); it holds in practice because the node
is filled before `pthread_mutex_lock` of line 64, which is a full barrier on the
Pi's ARM cores, and the reader depends on the address it loads.

`Fifo` is the promise: insert and get each take effect at one instant between
call and return. `SampleQueue!Contents`, `put`, `got` map the list to it:
line 71 inserts, line 106 removes, line 84 answers "empty".

Two simplifications: the copies' own `malloc` calls (lines 61, 92) succeed, and
`get_starttime` (which clears its value before moving `front_p`, both under
`front_lock`) is treated in `get_data_buffer_sample`'s order.

### TimeCorrection

Times are microseconds, arithmetic is the code's (integer division, the +0.5 of
`msr_endtime` as exact rational rounding). One iteration of a correction loop is
one step, so "the loop never ends" is visible as a behaviour. The clock reading
at each marker is an input: `Advances` says how far it may move between two
markers and covers the board's drift, lateness of the line, lost markers (two
blocks at once) and a clock that is set back. `last` remembers the record packed
last.

### Acquisition

A marker is numbered by the block it begins, a sample by its position since the
board was started; the program sees neither number. Each queue operation is one
step, which `SampleQueue` implementing `Fifo` justifies. `lost` is a history of
the lines that never arrived (full tty buffer, `read_serial` timing out in the
middle of a line, noise). `Restarts` gives the initial states in which the board
is already sampling: usually opening the port resets it, but not always.

### MsrPack

It begins where `TimeCorrection` ends: `BlockDone` picks a correction and takes
the start of the next block one period after the last sample (`RecordsTile`).
One call of `msr_pack` per channel is `BeginPack`, then one `PackRecord` per
record; `BeginFails` and `PackFails` are its error returns. How many samples a
record takes depends on the compression of the data and is any number.
`header` is kept apart from `starttime` and `sequence` because the code keeps
them apart: the header is written once and then patched after each record.
`last` and `dropped` are histories: the last record of a channel and what no
record got since.

### DataLink and RecordLog

One action per outcome of a call: a packet is sent into the open connection or
into the void; `dl_write` then takes a reply, gives up after `iotimeout`, or
finds the stream ended. `socket` is what the kernel knows of a reset: the first
packet sent to a closed peer is answered by one, and depending on whether the end
of the stream came before it, the next `send` reports an error or raises SIGPIPE
at once. The server's thread stores the packet and replies (`Store`, `Reply`) or
refuses and disconnects (`Refuse`); it may close at any time. `Timely` says that
it answers within the 60 s of `iotimeout`; without it `ReceiveTimeout` is
possible. `RecordLog` has the ring and the results only.

### Lifecycle

`StartSteps` is the sequence of calls in `main`; each row says what the call
takes and what the error exit after it gives back; `LeftBehind` is what a failing
call may keep of its own. `Start` and `StartFails` go
through it, `Return`, `Wake` and `Release` through the end of `main`. The reader
thread is modelled with its two read loops, the timeout they share and the three
steps of an insert that matter to a queue being freed.

Whether the thread is gone when the queues are freed is a question of time.
The unit is one nap of `read_serial`, 10 ms. `Tick` lets a unit pass when the
reader thread is napping or gone; reading characters takes no time worth counting
against it. `usleep` sleeps at least as long as asked, so a unit may pass during a
nap without `total_sleep` seeing it: a slip. `main` may be as slow as it likes.
`held` are the resources taken; a reader thread that touches a queue that is not
held is `"undefined"`, and the behaviour ends there.

### SerialLine

`Acquisition` lets whole lines get lost; this module shows what becomes of a line
when characters get lost (`LoseCharacter`), when the board pauses inside it as long
as `read_serial`'s timeout (`CutLine`) and when a read fails although `select` saw
input (`ReadError`). A character keeps the line, field and place it was printed
at, so "this line came through" (`good`) can be told from the tokens. `CallRead`,
`SkipLineEnd`, `ReadFirst` and `SkipNap` are the first loop of `read_serial`,
`ReadValue`, `ReadError`, `ReadLineEnd`, `ValueNap` and `CutLine` the second; they
share `totalSleep` as in the code. `DispatchMarker` and `DispatchSample` are the
`strcmp` of the reader thread and the `strtok`, copy and conversion of
`process_data`; a place that gets no token keeps the old one. A write past the end
of `line_data` or `data_sample_token` ends the behaviour (`"undefined"`).

### SaveWindow

Times are sample periods. `PackBlock` is one turn of `process_data` after a start
time came, as far as the save is concerned: the block is packed, the hour of its
start compared with that of `starttime_save`, and `RunSaveCommand` starts
`slarchive` for the window and begins the next one at second + 1, keeping the hour
of the end. The commands run in the background (`pending`) and end in `Archive` or
`ArchiveFails`. The question is told of one record, any one (`Watch`): how many
windows select it. `Stop` and `Restart` may happen at any time.

## 3. Runs

| Run | Asks | Bounds and why they suffice |
|---|---|---|
| `queue` | memory safety, leaks, FIFO refinement with fairness: every side makes progress | two inserting threads and one taking thread, one more than the program has (the locks are contended); two values; three nodes: the list can be empty, hold one and hold two, and addresses are reused at once. No symmetry, because liveness is checked |
| `correction` | abutting records, array sizes, nearness to the clock, when a correction ends and when it never does | 200 Hz, blocks of 4 samples; readings start just before a second boundary and run past it; the clock advances by -7 ms to 40 ms between markers: set back, early, late, one marker lost; loops that never end are followed to -4 samples and to three blocks (`LoopBound`) |
| `acquisition` | what a record holds, with and without losses; every block packed; a missed start byte is final; a key stops the program | 3 blocks of 2 samples (a block shifted by one sample, or short of one, differs from a whole one), 3 lines under way, any 3 lines lost (those missed before the start count), `malloc` failing at any insert, the board still booting or already inside a block. The board is finite, so `KeyStops` excepts only what stays silent: nothing in queue, hand or line, a block short of samples, for ever |
| `pack_blocks` | record times, coverage of each channel, sequence numbers, under failing packing | 3 blocks of 2 to 4 samples, 2 channels, the sequence number wraps after 3; the blocks lie across a second boundary |
| `link_timely` | refinement of the log with a server that answers in time | 8 records: all ways to fail need at most three |
| `link_late` | which reply is taken for which record, order of the ring, progress | 5 records: up to four late replies can be queued up |
| `link_lateack` | does a positive return mean this packet was stored (not after a timeout) | 3 records |
| `link_sigpipe` | does the send function always return (not after the server closed) | 3 records |
| `lifecycle` | what error exits release; how late a line must come to meet a freed queue; whether the skipped unlock can block anybody | timeout and sleep of 3 naps each (the code: 100 each), 2 slips, 5 characters: two lines, one of which ends after the flag |
| `serial_line` | which lines a disturbance spoils, how many lines are counted, when a false marker or an overrun can happen, the conversion | numbers of two digits, `line_data` of 14 and tokens of 4 bytes (room as in the code: a bit more than a line and a number), 2 samples per block, 5 lines, a timeout of 2 naps, any 3 disturbances; readings at the edges of 24 bits |
| `save_window` | how often each record is asked for, how long it waits, what a stop costs | blocks of 199, 200 and 202 samples, of an hour and of 23 hours and a sample; the first starts two seconds before the end of an hour or one before midnight; 5 blocks, 2 starts of the program |
| `save_continuous` | is every record saved (not the one that ends within a second of a window's end) | as above |

### Fairness

Weak fairness only: both threads are scheduled by the kernel and poll with short
sleeps, so a thread that can take a step does. The board samples by its own
crystal (`Acquisition`). Nothing is assumed of the keyboard, of line losses or of
`malloc`. In the queue insertions need not happen, but one that was called goes
on, and a mutex that is free is taken; fairness is stated for each side, not for
each of the threads that compete on it. `TimeCorrection` needs the loops to go
on. In `DataLink` the client's calls return when they can and the server works on
what it has read; the connection need never close. The other modules check
safety only.

Deadlock is checked in every run. States the program may end in have an explicit
stuttering action (`Stopped`, `Ended`).

## 4. What the checks show

* The two queues can be treated as atomic FIFO queues; the unprotected sharing
  of the dummy's `next_p` and the moment in which `rear_p` dangles are harmless.
* Without losses the two queues are joined correctly in every interleaving.
  One lost line shifts all later records of the run, by exactly the loss
  (`OffsetIsLosses`): nothing in the program resynchronises.
* The correction makes records abut exactly, for any drift, as long as the rate
  is 200 Hz and the clock does not step back; then it always ends. If the clock
  steps back behind the record's start the removal loop never ends, at any rate
  (`StepBackIsForever`, `OnlyStepBackEmpties`). The acceptance window is 5 ms wide
  whatever `samprate` says: at 100 Hz both loops jump over it whenever two start
  times are a multiple of 10 ms apart (proved: `MissedWindowLoops`).
* No interleaving and no loss lets a sample overtake the start time of its block
  (`TimestampFirst`) or changes the order of samples (`SamplesConserved`).
* Whole blocks are packed; a key or `exit(0)` in the reader thread costs the open
  block and what is behind it in the queues, never a block before it
  (`BlocksPacked`).
* After a key press at most one more record is packed, and both threads end - unless
  the board has fallen silent inside the open block (`Starved`) and stays so
  (`KeyStops`): then the program waits for the missing samples for ever without
  looking at the keyboard. A start byte lost during boot is final
  (`LostStartIsFinal`).
* Packing may fail for any channel at any point and only leaves a hole of exactly
  the samples that failed: times and sequence numbers of later records are right
  (`ChannelsInStep`, `HolesAreDrops`, `SequenceCounts`). A sequence number that
  is missing at the server therefore means a record that was not stored.
* The times announced with a record include it; the announced end is that of its
  last sample just when the record takes the whole block (`TimesCoverRecord`). When
  a block takes several records, every one of them is announced too long: the end is
  that of the block counted from the start of the record. (`connection.c:520` calls
  it the "Data end time for packet".) The property states this difference, it does
  not forbid it.
* With a server that answers in time, what is reported stored is stored, in order
  and once (`ImplementsLog`). After one late reply each later acknowledgement
  belongs to an earlier record (`AckSkew`, `link_lateack`), though nothing is
  stored twice or out of order. A closed connection is never opened again; the
  second or third write after it ends the program by SIGPIPE (`link_sigpipe`).
* `main`'s sleep protects the queues as long as it outlasts a whole timeout of
  `read_serial` plus all time lost in its naps (`SleepCoversTimeout`). In the code
  `sleep(1)` equals `TIMEOUT`, so a single slip is enough for a line that comes in
  late to be inserted into a queue that is gone. At most one line is read after
  the flag (`TypeOK`, `late`).
* The branch of `insert_data_buffer` that returns with `rear_lock` held is only
  taken during the teardown, and nobody asks for that lock again
  (`LeftLockBlocksNobody`).
* All error exits of `main` give back what was taken before, nothing else, except
  for the mutex when the thread cannot be created (`ErrorExitsRelease`). A failing
  call may leave its own: half a connection, some of the records, and the parsed
  configuration when a parameter is missing (`LeftBehind`). The
  comment at `main.c:141-142` expects that the program is restarted when there is
  no connection; at this commit nothing does that.
* Each lost character, pause or failing read spoils at most the line it hits
  (`DamageIsLocal`), so stale tokens never get into a line that arrived whole, and
  at most one line is lost for each (`LinesCounted`): the losses of `Acquisition`
  are the right abstraction. A lone separator that passes for a marker takes a
  pause and a whole lost number in one line (`FalseMarkersAreRare`).
* The 33 bytes of `line_data` and the 10 of a token hold every line unless
  characters get lost or reads keep failing (`OverrunNeedsLoss`); pauses alone never
  overrun them.
* Negative readings come out one too high, so -1 and 0 are the same sample, and
  nothing else is confused (`ConversionKeepsOrder`). This is the code's result as it
  is, not a judgement: no document says what it should be.
* Second 60, midnight and silences do not disturb the save windows: each record is
  asked for once, with two exceptions at the end of a window (`SavedOnce`): the
  record that made the save happen is asked for twice if it starts on the full
  second and lasts longer than one, and never if it starts later and ends before
  the next window begins (`save_continuous`; `config.cfg:17` calls the save
  continuous). A failed request
  is not repeated; a stop loses at most what was packed within an hour
  (`WaitsOneHour`, `StopIsFinal`), unless the board was silent for most of a day.

## 5. Proofs

`SampleQueue_proofs` proves, for any sets of threads, values and addresses:
`TypeOK`, `NoUseAfterFree`, `DanglingRearIsPrivate`, `NoLeak` and that
`SampleQueue!Spec` implements `Fifo!Spec`. None of them is inductive. The
invariant `IInv` says that the history `chain` is the list (`next` leads from
each of its nodes to the one after it, the last has none, no node occurs twice),
that `front` is its head, that `rear` is its last node except between lines 71
and 72, and, for each thread, what its position says about the nodes it holds:
a producer before line 71 owns a live node outside the chain, a consumer before
line 106 holds the first two nodes, after it the removed one. `Owned` adds that
two threads never own the same node: it is what makes `free` safe. There is one
lemma per action; the refinement then needs only how each action changes the
values along the chain.

`TimeCorrection_proofs` proves for 200 Hz and a clock that moves on by at least
one sample period between markers (`Rate200`, `ClockMovesOn`), for every block
size: records abut (`GaplessRecords`), none is empty and the arrays fit
(`RecordsKeepSamples`), start times are on the grid and within 3 ms of the clock
(`StartsNearMarkers`). The argument: start times are on the 5 ms grid, so end
times are too; on the grid the acceptance window `0 < diff <= 5000` contains one
point, hence leaving a loop through it means the record ends exactly one period
before the next start. `Phase` carries `endtime` and `correction` as functions of
the record through the loops. Without `ClockMovesOn` two more facts are proved:
`RemovalNeverEnds` at any rate (below one sample `msr_endtime` stands still and the
window has been missed), and `OnlyStepBacks` at 200 Hz (an end time that sinks by
5 ms cannot jump over a window of 5 ms); both for blocks of two samples or more.
For the same blocks `CorrectionsConverge` is the part of `CorrectionEnds` that the
prover can do: towards a start time after the record's own, both loops have a
variant. `Remaining`, the distance from the record's end to the next start, is a
whole number of periods and not zero inside a loop (`RemainsWhole`), each pass takes
one period off it and the last pass leaves (`StepConverges`). That the pass is ever
taken is the fairness of the thread and stays with TLC.
At 100 Hz `MissedWindowLoops` shows the opposite: an end time that is a multiple
of 10 ms away from the next start passes the window in both loops.

`Acquisition_proofs` proves, for any block size, number of blocks, line capacity
and losses: `TypeOK`, `TimestampFirst`, `RecordsAligned` and `LostStartIsFinal` (from
`Silent`: nothing reaches the program before the board samples), and that the
exception of `KeyStops` lasts for ever once it holds (`SilenceIsFinal`). For the first two the
invariant follows each block's marker (`MarkerAhead`): it is lost, or taken, or in
front of all samples of its block on the way - in the queue, in the reader's hand
or earlier on the wire. For `RecordsAligned` it says that, as long as nothing was
lost, everything between the board and `process_data` is one sequence that both
ends can tell by counting (`Aligned`): each line on the wire is `After` the one
before it, the first of them is `Expected` from the number of samples and start
times that reached the queues, and samples never run a block ahead of, or a block
behind, the start times (`InBlock`). `PrintKeepsCount`, `ReadKeepsCount`,
`InsertKeepsCount` and `ProcessKeepsCount` carry that over the four places a line
can move between.

With losses the same theory gives each line a place instead of a number: the
`Rank` of a line is how many lines of its kind up to it were not lost. A
`Frontier` separates, for samples and for markers, the lines the program has read
from those lost or still on the wire; behind it the i-th sample in records, block,
queue and hand has rank i (`SamplePlaces`), and so has the i-th start time
(`MarkerPlaces`). A later loss changes no place behind the frontier (`RankStays`).
`OffsetIsLosses` follows because a line's number is its rank plus the losses
before it. `SamplesConserved` follows by going through the stages of the pipeline,
each of which begins where the one before it ends (`Base`, `Size`): a sample not
lost is in exactly the place its rank says, or on the wire.

`MsrPack_proofs` proves for 200 Hz (`Rate200`), any number of channels, block
size, correction and sequence limit: `TypeOK`, `ChannelsInStep`, `HolesAreDrops`,
`SequenceCounts`, `TimesCoverRecord`. The invariant follows a channel through the
block: a channel already packed has `CoveredUpTo` at the end of the block, one
not yet packed at its start, the one being packed `total` samples further; and
the header agrees with the record structure. `TimesCoverRecord` is about the step that
makes a record: only `PackRecord` does (`LastChanges`). Header times keep tenths of
milliseconds, which loses nothing because start times are on the 5 ms grid.

`DataLink_proofs` proves, for any number of records and `Timely`: `AckMeansStored`
and that `DataLink!Spec` implements `RecordLog!Spec`.
`ImplementsLog` alone is not inductive: what makes it true is that on an open
connection the one packet under way is in exactly one place - unsent, with the
server, stored and unanswered, or in the reply (`OpenPart`) - and that a reply
at hand is for the record being written (`ReplyPart`). `link_lateack` shows the
assumption `Timely` is needed. Without it three facts remain and are proved:
`TypeOK`; `StoredOnceInOrder`, from the order of ring and of what is under way
behind it (`InOrder`); and `AckSkew`, whose invariant `Skew` says that the replies
at hand are for the records from `First` on, one after the other, where `First` is
the record at hand less the writes that failed before it, that an ERROR is the
last reply of a connection, and that on an open connection every record sent is in
the ring or behind it.

`Lifecycle_proofs` proves all properties of `Lifecycle` for any timeout, sleep,
number of slips and characters. `SleepCoversTimeout` needs `TimePart`: from the
flag on, `elapsed <= naps + slips`, because each unit of `main`'s sleep is a nap
of the thread or a slip, and a thread that inserts has `naps < TimeoutNaps`.
`ErrorExitsRelease` needs that what is held before a call is what its exit
releases, which `StartTable` derives row by row. `LongSleepIsSafe` turns the
property round: a sleep of `TimeoutNaps + MaxSlips` would make the teardown safe.

`SerialLine_proofs` proves all properties of `SerialLine` for any block size, field
width, array sizes (a line and a number fit), timeout and amount of noise.
`ConversionKeepsOrder` is arithmetic on 24 bits. The others are accounts: each
invariant counts what is under way as well, so that every step pays for what it
takes.

* `LinesCounted`: lines delivered or about to be, plus losses and cuts, cover the
  lines printed so far (`NoneForgotten`), and never exceed them (`NoneInvented`).
* `TypeOK` needs `Bounded` (no read is under way once the bound of damage was
  passed, the timeout was not reached inside a read, a line under way has a
  character) and what a token is: a run of digits of `line_data` (`TokenIsRun`).
* `FalseMarkersAreRare`: a separator alone in `line_data` has cost the character or
  pause that made it the first, plus one character for each that went by since
  (`Paid`, `FalseMarkersPaid`); by the end of its line these are as many as a number
  has digits, because `Column` says where in its line a character was printed.
* `OverrunNeedsLoss`: before the second loss a line is no longer than what was
  printed of it and the failing reads (`LengthBound`). Before the first, `line_data`
  holds neighbouring columns of one line, in order, each read error repeating one
  (`OneLine`); hence two runs of digits belong to two numbers (`RunsDiffer`), there
  are at most three and none is longer than a number and the errors.
* `DamageIsLocal`: the lines that did not come through, and the one under way if it
  was hit, are no more than the disturbances (`MissingPaid`). A line that was not hit
  is a prefix of its text (`Unspoiled`), and a whole text splits into its three
  numbers (`SplitText`), so that nothing is left of the line before.

`SaveWindow_proofs` proves `TypeOK`, `SavedOnce`, `WaitsOneHour` and `StopIsFinal`
for any block lengths and any number of starts. The invariant relates the window
to the end of the last one (`Windows`), says of a record that no window has passed
that it is still to be asked for (`Waiting`) and in which hour (`SameHour`), and of
one passed that it was asked for as often as its place at the end of a window says
(`Passed`); `Left` holds what a stop leaves behind.

Only proved: the type invariants of `SampleQueue`, `MsrPack`, `DataLink` and
`SaveWindow` and `DanglingRearIsPrivate`, which the runs leave out because the
other invariants break first.

Only model-checked: the liveness properties (`ImplementsFairFifo`,
`CorrectionEnds`, `BlocksPacked`, `KeyStops`, `EveryWriteEnds`), which the prover
cannot do; for `CorrectionEnds` the variant is proved (`CorrectionsConverge`).
Every other property of the passing runs has a theorem.

No module declares a RECURSIVE operator. The few inductions over data that the
proofs need - a finite set of positions has a least one, and an n-th - are done by
counting: in a set of c numbers, the number of smaller ones is an injection into
`0 .. c - 1`, so it takes every value (`NthOf`, `Least`).

## 6. Not modelled

* Most of the 360 000 lines of the repository are third-party code kept with the
  program: pcre, libmseed, libdali, libslink, ringserver, slarchive, and a second
  copy of all of it under `Version4`. What the program changed in it or relies on
  is modelled (`pack.c`, `msr_endtime`, `dl_write`, `HandleWrite`, `RingAfter`); the
  rest is not this system's logic.
* The configuration parser copies settings once at start (that it keeps the parsed
  file on an error is in `Lifecycle`); the value strings in the queues' nodes; `mseedfilesetup.c` is
  called by nothing; `startup.py` does not parse at this commit (lines 47 and 50
  lack a colon); the power switch counts the seconds a button is held and calls
  `shutdown`, which is a `Stop` of `SaveWindow`; the monitoring scripts poll a value
  and log it.
* Opening and configuring the serial port, and numbers of varying width: every
  number of `SerialLine` has `FieldWidth` digits.
* The Steim encoders: how many samples fit into a record is any number in
  `MsrPack`, and one block is one record in `SaveWindow`, whose ring does not wrap
  within the hour. `Selected` stands for the begin of the server's cursor
  (`RingAfter`), `NotAfter` for the server's test of the end time
  (`slclient.c: SLStreamPackets`).
* Sends of `dl_write` that block or are partial, replies that come in pieces,
  `dl_disconnect`.

## 7. Plan

1. `SampleQueue`, `TimeCorrection`, `Acquisition` with their runs and proofs: done.
2. `MsrPack`, `RecordLog`, `DataLink` with their runs and proofs: done.
3. `Lifecycle` with its run and proofs: done.
4. `SerialLine` and `SaveWindow` with their runs and proofs; proofs about
   `Acquisition` and about `DataLink` with late answers: done.
5. `OffsetIsLosses` and `SamplesConserved`, and all properties of `SerialLine`, for
   any sizes: done.
6. A composed pipeline, `Acquisition` to `MsrPack` to `DataLink`, against an
   abstract archive: each stored record holds the samples its times say, except
   for the losses counted.
7. Variants for the other loops, as `CorrectionsConverge` gives one for the
   corrections: packing a block, and a write with its retries.
