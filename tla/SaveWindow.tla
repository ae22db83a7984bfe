---------------------------- MODULE SaveWindow ----------------------------
(***************************************************************************)
(* The hourly save of process_data.  After a block was packed, the hour of *)
(* its start is compared with the hour the save window began in; when they *)
(* differ, slarchive is started in the background with a time window, and  *)
(* the next window begins one second after the end of this one             *)
(* (msrecord.c: extract_datetime, run_save_command).                       *)
(*                                                                         *)
(* slarchive asks the ringserver for the window (network.c); the server    *)
(* starts at the first record that ends after the begin (ring.c:           *)
(* RingAfter) and sends until one starts after the end (slclient.c).       *)
(*                                                                         *)
(* Times are in sample periods of 5 ms.  Records tile the time, as         *)
(* TimeCorrection shows (RecordsTile); a silence of the board is padded by *)
(* a long record.  A block is taken to fit into one record per channel, so *)
(* the end announced for it is its last sample, and the three channels are *)
(* treated alike.  What the archive gets is told of one record, any one:   *)
(* the one watched.                                                        *)
(***************************************************************************)
EXTENDS Integers

CONSTANTS
    FirstStarts,    \* start times of the very first block
    Lengths,        \* samples a block may have after its correction
    OffTimes,       \* from the start of the block open when the program was
                    \* stopped to the first start time after a restart
    MaxBlocks,      \* bound: blocks packed in all runs
    MaxRuns         \* bound: times the program is started

PerSecond == 200
PerHour == 3600 * PerSecond
HoursPerDay == 24

(* After a restart, main sleeps four seconds before the board is started.  *)
(* A block of one sample would take two markers within 7 ms.               *)
ASSUME SaveAssumption ==
    /\ FirstStarts \subseteq Nat \ {0}
    /\ Lengths \subseteq Nat \ {0, 1}
    /\ OffTimes \subseteq Nat
    /\ \A d \in OffTimes : d >= 4 * PerSecond
    /\ MaxBlocks \in Nat /\ MaxRuns \in Nat \ {0}

-----------------------------------------------------------------------------
(* extract_datetime keeps the whole second ... *)
Second(t) == (t \div PerSecond) * PerSecond

(* ... and the hour of the day. *)
AbsoluteHour(t) == t \div PerHour
Hour(t) == AbsoluteHour(t) % HoursPerDay

NoRecord == [start |-> 0, end |-> 0, after |-> 0]

(* slclient.c skips a record that starts after the end of the window.      *)
NotAfter(r, to) == r.start <= to

(* The record at r.start .. r.end is sent for the window from .. to.  Ends *)
(* grow along the ring, so the records after the first that ends late      *)
(* enough (RingAfter) do so too; starts grow, so none that qualifies       *)
(* follows one that was skipped.                                           *)
Selected(r, from, to) == r.end > from /\ NotAfter(r, to)

-----------------------------------------------------------------------------
VARIABLES
    process,        \* process_data: "start", "collect", "stopped"
    runs,           \* times the program was started
    blocks,         \* blocks packed so far
    recStart,       \* msr->starttime: start of the open block
    starttimeSave,  \* starttime_save: its time, and the hour it says
    lastEnd,        \* history: end of the last window (begin less a second)
    lastPacked,     \* history: start of the block packed last
    watched,        \* history: the record watched; after: lastEnd when packed
    here,           \* history: the run that packed it goes on
    silent,         \* history: some block since lasted more than 23 hours
    pending,        \* slarchive processes that will get the watched record
    copies,         \* history: times it was archived
    failed          \* history: times slarchive failed to get or write it

runVars == <<process, runs, blocks, recStart, starttimeSave, lastEnd, lastPacked>>
watchVars == <<watched, here, silent>>
archiveVars == <<pending, copies, failed>>
vars == <<runVars, watchVars, archiveVars>>

Init ==
    /\ process = "start"
    /\ runs = 1
    /\ blocks = 0
    /\ recStart = 0
    /\ starttimeSave = [time |-> 0, hour |-> 0]
    /\ lastEnd = 0
    /\ lastPacked = 0
    /\ watched = NoRecord
    /\ here = TRUE
    /\ silent = FALSE
    /\ pending = 0
    /\ copies = 0
    /\ failed = 0

(* The first start time, of the first run or after a restart.              *)
FirstTimes == IF recStart = 0 THEN FirstStarts ELSE {recStart + d : d \in OffTimes}

(* Mutant: a window begun before is kept. *)
FirstStart_KeepsWindow ==
    /\ process = "start"
    /\ \E t \in FirstTimes :
        /\ recStart' = t
        /\ IF starttimeSave.time = 0
           THEN /\ starttimeSave' = [time |-> Second(t), hour |-> Hour(t)]
                /\ lastEnd' = Second(t) - PerSecond
           ELSE UNCHANGED <<starttimeSave, lastEnd>>
    /\ process' = "collect"
    /\ UNCHANGED <<runs, blocks, lastPacked, watchVars, archiveVars>>

(* It opens the first block and begins the window. *)
FirstStart ==
    /\ process = "start"
    /\ \E t \in FirstTimes :
        /\ recStart' = t
        /\ starttimeSave' = [time |-> Second(t), hour |-> Hour(t)]
        /\ lastEnd' = Second(t) - PerSecond
    /\ process' = "collect"
    /\ UNCHANGED <<runs, blocks, lastPacked, watchVars, archiveVars>>

(* The record just packed may be the one to watch. *)
Watch(n) ==
    \/ /\ watched = NoRecord
       /\ watched' = [start |-> recStart, end |-> recStart + n - 1, after |-> lastEnd']
    \/ UNCHANGED watched

(* Mutant: the next window begins where this one ended. *)
NextWindow_NoStep(to) == [time |-> to, hour |-> Hour(to)]

(* sec + 1, without a carry: 60 is read as the next minute, but the hour   *)
(* field keeps the hour of the end.                                        *)
NextWindow(to) == [time |-> to + PerSecond, hour |-> Hour(to)]

(* Mutant: the hour is asked to be later, midnight is forgotten. *)
HourDiffers_Later(t) == Hour(t) > starttimeSave.hour

HourDiffers(t) == Hour(t) # starttimeSave.hour

(* slarchive is started for the window up to the second this block began   *)
(* in; nobody looks at what becomes of it.                                 *)
RunSaveCommand ==
    LET to == Second(recStart)
    IN  /\ pending' = IF watched' # NoRecord /\ Selected(watched', starttimeSave.time, to)
                      THEN pending + 1 ELSE pending
        /\ starttimeSave' = NextWindow(to)
        /\ lastEnd' = to

(* The next start time is there: the block is corrected to n samples and   *)
(* packed, then the save check looks at the start of this block.           *)
PackBlock ==
    /\ process = "collect"
    /\ blocks < MaxBlocks
    /\ blocks' = blocks + 1
    /\ \E n \in Lengths :
        /\ recStart' = recStart + n
        /\ \/ HourDiffers(recStart) /\ lastEnd' = Second(recStart)
           \/ ~HourDiffers(recStart) /\ UNCHANGED lastEnd
        /\ Watch(n)
        /\ silent' = (watched' # NoRecord /\ (silent \/ n > PerHour * (HoursPerDay - 1)))
    /\ IF HourDiffers(recStart) THEN RunSaveCommand ELSE UNCHANGED <<starttimeSave, pending>>
    /\ lastPacked' = recStart
    /\ UNCHANGED <<process, runs, here, copies, failed>>

(* slarchive gets the watched record and writes it ... *)
Archive ==
    /\ pending > 0
    /\ pending' = pending - 1
    /\ copies' = copies + 1
    /\ UNCHANGED <<runVars, watchVars, failed>>

(* ... or not: the drive is not mounted, the server does not answer.       *)
ArchiveFails ==
    /\ pending > 0
    /\ pending' = pending - 1
    /\ failed' = failed + 1
    /\ UNCHANGED <<runVars, watchVars, copies>>

(* A key, or a power cut: nothing is saved of the window under way.        *)
Stop ==
    /\ process \in {"start", "collect"}
    /\ process' = "stopped"
    /\ here' = (here /\ watched = NoRecord)
    /\ UNCHANGED <<runs, blocks, recStart, starttimeSave, lastEnd, lastPacked, watched, silent,
                   archiveVars>>

Restart ==
    /\ process = "stopped"
    /\ runs < MaxRuns
    /\ runs' = runs + 1
    /\ process' = "start"
    /\ UNCHANGED <<blocks, recStart, starttimeSave, lastEnd, lastPacked, watchVars, archiveVars>>

Stopped == process = "stopped" /\ UNCHANGED vars

Next ==
    \/ FirstStart \/ PackBlock \/ Archive \/ ArchiveFails
    \/ Stop \/ Restart \/ Stopped

Spec == Init /\ [][Next]_vars

-----------------------------------------------------------------------------
(* Times the save command can be given. *)
WholeSeconds == {t \in Int : t % PerSecond = 0}

(* Types; windows begin and end at whole seconds. *)
TypeOK ==
    /\ process \in {"start", "collect", "stopped"}
    /\ runs \in 1 .. MaxRuns
    /\ blocks \in 0 .. MaxBlocks
    /\ recStart \in Nat
    /\ starttimeSave \in [time : WholeSeconds, hour : 0 .. HoursPerDay - 1]
    /\ lastEnd \in WholeSeconds
    /\ lastPacked \in Nat
    /\ watched \in [start : Nat, end : Nat, after : WholeSeconds]
    /\ here \in BOOLEAN
    /\ silent \in BOOLEAN
    /\ pending \in Nat /\ copies \in Nat /\ failed \in Nat

Requested == pending + copies + failed

(* A record that starts after the end of a window, but ends before the     *)
(* next window begins, lies between the two.                               *)
Between(r) == r.start > r.after /\ r.end <= r.after + PerSecond

(* A record that starts with the end of a window and ends after the next   *)
(* one begins lies in both.                                                *)
InBoth(r) == r.start <= r.after /\ r.end > r.after + PerSecond

Due(r) == IF Between(r) THEN 0 ELSE IF InBoth(r) THEN 2 ELSE 1

(* The windows of a run ask for every record once, whatever the blocks'    *)
(* lengths, through second 60, midnight and silences, with two exceptions: *)
(* the record that made the save happen is never asked for if it ends      *)
(* within a second of the window's end, and twice if it starts right with  *)
(* it and is longer than a second.  A request that failed is not made      *)
(* again (msrecord.c 232-256, RingAfter).                                  *)
SavedOnce ==
    watched # NoRecord =>
        /\ Requested <= Due(watched)
        /\ here /\ lastEnd > watched.after => Requested = Due(watched)

(* While the run that packed it goes on, a record waits for its save no    *)
(* longer than until a block of the next hour was packed, so a stop or a   *)
(* power cut costs at most what was packed in one hour.  The exception is  *)
(* a board silent for most of a day: only the hours of the day are         *)
(* compared.                                                               *)
WaitsOneHour ==
    watched # NoRecord /\ here /\ Requested = 0 /\ ~Between(watched) =>
        silent \/ AbsoluteHour(lastPacked) = AbsoluteHour(watched.start)

(* What was not asked for when the program stopped is never asked for: the *)
(* next run begins its windows with its own first block.                   *)
StopIsFinal == [][~here => Requested' = Requested]_vars

(* Every record that a later save has passed was asked for: what           *)
(* config.cfg calls a continuous save.                                     *)
ContinuousSave ==
    watched # NoRecord /\ here /\ lastEnd > watched.after => Requested >= 1
=============================================================================
