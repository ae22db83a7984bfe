----------------------------- MODULE Lifecycle -----------------------------
(***************************************************************************)
(* The life of the program: main takes one resource after the other, each  *)
(* error exit gives back what was taken; the reader thread starts; when    *)
(* process_data has returned, main clears the stop flag, sleeps for a      *)
(* second and takes the queues down without joining the thread.            *)
(*                                                                         *)
(* Whether the thread is gone by then is a question of time alone.  The    *)
(* unit is one nap of read_serial, 10 ms.  usleep sleeps at least as long  *)
(* as asked: a nap during which more than one unit passes is a slip.       *)
(* Between naps the reader thread needs no time worth counting (Tick waits *)
(* for it); main may take any.                                             *)
(*                                                                         *)
(* A character is the end of a line or not.  Freeing the nodes of a queue  *)
(* is one step.                                                            *)
(***************************************************************************)
EXTENDS Naturals, Sequences

CONSTANTS
    TimeoutNaps,    \* TIMEOUT, in naps: 100
    SleepTicks,     \* the sleep(1) of main, in naps: 100
    MaxSlips,       \* bound: units lost to naps that took too long
    MaxCharacters   \* bound: characters the board sends

ASSUME LifecycleAssumption ==
    /\ TimeoutNaps \in Nat \ {0}
    /\ SleepTicks \in Nat \ {0}
    /\ MaxSlips \in Nat
    /\ MaxCharacters \in Nat

Queues == {"data", "timestamps"}
NodesOf(q) == IF q = "data" THEN "dataNodes" ELSE "timestampNodes"

Memory == {"data", "dataNodes", "timestamps", "timestampNodes", "records", "connection", "log"}
Resources == Memory \cup {"port", "mutex", "thread"}

(* Mutant: the port stays open when its settings fail. *)
StartSteps_PortStaysOpen == <<
    [takes |-> {"log"},            releases |-> {}],
    [takes |-> {},                 releases |-> {"log"}],
    [takes |-> {"connection"},     releases |-> {"log"}],
    [takes |-> {"records"},        releases |-> {"log", "connection"}],
    [takes |-> {"data"},           releases |-> {"log", "connection", "records"}],
    [takes |-> {"dataNodes"},      releases |-> {"log", "connection", "records", "data"}],
    [takes |-> {"timestamps"},     releases |-> Memory \ {"timestamps", "timestampNodes"}],
    [takes |-> {"timestampNodes"}, releases |-> Memory \ {"timestampNodes"}],
    [takes |-> {"port"},           releases |-> Memory],
    [takes |-> {},                 releases |-> Memory],
    [takes |-> {},                 releases |-> Memory \cup {"port"}],
    [takes |-> {"mutex"},          releases |-> Memory \cup {"port"}],
    [takes |-> {"thread"},         releases |-> Memory \cup {"port"}] >>

(* The calls of main in order: log file, configuration, connection,        *)
(* records, the two queues, serial port, its settings, flush, mutex,       *)
(* thread.  What each takes, and what main gives back when it fails.       *)
StartSteps == <<
    [takes |-> {"log"},            releases |-> {}],
    [takes |-> {},                 releases |-> {"log"}],
    [takes |-> {"connection"},     releases |-> {"log"}],
    [takes |-> {"records"},        releases |-> {"log", "connection"}],
    [takes |-> {"data"},           releases |-> {"log", "connection", "records"}],
    [takes |-> {"dataNodes"},      releases |-> {"log", "connection", "records", "data"}],
    [takes |-> {"timestamps"},     releases |-> Memory \ {"timestamps", "timestampNodes"}],
    [takes |-> {"timestampNodes"}, releases |-> Memory \ {"timestampNodes"}],
    [takes |-> {"port"},           releases |-> Memory],
    [takes |-> {},                 releases |-> Memory \cup {"port"}],
    [takes |-> {},                 releases |-> Memory \cup {"port"}],
    [takes |-> {"mutex"},          releases |-> Memory \cup {"port"}],
    [takes |-> {"thread"},         releases |-> Memory \cup {"port"}] >>

(* What a call that fails may leave of its own: connect_dl_server and      *)
(* msrecord_struct_init what they had begun; parse_config_file, which gives the        *)
(* configuration back when it cannot be read and when all is well, keeps   *)
(* it when a parameter is missing.                                         *)
LeftBehind(k) == IF k = 2 THEN {"config"} ELSE StartSteps[k].takes \cap {"connection", "records"}

(* What is given back at the end, in order. *)
Teardown == <<"mutex", "thread", "dataNodes", "data", "timestampNodes", "timestamps",
              "records", "connection", "port", "log">>

VARIABLES
    main,           \* "start", "run" (process_data), "sleep", "teardown",
                    \* "failed", "ended", "exited" (exit(0) in the reader thread)
    step,           \* index into StartSteps or Teardown
    held,           \* resources taken and not given back
    stop,           \* stop_read_serial_buffer_thread = 0
    elapsed,        \* units main has slept
    reader,         \* "none", "check", "first" and "rest" (the two loops of
                    \* read_serial), "insert", "link", "unlock", "exit",
                    \* "undefined" once it used freed memory
    queue,          \* the queue it inserts into
    naps,           \* total_sleep
    tty,            \* characters received and not read
    sent,           \* characters sent
    slips,          \* units lost to naps that took too long
    rearLock,       \* rear_lock of each queue: "free", "held", or "left" locked
    late            \* history: lines read since the flag was cleared

mainVars == <<main, step, held, stop, elapsed>>
readerVars == <<reader, queue, naps, rearLock, late>>
lineVars == <<tty, sent>>
vars == <<mainVars, readerVars, lineVars, slips>>

Init ==
    /\ main = "start" /\ step = 1 /\ held = {}
    /\ stop = FALSE /\ elapsed = 0
    /\ reader = "none" /\ queue = "data" /\ naps = 0
    /\ tty = << >> /\ sent = 0
    /\ slips = 0
    /\ rearLock = [q \in Queues |-> "free"]
    /\ late = 0

Running == main \in {"start", "run", "sleep", "teardown"} /\ reader # "undefined"

-----------------------------------------------------------------------------
(* main *)

Start ==
    /\ Running /\ main = "start"
    /\ held' = held \cup StartSteps[step].takes
    /\ IF step = Len(StartSteps)
       THEN main' = "run" /\ step' = 1 /\ reader' = "check"
       ELSE step' = step + 1 /\ UNCHANGED <<main, reader>>
    /\ UNCHANGED <<stop, elapsed, queue, naps, rearLock, late, lineVars, slips>>

(* A call fails, maybe after it took something that it keeps. *)
StartFails ==
    /\ Running /\ main = "start"
    /\ \E taken \in SUBSET LeftBehind(step) :
        held' = (held \cup taken) \ StartSteps[step].releases
    /\ main' = "failed"
    /\ UNCHANGED <<step, stop, elapsed, readerVars, lineVars, slips>>

(* Mutant: the thread is not told to stop. *)
Return_NoFlag ==
    /\ Running /\ main = "run"
    /\ main' = "sleep"
    /\ elapsed' = 0
    /\ UNCHANGED <<step, held, stop, readerVars, lineVars, slips>>

(* process_data returns. *)
Return ==
    /\ Running /\ main = "run"
    /\ main' = "sleep"
    /\ stop' = TRUE
    /\ elapsed' = 0
    /\ UNCHANGED <<step, held, readerVars, lineVars, slips>>

Wake ==
    /\ Running /\ main = "sleep"
    /\ elapsed = SleepTicks
    /\ main' = "teardown"
    /\ UNCHANGED <<step, held, stop, elapsed, readerVars, lineVars, slips>>

Release ==
    /\ Running /\ main = "teardown"
    /\ held' = held \ {Teardown[step]}
    /\ IF step = Len(Teardown)
       THEN main' = "ended" /\ UNCHANGED step
       ELSE step' = step + 1 /\ UNCHANGED main
    /\ UNCHANGED <<stop, elapsed, readerVars, lineVars, slips>>

-----------------------------------------------------------------------------
(* The reader thread *)

CheckStop ==
    /\ Running /\ reader = "check"
    /\ IF stop THEN reader' = "exit" /\ UNCHANGED naps
               ELSE reader' = "first" /\ naps' = 0
    /\ UNCHANGED <<mainVars, queue, rearLock, late, lineVars, slips>>

(* inputAvailable: select fails on a closed port. *)
Available == tty # << >> /\ "port" \in held

(* Mutant: the timeout starts anew with every character. *)
ReadCharacter_Restarts ==
    /\ Running /\ reader \in {"first", "rest"}
    /\ naps < TimeoutNaps
    /\ Available
    /\ tty' = Tail(tty)
    /\ naps' = 0
    /\ IF reader = "rest" /\ Head(tty) = "end"
       THEN reader' = "insert" /\ queue' \in Queues /\ late' = IF stop THEN late + 1 ELSE late
       ELSE reader' = (IF Head(tty) = "end" THEN "first" ELSE "rest") /\ UNCHANGED <<queue, late>>
    /\ UNCHANGED <<mainVars, rearLock, sent, slips>>

(* Line ends before the first character are skipped, the next one ends the *)
(* line.  A line may be a marker or a sample.                              *)
ReadCharacter ==
    /\ Running /\ reader \in {"first", "rest"}
    /\ naps < TimeoutNaps
    /\ Available
    /\ tty' = Tail(tty)
    /\ IF reader = "rest" /\ Head(tty) = "end"
       THEN reader' = "insert" /\ queue' \in Queues /\ late' = IF stop THEN late + 1 ELSE late
       ELSE reader' = (IF Head(tty) = "end" THEN "first" ELSE "rest") /\ UNCHANGED <<queue, late>>
    /\ UNCHANGED <<mainVars, naps, rearLock, sent, slips>>

(* read_serial returns NULL, whatever it has read of a line. *)
ReadTimeout ==
    /\ Running /\ reader \in {"first", "rest"}
    /\ naps >= TimeoutNaps
    /\ reader' = "check"
    /\ UNCHANGED <<mainVars, queue, naps, rearLock, late, lineVars, slips>>

(* The queue is looked up and rear_lock taken; a lock that was left locked *)
(* is waited for.                                                          *)
LockRear ==
    /\ Running /\ reader = "insert"
    /\ IF queue \in held
       THEN /\ rearLock[queue] = "free"
            /\ rearLock' = [rearLock EXCEPT ![queue] = "held"]
            /\ reader' = "link"
       ELSE reader' = "undefined" /\ UNCHANGED rearLock
    /\ UNCHANGED <<mainVars, queue, naps, late, lineVars, slips>>

(* rear_p is NULL once the nodes are freed: then the function returns      *)
(* without unlocking.                                                      *)
Link ==
    /\ Running /\ reader = "link"
    /\ IF queue \notin held THEN reader' = "undefined" /\ UNCHANGED rearLock
       ELSE IF NodesOf(queue) \in held THEN reader' = "unlock" /\ UNCHANGED rearLock
       ELSE reader' = "check" /\ rearLock' = [rearLock EXCEPT ![queue] = "left"]
    /\ UNCHANGED <<mainVars, queue, naps, late, lineVars, slips>>

(* Mutant: the flag is only looked at after a timeout. *)
UnlockRear_ReadsOn ==
    /\ Running /\ reader = "unlock"
    /\ IF queue \in held
       THEN reader' = "first" /\ naps' = 0 /\ rearLock' = [rearLock EXCEPT ![queue] = "free"]
       ELSE reader' = "undefined" /\ UNCHANGED <<naps, rearLock>>
    /\ UNCHANGED <<mainVars, queue, late, lineVars, slips>>

UnlockRear ==
    /\ Running /\ reader = "unlock"
    /\ IF queue \in held
       THEN reader' = "check" /\ rearLock' = [rearLock EXCEPT ![queue] = "free"]
       ELSE reader' = "undefined" /\ UNCHANGED rearLock
    /\ UNCHANGED <<mainVars, queue, naps, late, lineVars, slips>>

(* malloc failed: exit(0), from whatever main is doing. *)
InsertFails ==
    /\ Running /\ reader = "insert"
    /\ main' = "exited"
    /\ reader' = "exit"
    /\ UNCHANGED <<step, held, stop, elapsed, queue, naps, rearLock, late, lineVars, slips>>

-----------------------------------------------------------------------------
(* The board sends a character. *)
Arrive ==
    /\ Running /\ reader # "none"
    /\ sent < MaxCharacters
    /\ sent' = sent + 1
    /\ \E c \in {"character", "end"} : tty' = Append(tty, c)
    /\ UNCHANGED <<mainVars, readerVars, slips>>

(* One unit passes.  The reader thread is napping, or gone. *)
Tick ==
    /\ Running /\ main \in {"run", "sleep", "teardown"}
    /\ reader = "exit" \/ (reader \in {"first", "rest"} /\ naps < TimeoutNaps /\ ~Available)
    /\ elapsed' = IF main = "sleep" /\ elapsed < SleepTicks THEN elapsed + 1 ELSE elapsed
    /\ \/ naps' = (IF reader = "exit" THEN naps ELSE naps + 1) /\ UNCHANGED slips
       \/ reader # "exit" /\ slips < MaxSlips /\ slips' = slips + 1 /\ UNCHANGED naps
    /\ UNCHANGED <<main, step, held, stop, reader, queue, rearLock, late, lineVars>>

Over == ~Running /\ UNCHANGED vars

Main == Start \/ StartFails \/ Return \/ Wake \/ Release
Reader ==
    \/ CheckStop \/ ReadCharacter \/ ReadTimeout
    \/ LockRear \/ Link \/ UnlockRear \/ InsertFails

Next == Main \/ Reader \/ Arrive \/ Tick \/ Over

Spec == Init /\ [][Next]_vars

-----------------------------------------------------------------------------
(* Types; after the flag was cleared the thread reads at most one more line. *)
TypeOK ==
    /\ main \in {"start", "run", "sleep", "teardown", "failed", "ended", "exited"}
    /\ step \in 1 .. 13
    /\ held \subseteq Resources \cup {"config"}
    /\ stop \in BOOLEAN
    /\ elapsed \in 0 .. SleepTicks
    /\ reader \in {"none", "check", "first", "rest", "insert", "link", "unlock", "exit", "undefined"}
    /\ queue \in Queues
    /\ naps \in 0 .. TimeoutNaps
    /\ tty \in Seq({"character", "end"})
    /\ sent \in 0 .. MaxCharacters
    /\ slips \in 0 .. MaxSlips
    /\ rearLock \in [Queues -> {"free", "held", "left"}]
    /\ late \in 0 .. 1

(* main's sleep protects the queues from the detached thread just as long  *)
(* as it covers a whole timeout of read_serial and all time lost in its    *)
(* naps.  In the code the two are equal: one slip is enough for a line     *)
(* that comes in late to be put into a queue that is gone.                 *)
SleepCoversTimeout == reader = "undefined" => TimeoutNaps + slips > SleepTicks

(* The unlock missing in queue.c:65-69 blocks nobody: when it is skipped   *)
(* the stop flag is set, and the thread never inserts again.               *)
LeftLockBlocksNobody ==
    (\E q \in Queues : rearLock[q] = "left") => stop /\ reader \in {"check", "exit"}

(* Every error exit gives back what was taken before, and nothing that was *)
(* not; what remains is what the failing call itself leaves behind, and    *)
(* the mutex when the thread cannot be created (main.c:119-358).           *)
ErrorExitsRelease ==
    /\ main = "start" => StartSteps[step].releases \subseteq held
    /\ main = "failed" => held \subseteq LeftBehind(step) \cup {"mutex"}
=============================================================================
