-------------------------- MODULE Lifecycle_proofs --------------------------
(***************************************************************************)
(* For every timeout, every sleep and any number of slips and characters:  *)
(* the reader thread meets a queue that is gone only if naps and slips     *)
(* together outlast main's sleep; the skipped unlock blocks nobody; every  *)
(* error exit gives back what was taken before.                            *)
(***************************************************************************)
EXTENDS Lifecycle, SequenceTheorems, TLAPS

Reading == {"first", "rest"}
Inserting == {"insert", "link", "unlock"}

(* What main holds in each phase. *)
HeldPart ==
    /\ main \in {"start", "failed"} => step \in 1 .. 13
    /\ main = "start" =>
         held = StartSteps[step].releases \cup (IF step = 13 THEN {"mutex"} ELSE {})
    /\ main = "failed" => held \subseteq LeftBehind(step) \cup {"mutex"}
    /\ main \in {"run", "sleep"} => held = Resources /\ step = 1
    /\ main = "teardown" => step \in 1 .. 10

(* The thread runs from the end of start-up on, and is told to stop before *)
(* the sleep.                                                              *)
FlagPart ==
    /\ reader = "none" <=> main \in {"start", "failed"}
    /\ main \in {"start", "failed", "run"} => ~stop
    /\ main \in {"sleep", "teardown"} => stop
    /\ ~stop => late = 0
    /\ reader \in Reading => late = 0

(* From the flag on, main's sleep and the timeout run side by side. *)
TimePart ==
    /\ main \in {"sleep", "teardown"} /\ reader \in Reading \cup Inserting => elapsed <= naps + slips
    /\ main = "teardown" => elapsed = SleepTicks
    /\ reader \in Inserting => naps < TimeoutNaps

(* The inductive invariant. *)
LInv ==
    /\ TypeOK /\ HeldPart /\ FlagPart /\ TimePart
    /\ SleepCoversTimeout /\ LeftLockBlocksNobody

-----------------------------------------------------------------------------
(* The table of start-up calls: what the exit of one call gives back is    *)
(* what its predecessors took; only the mutex is forgotten by the last.    *)
LEMMA StartTable ==
    /\ Len(StartSteps) = 13
    /\ \A k \in 1 .. 13 : StartSteps[k].takes \subseteq Resources
    /\ \A k \in 1 .. 13 : StartSteps[k].releases \subseteq Resources
    /\ \A k \in 1 .. 11 : StartSteps[k].releases \cup StartSteps[k].takes = StartSteps[k + 1].releases
    /\ StartSteps[12].releases \cup StartSteps[12].takes = StartSteps[13].releases \cup {"mutex"}
    /\ StartSteps[13].releases \cup {"mutex"} \cup StartSteps[13].takes = Resources
    /\ StartSteps[1].releases = {}
<1> DEFINE T(k) == StartSteps[k].takes
           R(k) == StartSteps[k].releases
<1>1. /\ R(1) = {} /\ R(2) = {"log"} /\ R(3) = {"log"} /\ R(4) = {"log", "connection"}
      /\ R(5) = {"log", "connection", "records"}
      /\ R(6) = {"log", "connection", "records", "data"}
      /\ R(7) = {"log", "connection", "records", "data", "dataNodes"}
      /\ R(8) = {"log", "connection", "records", "data", "dataNodes", "timestamps"}
      /\ R(9) = Memory /\ R(10) = Memory \cup {"port"} /\ R(11) = R(10) /\ R(12) = R(10)
      /\ R(13) = R(10)
  BY Zenon DEF StartSteps, Memory
<1>2. /\ T(1) = {"log"} /\ T(2) = {} /\ T(3) = {"connection"} /\ T(4) = {"records"}
      /\ T(5) = {"data"} /\ T(6) = {"dataNodes"} /\ T(7) = {"timestamps"}
      /\ T(8) = {"timestampNodes"} /\ T(9) = {"port"} /\ T(10) = {} /\ T(11) = {}
      /\ T(12) = {"mutex"} /\ T(13) = {"thread"}
  BY DEF StartSteps
<1>3. Len(StartSteps) = 13
  BY DEF StartSteps
<1> QED
  BY <1>1, <1>2, <1>3, SMT DEF Memory, Resources

(* What a failing call leaves behind is a resource, or the configuration.  *)
LEMMA LeftIsResource ==
    ASSUME NEW k \in 1 .. 13 PROVE LeftBehind(k) \subseteq Resources \cup {"config"}
  BY StartTable DEF LeftBehind

(* Nothing is held and nothing runs. *)
LEMMA InitLInv ==
    ASSUME Init PROVE LInv
<1> USE LifecycleAssumption DEF Init
<1>1. TypeOK
  <2>1. tty \in Seq({"character", "end"})
    BY EmptySeq
  <2>2. 0 \in 0 .. SleepTicks /\ 0 \in 0 .. TimeoutNaps /\ 0 \in 0 .. MaxCharacters /\ 0 \in 0 .. MaxSlips
    BY SMT
  <2>3. 0 \in 0 .. 1 /\ 1 \in 1 .. 13
    BY SMT
  <2> QED
    BY <2>1, <2>2, <2>3 DEF TypeOK, Queues
<1>2. HeldPart
  BY StartTable, SMT DEF HeldPart
<1>3. FlagPart
  BY DEF FlagPart, Reading
<1>4. TimePart
  BY DEF TimePart, Reading, Inserting
<1>5. SleepCoversTimeout /\ LeftLockBlocksNobody
  BY DEF SleepCoversTimeout, LeftLockBlocksNobody
<1> QED
  BY <1>1, <1>2, <1>3, <1>4, <1>5 DEF LInv

(* A call of the start-up succeeds; with the last one the thread runs. *)
LEMMA StartKeeps ==
    ASSUME LInv, Start PROVE LInv'
<1>1. /\ main = "start" /\ step \in 1 .. 13 /\ reader = "none" /\ ~stop
      /\ held = StartSteps[step].releases \cup (IF step = 13 THEN {"mutex"} ELSE {})
      /\ held' = held \cup StartSteps[step].takes
  BY DEF LInv, HeldPart, FlagPart, Start
<1>2. UNCHANGED <<stop, elapsed, queue, naps, rearLock, late, tty, sent, slips>>
  BY DEF Start, lineVars
<1>3. CASE step = 13
  <2>1. main' = "run" /\ step' = 1 /\ reader' = "check"
    BY <1>3, StartTable DEF Start
  <2>2. held' = Resources
    BY <1>1, <1>3, StartTable
  <2>3. TypeOK'
    BY <1>2, <2>1, <2>2, SMT DEF LInv, TypeOK
  <2>4. HeldPart' /\ FlagPart' /\ TimePart'
    BY <1>1, <1>2, <2>1, <2>2 DEF LInv, HeldPart, FlagPart, TimePart, Reading, Inserting
  <2>5. SleepCoversTimeout' /\ LeftLockBlocksNobody'
    BY <1>1, <1>2, <2>1 DEF LInv, SleepCoversTimeout, LeftLockBlocksNobody
  <2> QED
    BY <2>3, <2>4, <2>5 DEF LInv
<1>4. CASE step # 13
  <2>1. main' = main /\ step' = step + 1 /\ reader' = reader
    BY <1>4, StartTable DEF Start
  <2>2. step' \in 1 .. 13
    BY <1>1, <1>4, <2>1, SMT
  <2>3. held' = StartSteps[step'].releases \cup (IF step' = 13 THEN {"mutex"} ELSE {})
    <3>1. CASE step = 12
      BY <1>1, <2>1, <3>1, StartTable, SMT
    <3>2. CASE step # 12
      <4>1. step \in 1 .. 11 /\ step' # 13
        BY <1>1, <1>4, <2>1, <3>2, SMT
      <4> QED
        BY <1>1, <1>4, <2>1, <4>1, StartTable
    <3> QED
      BY <3>1, <3>2
  <2>4. TypeOK'
    <3>1. held' \subseteq Resources \cup {"config"}
      BY <1>1, StartTable DEF LInv, TypeOK
    <3> QED
      BY <1>2, <2>1, <2>2, <3>1 DEF LInv, TypeOK
  <2>5. HeldPart' /\ FlagPart' /\ TimePart'
    BY <1>1, <1>2, <2>1, <2>2, <2>3 DEF LInv, HeldPart, FlagPart, TimePart, Reading, Inserting
  <2>6. SleepCoversTimeout' /\ LeftLockBlocksNobody'
    BY <1>2, <2>1 DEF LInv, SleepCoversTimeout, LeftLockBlocksNobody
  <2> QED
    BY <2>4, <2>5, <2>6 DEF LInv
<1> QED
  BY <1>3, <1>4

(* A call fails: what its exit does not give back is its own, or the mutex. *)
LEMMA StartFailsKeeps ==
    ASSUME LInv, StartFails PROVE LInv'
<1>1. /\ main = "start" /\ step \in 1 .. 13 /\ reader = "none" /\ ~stop
      /\ held = StartSteps[step].releases \cup (IF step = 13 THEN {"mutex"} ELSE {})
      /\ main' = "failed"
  BY DEF LInv, HeldPart, FlagPart, StartFails
<1>2. UNCHANGED <<step, stop, elapsed, reader, queue, naps, rearLock, late, tty, sent, slips>>
  BY DEF StartFails, readerVars, lineVars
<1>3. PICK taken \in SUBSET LeftBehind(step) :
        held' = (held \cup taken) \ StartSteps[step].releases
  BY DEF StartFails
<1>4. held' \subseteq LeftBehind(step) \cup {"mutex"}
  BY <1>1, <1>3
<1>5. TypeOK'
  <2>1. held' \subseteq Resources \cup {"config"}
    BY <1>1, <1>3, LeftIsResource DEF LInv, TypeOK
  <2> QED
    BY <1>1, <1>2, <2>1 DEF LInv, TypeOK
<1>6. HeldPart' /\ FlagPart' /\ TimePart'
  BY <1>1, <1>2, <1>4 DEF LInv, HeldPart, FlagPart, TimePart, Reading, Inserting
<1>7. SleepCoversTimeout' /\ LeftLockBlocksNobody'
  BY <1>2 DEF LInv, SleepCoversTimeout, LeftLockBlocksNobody
<1> QED
  BY <1>5, <1>6, <1>7 DEF LInv

(* process_data returns: the flag is set and the sleep begins. *)
LEMMA ReturnKeeps ==
    ASSUME LInv, Return PROVE LInv'
<1>1. /\ main = "run" /\ main' = "sleep" /\ stop' = TRUE /\ elapsed' = 0
      /\ reader # "undefined" /\ reader # "none"
  BY DEF LInv, FlagPart, Return, Running
<1>2. UNCHANGED <<step, held, reader, queue, naps, rearLock, late, tty, sent, slips>>
  BY DEF Return, readerVars, lineVars
<1>3. TypeOK'
  BY <1>1, <1>2, LifecycleAssumption, SMT DEF LInv, TypeOK
<1>4. HeldPart' /\ FlagPart'
  BY <1>1, <1>2 DEF LInv, HeldPart, FlagPart, Reading
<1>5. TimePart'
  <2>1. 0 <= naps + slips
    BY SMT DEF LInv, TypeOK
  <2> QED
    BY <1>1, <1>2, <2>1 DEF LInv, TimePart, Reading, Inserting
<1>6. SleepCoversTimeout' /\ LeftLockBlocksNobody'
  BY <1>1, <1>2 DEF LInv, FlagPart, SleepCoversTimeout, LeftLockBlocksNobody
<1> QED
  BY <1>3, <1>4, <1>5, <1>6 DEF LInv

(* main wakes up and takes the queues down; the flag stays set. *)
LEMMA TeardownKeeps ==
    ASSUME LInv, Wake \/ Release PROVE LInv'
<1>1. /\ reader # "undefined" /\ stop /\ main \in {"sleep", "teardown"}
      /\ UNCHANGED <<stop, elapsed, reader, queue, naps, rearLock, late, tty, sent, slips>>
  BY DEF LInv, FlagPart, Wake, Release, Running, readerVars, lineVars
<1>2. CASE Wake
  <2>1. main' = "teardown" /\ elapsed = SleepTicks /\ main = "sleep" /\ step' = step /\ held' = held /\ step = 1
    BY <1>2 DEF Wake, LInv, HeldPart
  <2>2. TypeOK' /\ FlagPart'
    BY <1>1, <2>1 DEF LInv, TypeOK, FlagPart, Reading
  <2>3. HeldPart'
    <3>1. 1 \in 1 .. 10
      BY SMT
    <3> QED
      BY <2>1, <3>1 DEF HeldPart
  <2>4. TimePart' /\ SleepCoversTimeout' /\ LeftLockBlocksNobody'
    BY <1>1, <2>1 DEF LInv, TimePart, Reading, Inserting, SleepCoversTimeout, LeftLockBlocksNobody
  <2> QED
    BY <2>2, <2>3, <2>4 DEF LInv
<1>3. CASE Release
  <2>1. main = "teardown" /\ step \in 1 .. 10 /\ held' \subseteq held /\ Len(Teardown) = 10
    BY <1>3 DEF Release, LInv, HeldPart, Teardown
  <2>2. \/ main' = "ended" /\ step' = step
        \/ main' = "teardown" /\ step' = step + 1 /\ step # 10
    BY <1>3, <2>1 DEF Release
  <2>3. step' \in 1 .. 10 /\ step' \in 1 .. 13
    BY <2>1, <2>2, SMT
  <2>4. TypeOK' /\ FlagPart'
    BY <1>1, <2>1, <2>2, <2>3 DEF LInv, TypeOK, FlagPart, Reading
  <2>5. HeldPart'
    BY <2>2, <2>3 DEF HeldPart
  <2>6. TimePart' /\ SleepCoversTimeout' /\ LeftLockBlocksNobody'
    BY <1>1, <2>1, <2>2 DEF LInv, TimePart, Reading, Inserting, SleepCoversTimeout, LeftLockBlocksNobody
  <2> QED
    BY <2>4, <2>5, <2>6 DEF LInv
<1> QED
  BY <1>2, <1>3

-----------------------------------------------------------------------------
(* A reader thread that is not "none" means that main is past its start.   *)
LEMMA MainOfReader ==
    ASSUME LInv, Running, reader # "none"
    PROVE  main \in {"run", "sleep", "teardown"} /\ (main \in {"run", "sleep"} => held = Resources)
  BY DEF LInv, FlagPart, HeldPart, Running

(* The thread sees the flag, or starts the next line with a new timeout.   *)
LEMMA CheckStopKeeps ==
    ASSUME LInv, CheckStop PROVE LInv'
<1>1. /\ reader = "check" /\ main \in {"run", "sleep", "teardown"}
      /\ UNCHANGED <<main, step, held, stop, elapsed, queue, rearLock, late, tty, sent, slips>>
  BY MainOfReader DEF CheckStop, mainVars, lineVars
<1>2. CASE stop
  <2>1. reader' = "exit" /\ naps' = naps
    BY <1>2 DEF CheckStop
  <2> QED
    BY <1>1, <1>2, <2>1 DEF LInv, TypeOK, HeldPart, FlagPart, TimePart, Reading, Inserting,
                            SleepCoversTimeout, LeftLockBlocksNobody
<1>3. CASE ~stop
  <2>1. reader' = "first" /\ naps' = 0 /\ main = "run" /\ naps' \in 0 .. TimeoutNaps
    <3>1. 0 \in 0 .. TimeoutNaps
      BY LifecycleAssumption, SMT
    <3> QED
      BY <1>1, <1>3, <3>1 DEF CheckStop, LInv, FlagPart
  <2> QED
    BY <1>1, <1>3, <2>1 DEF LInv, TypeOK, HeldPart, FlagPart, TimePart, Reading, Inserting,
                            SleepCoversTimeout, LeftLockBlocksNobody
<1> QED
  BY <1>2, <1>3

(* A character is read before the timeout; a line leaves time in hand.     *)
LEMMA ReadCharacterKeeps ==
    ASSUME LInv, ReadCharacter PROVE LInv'
<1>1. /\ reader \in Reading /\ naps < TimeoutNaps /\ main \in {"run", "sleep", "teardown"}
      /\ tty # << >> /\ tty' = Tail(tty) /\ late = 0
      /\ UNCHANGED <<main, step, held, stop, elapsed, naps, rearLock, sent, slips>>
  BY MainOfReader DEF ReadCharacter, mainVars, Available, Reading, LInv, FlagPart
<1>2. \/ reader' = "insert" /\ queue' \in Queues /\ late' = IF stop THEN late + 1 ELSE late
      \/ reader' \in Reading /\ queue' = queue /\ late' = late
  BY DEF ReadCharacter, Reading
<1>3. late' \in 0 .. 1 /\ (~stop => late' = 0) /\ (reader' \in Reading => late' = 0)
  BY <1>1, <1>2, SMT DEF Reading
<1>4. tty' \in Seq({"character", "end"})
  BY <1>1, HeadTailProperties DEF LInv, TypeOK
<1>5. TypeOK'
  BY <1>1, <1>2, <1>3, <1>4 DEF LInv, TypeOK, Reading
<1>6. HeldPart' /\ FlagPart' /\ TimePart'
  BY <1>1, <1>2, <1>3 DEF LInv, HeldPart, FlagPart, TimePart, Reading, Inserting
<1>7. SleepCoversTimeout' /\ LeftLockBlocksNobody'
  BY <1>1, <1>2 DEF LInv, SleepCoversTimeout, LeftLockBlocksNobody, Reading
<1> QED
  BY <1>5, <1>6, <1>7 DEF LInv

(* read_serial gives up, or malloc fails and the program ends. *)
LEMMA ReaderGivesUpKeeps ==
    ASSUME LInv, ReadTimeout \/ InsertFails PROVE LInv'
<1>1. /\ reader \in Reading \cup {"insert"} /\ main \in {"run", "sleep", "teardown"}
      /\ UNCHANGED <<step, held, stop, elapsed, queue, naps, rearLock, late, tty, sent, slips>>
  BY MainOfReader DEF ReadTimeout, InsertFails, mainVars, lineVars, Reading
<1>2. \/ reader' = "check" /\ main' = main /\ reader \in Reading
      \/ reader' = "exit" /\ main' = "exited" /\ reader = "insert"
  BY DEF ReadTimeout, InsertFails, mainVars, Reading
<1>3. TypeOK'
  BY <1>1, <1>2 DEF LInv, TypeOK
<1>4. HeldPart' /\ FlagPart' /\ TimePart'
  BY <1>1, <1>2 DEF LInv, HeldPart, FlagPart, TimePart, Reading, Inserting
<1>5. SleepCoversTimeout' /\ LeftLockBlocksNobody'
  BY <1>1, <1>2 DEF LInv, SleepCoversTimeout, LeftLockBlocksNobody, Reading
<1> QED
  BY <1>3, <1>4, <1>5 DEF LInv

(* A queue is gone only in the teardown, a whole sleep after the flag; the *)
(* thread is still inserting then only if its naps and slips were longer.  *)
LEMMA GoneIsLate ==
    ASSUME LInv, Running, reader \in Inserting,
           ~(queue \in held /\ NodesOf(queue) \in held)
    PROVE  stop /\ TimeoutNaps + slips > SleepTicks
<1>1. main \in {"run", "sleep", "teardown"}
      /\ (main \in {"run", "sleep"} => held = Resources)
  BY MainOfReader DEF Inserting
<1>2. queue \in Resources /\ NodesOf(queue) \in Resources
  BY DEF LInv, TypeOK, Queues, Resources, Memory, NodesOf
<1>3. main = "teardown"
  BY <1>1, <1>2
<1>4. elapsed = SleepTicks /\ elapsed <= naps + slips /\ naps < TimeoutNaps /\ stop
  BY <1>3 DEF LInv, TimePart, FlagPart
<1>5. naps \in Nat /\ slips \in Nat /\ TimeoutNaps \in Nat /\ SleepTicks \in Nat
  BY LifecycleAssumption, SMT DEF LInv, TypeOK
<1> QED
  BY <1>4, <1>5, SMT

(* The three steps of an insert. *)
LEMMA InsertKeeps ==
    ASSUME LInv, LockRear \/ Link \/ UnlockRear PROVE LInv'
<1>1. /\ Running /\ reader \in Inserting /\ main \in {"run", "sleep", "teardown"}
      /\ UNCHANGED <<main, step, held, stop, elapsed, queue, naps, late, tty, sent, slips>>
  BY MainOfReader DEF LockRear, Link, UnlockRear, mainVars, lineVars, Inserting
<1>2. \/ reader' \in {"link", "unlock", "check"} /\ (rearLock' = rearLock
             \/ \E l \in {"held", "free"} : rearLock' = [rearLock EXCEPT ![queue] = l])
      \/ /\ ~(queue \in held /\ NodesOf(queue) \in held)
         /\ reader' = "undefined" /\ rearLock' = rearLock
      \/ /\ ~(queue \in held /\ NodesOf(queue) \in held)
         /\ reader' = "check" /\ rearLock' = [rearLock EXCEPT ![queue] = "left"]
  BY DEF LockRear, Link, UnlockRear
<1>3. rearLock \in [Queues -> {"free", "held", "left"}] /\ queue \in Queues
      /\ \A q \in Queues : rearLock[q] # "left"
  BY <1>1 DEF LInv, TypeOK, LeftLockBlocksNobody, Inserting
<1>4. rearLock' \in [Queues -> {"free", "held", "left"}]
  BY <1>2, <1>3
<1>5. TypeOK'
  BY <1>1, <1>2, <1>4 DEF LInv, TypeOK
<1>6. HeldPart' /\ FlagPart' /\ TimePart'
  BY <1>1, <1>2 DEF LInv, HeldPart, FlagPart, TimePart, Reading, Inserting
<1>7. SleepCoversTimeout'
  BY <1>1, <1>2, GoneIsLate DEF SleepCoversTimeout
<1>8. LeftLockBlocksNobody'
  <2>1. CASE \E q \in Queues : rearLock'[q] = "left"
    <3>1. ~(queue \in held /\ NodesOf(queue) \in held) /\ reader' \in {"check", "undefined"}
          /\ (reader' = "undefined" => rearLock' = rearLock)
      BY <1>2, <1>3, <2>1
    <3>2. stop /\ reader' = "check"
      BY <1>1, <1>3, <2>1, <3>1, GoneIsLate
    <3> QED
      BY <1>1, <3>2 DEF LeftLockBlocksNobody
  <2> QED
    BY <2>1 DEF LeftLockBlocksNobody
<1> QED
  BY <1>5, <1>6, <1>7, <1>8 DEF LInv

(* A character arrives. *)
LEMMA ArriveKeeps ==
    ASSUME LInv, Arrive PROVE LInv'
<1>1. UNCHANGED <<main, step, held, stop, elapsed, reader, queue, naps, rearLock, late, slips>>
  BY DEF Arrive, mainVars, readerVars
<1>2. tty' \in Seq({"character", "end"}) /\ sent' \in 0 .. MaxCharacters
  <2>1. PICK c \in {"character", "end"} : tty' = Append(tty, c)
    BY DEF Arrive
  <2>2. tty' \in Seq({"character", "end"})
    BY <2>1, AppendProperties DEF LInv, TypeOK
  <2>3. sent' \in 0 .. MaxCharacters
    BY LifecycleAssumption, SMT DEF Arrive, LInv, TypeOK
  <2> QED
    BY <2>2, <2>3
<1> QED
  BY <1>1, <1>2 DEF LInv, TypeOK, HeldPart, FlagPart, TimePart, SleepCoversTimeout, LeftLockBlocksNobody

(* A unit of main's sleep is a nap of the thread, or a slip. *)
LEMMA TickKeeps ==
    ASSUME LInv, Tick PROVE LInv'
<1>1. /\ reader \in Reading \cup {"exit"}
      /\ UNCHANGED <<main, step, held, stop, reader, queue, rearLock, late, tty, sent>>
      /\ elapsed' = IF main = "sleep" /\ elapsed < SleepTicks THEN elapsed + 1 ELSE elapsed
  BY DEF Tick, Reading, lineVars
<1>2. /\ elapsed \in Nat /\ elapsed <= SleepTicks /\ naps \in Nat /\ slips \in Nat
      /\ naps <= TimeoutNaps /\ slips <= MaxSlips
      /\ TimeoutNaps \in Nat /\ SleepTicks \in Nat /\ MaxSlips \in Nat
  BY LifecycleAssumption, SMT DEF LInv, TypeOK
<1>3. \/ reader = "exit" /\ naps' = naps /\ slips' = slips
      \/ reader \in Reading /\ naps < TimeoutNaps /\ naps' = naps + 1 /\ slips' = slips
      \/ reader \in Reading /\ slips < MaxSlips /\ slips' = slips + 1 /\ naps' = naps
  BY <1>1 DEF Tick, Reading
<1>4. elapsed' \in 0 .. SleepTicks /\ naps' \in 0 .. TimeoutNaps /\ slips' \in 0 .. MaxSlips
  BY <1>1, <1>2, <1>3, SMT
<1>5. elapsed <= naps + slips /\ reader \in Reading => elapsed' <= naps' + slips'
  BY <1>1, <1>2, <1>3, SMT DEF Reading
<1>6. TypeOK' /\ HeldPart' /\ FlagPart'
  BY <1>1, <1>4 DEF LInv, TypeOK, HeldPart, FlagPart, Reading
<1>7. TimePart'
  <2>1. main = "teardown" => elapsed' = SleepTicks
    BY <1>1 DEF LInv, TimePart
  <2> QED
    BY <1>1, <1>5, <2>1 DEF LInv, TimePart, Reading, Inserting
<1>8. SleepCoversTimeout' /\ LeftLockBlocksNobody'
  BY <1>1 DEF LInv, SleepCoversTimeout, LeftLockBlocksNobody, Reading
<1> QED
  BY <1>6, <1>7, <1>8 DEF LInv

-----------------------------------------------------------------------------
(* The invariant of the program's life, for all constants. *)
THEOREM LifecycleInvariance == Spec => []LInv
<1>1. Init => LInv
  BY InitLInv
<1>2. LInv /\ [Next]_vars => LInv'
  <2> SUFFICES ASSUME LInv, [Next]_vars PROVE LInv'
    OBVIOUS
  <2>1. CASE UNCHANGED vars
    BY <2>1 DEF vars, mainVars, readerVars, lineVars, LInv, TypeOK, HeldPart, FlagPart, TimePart,
                SleepCoversTimeout, LeftLockBlocksNobody
  <2> QED
    BY <2>1, StartKeeps, StartFailsKeeps, ReturnKeeps, TeardownKeeps, CheckStopKeeps,
       ReadCharacterKeeps, ReaderGivesUpKeeps, InsertKeeps, ArriveKeeps, TickKeeps
       DEF Next, Main, Reader, Over
<1> QED
  BY <1>1, <1>2, PTL DEF Spec

(* Types; the thread reads at most one line after it was told to stop. *)
THEOREM TypeCorrect == Spec => []TypeOK
<1>1. LInv => TypeOK
  BY DEF LInv
<1> QED
  BY <1>1, LifecycleInvariance, PTL

(* The detached thread meets a freed queue only if the timeout of          *)
(* read_serial and the time lost in its naps are longer than main's sleep. *)
THEOREM SleepProtects == Spec => []SleepCoversTimeout
<1>1. LInv => SleepCoversTimeout
  BY DEF LInv
<1> QED
  BY <1>1, LifecycleInvariance, PTL

(* A sleep that is longer by all slips there can be would be safe: no      *)
(* freed queue is ever met.                                                *)
THEOREM LongSleepIsSafe ==
    ASSUME SleepTicks >= TimeoutNaps + MaxSlips
    PROVE  Spec => [](reader # "undefined")
<1>1. LInv => reader # "undefined"
  <2> SUFFICES ASSUME LInv, reader = "undefined" PROVE FALSE
    OBVIOUS
  <2>1. TimeoutNaps + slips > SleepTicks /\ slips \in 0 .. MaxSlips
    BY DEF LInv, SleepCoversTimeout, TypeOK
  <2> QED
    BY <2>1, LifecycleAssumption, SMT
<1> QED
  BY <1>1, LifecycleInvariance, PTL

(* The unlock that queue.c:65-69 skips is never missed. *)
THEOREM LeftLockIsHarmless == Spec => []LeftLockBlocksNobody
<1>1. LInv => LeftLockBlocksNobody
  BY DEF LInv
<1> QED
  BY <1>1, LifecycleInvariance, PTL

(* Each of the error exits gives back exactly what was taken before, but   *)
(* for the mutex when the thread cannot be created.                        *)
THEOREM ErrorExits == Spec => []ErrorExitsRelease
<1>1. LInv => ErrorExitsRelease
  BY DEF LInv, HeldPart, ErrorExitsRelease
<1> QED
  BY <1>1, LifecycleInvariance, PTL
=============================================================================
