------------------------- MODULE SaveWindow_proofs -------------------------
(***************************************************************************)
(* Proofs about SaveWindow, for any lengths of blocks.  The invariant says *)
(* where the record watched stands: asked for once at most while no save   *)
(* came after it, as often as is due after the next one, and out of reach  *)
(* of every later window from then on.                                     *)
(***************************************************************************)
EXTENDS SaveWindow, TLAPS

-----------------------------------------------------------------------------
(* The whole second of a time. *)
LEMMA SecondOf ==
    ASSUME NEW t \in Nat
    PROVE  /\ Second(t) \in Nat
           /\ Second(t) \in WholeSeconds
           /\ Second(t) <= t
           /\ t < Second(t) + PerSecond
  BY DEF Second, WholeSeconds, PerSecond

(* It is the last whole second up to then. *)
LEMMA SecondIsLast ==
    ASSUME NEW t \in Nat, NEW w \in WholeSeconds, w <= t
    PROVE  w <= Second(t)
  BY DEF Second, WholeSeconds, PerSecond

LEMMA WholeSecondsStep ==
    ASSUME NEW w \in WholeSeconds
    PROVE  /\ w + PerSecond \in WholeSeconds
           /\ w - PerSecond \in WholeSeconds
           /\ \A v \in WholeSeconds : w < v => w + PerSecond <= v
  BY DEF WholeSeconds, PerSecond

LEMMA HourRange ==
    ASSUME NEW t \in Nat
    PROVE  AbsoluteHour(t) \in Nat /\ Hour(t) \in 0 .. HoursPerDay - 1
  BY DEF Hour, AbsoluteHour, HoursPerDay, PerHour, PerSecond

(* Times in one second are in one hour. *)
LEMMA SecondWithinHour ==
    ASSUME NEW s \in Nat, NEW t \in Nat, s <= t, Second(t) <= s
    PROVE  Hour(s) = Hour(t)
<1>1. AbsoluteHour(s) = AbsoluteHour(t)
  BY DEF Second, AbsoluteHour, PerHour, PerSecond
<1> QED
  BY <1>1 DEF Hour

(* Less than a day apart, the hour of the day tells the hours apart. *)
LEMMA HourOfDayIsEnough ==
    ASSUME NEW s \in Nat, NEW t \in Nat, s <= t, t <= s + PerHour * (HoursPerDay - 1),
           Hour(s) = Hour(t)
    PROVE  AbsoluteHour(s) = AbsoluteHour(t)
<1>1. AbsoluteHour(s) \in Nat /\ AbsoluteHour(t) \in Nat
  BY HourRange
<1>2. /\ AbsoluteHour(s) <= AbsoluteHour(t)
      /\ AbsoluteHour(t) <= AbsoluteHour(s) + 23
  BY DEF AbsoluteHour, PerHour, PerSecond, HoursPerDay
<1> QED
  BY <1>1, <1>2 DEF Hour, HoursPerDay

-----------------------------------------------------------------------------
(* The window begins a second after the last one's end, before the open    *)
(* block; what is watched lies before the open block.                      *)
Windows ==
    /\ process = "collect" =>
          /\ starttimeSave.time = lastEnd + PerSecond
          /\ lastEnd < recStart
          /\ recStart > 0
    /\ watched # NoRecord =>
          /\ watched.after <= watched.start
          /\ watched.start < watched.end
          /\ watched.end < recStart
          /\ here => process = "collect" /\ watched.after <= lastEnd

(* No save came since the record was packed.                               *)
Waits == watched # NoRecord /\ here /\ lastEnd = watched.after

(* It was asked for only if it starts with the end of the window it closed *)
(* itself, and the next save waits for the record's own hour to end.       *)
Waiting ==
    Waits => /\ Requested = IF watched.start <= watched.after THEN 1 ELSE 0
             /\ starttimeSave.hour = Hour(watched.start)

(* Without a long silence the block packed last is in that hour, and the   *)
(* open one starts less than a day later.                                  *)
SameHour ==
    Waits /\ ~silent =>
        /\ AbsoluteHour(lastPacked) = AbsoluteHour(watched.start)
        /\ lastPacked <= recStart
        /\ recStart <= lastPacked + PerHour * (HoursPerDay - 1)

(* A save came: the record was asked for as often as is due, and it ends   *)
(* before the window that is open now.                                     *)
Passed ==
    watched # NoRecord /\ here /\ lastEnd > watched.after =>
        /\ Requested = Due(watched)
        /\ watched.end <= lastEnd + PerSecond

(* Its run is over: it ends before any later window. *)
Left ==
    watched # NoRecord /\ ~here =>
        /\ Requested <= Due(watched)
        /\ process = "collect" => watched.end <= lastEnd + PerSecond

Nothing == watched = NoRecord => Requested = 0 /\ here

IInv == TypeOK /\ Windows /\ Waiting /\ SameHour /\ Passed /\ Left /\ Nothing

LEMMA InitIInv == Init => IInv
<1> SUFFICES ASSUME Init PROVE IInv
  OBVIOUS
<1>1. watched = NoRecord /\ here /\ process = "start" /\ Requested = 0
  BY DEF Init, Requested
<1>2. 0 \in WholeSeconds /\ 0 \in 0 .. HoursPerDay - 1
  BY DEF WholeSeconds, HoursPerDay, PerSecond
<1>3. TypeOK
  <2>1. starttimeSave \in [time : WholeSeconds, hour : 0 .. HoursPerDay - 1]
    BY <1>2 DEF Init
  <2>2. watched \in [start : Nat, end : Nat, after : WholeSeconds]
    BY <1>2 DEF Init, NoRecord
  <2>3. runs \in 1 .. MaxRuns /\ blocks \in 0 .. MaxBlocks
    BY SaveAssumption DEF Init
  <2>4. /\ process = "start" /\ here = TRUE /\ silent = FALSE
        /\ recStart = 0 /\ lastEnd = 0 /\ lastPacked = 0
        /\ pending = 0 /\ copies = 0 /\ failed = 0
    BY DEF Init
  <2> QED
    BY <1>2, <2>1, <2>2, <2>3, <2>4 DEF TypeOK
<1> QED
  BY <1>1, <1>3 DEF IInv, Windows, Waits, Waiting, SameHour, Passed, Left, Nothing

-----------------------------------------------------------------------------
(* A first block, also after a restart: its window begins after all that   *)
(* was packed before.                                                      *)
LEMMA FirstStartKeeps == ASSUME IInv, FirstStart PROVE IInv'
<1> USE DEF IInv
<1>1. PICK t \in FirstTimes :
        /\ recStart' = t
        /\ starttimeSave' = [time |-> Second(t), hour |-> Hour(t)]
        /\ lastEnd' = Second(t) - PerSecond
  BY DEF FirstStart
<1>2. t \in Nat /\ t > 0
  BY SaveAssumption DEF FirstTimes, TypeOK, PerSecond
<1>3. watched # NoRecord => recStart + 4 * PerSecond <= t
  <2>1. watched # NoRecord => recStart # 0
    BY DEF Windows, TypeOK
  <2> QED
    BY <2>1, SaveAssumption DEF FirstTimes, TypeOK, PerSecond
<1>4. /\ Second(t) \in Nat /\ Second(t) \in WholeSeconds /\ Second(t) <= t
      /\ t < Second(t) + PerSecond
      /\ Second(t) - PerSecond \in WholeSeconds
  BY <1>2, SecondOf, WholeSecondsStep
<1>5. Hour(t) \in 0 .. HoursPerDay - 1
  BY <1>2, HourRange
<1>6. TypeOK'
  BY <1>1, <1>2, <1>4, <1>5 DEF TypeOK, FirstStart, watchVars, archiveVars
<1>7. watched # NoRecord => ~here
  BY DEF Windows, FirstStart
<1>8. /\ watched' = watched /\ here' = here /\ Requested' = Requested
      /\ process' = "collect"
  BY DEF FirstStart, watchVars, archiveVars, Requested
<1>9. Windows'
  BY <1>1, <1>2, <1>3, <1>4, <1>7, <1>8 DEF Windows, TypeOK, PerSecond, WholeSeconds
<1>10. Left'
  BY <1>1, <1>2, <1>3, <1>4, <1>8 DEF Left, Windows, TypeOK, PerSecond, WholeSeconds
<1>11. Waiting' /\ SameHour' /\ Passed' /\ Nothing'
  BY <1>7, <1>8 DEF Waits, Waiting, SameHour, Passed, Nothing
<1> QED
  BY <1>6, <1>9, <1>10, <1>11

-----------------------------------------------------------------------------
(* No save: what was watched stays as it is, what is watched from now on   *)
(* waits.                                                                  *)
LEMMA PackQuietKeeps ==
    ASSUME IInv, PackBlock, ~HourDiffers(recStart)
    PROVE  IInv'
<1> USE DEF IInv
<1>1. PICK n \in Lengths :
        /\ recStart' = recStart + n
        /\ lastEnd' = lastEnd
        /\ Watch(n)
        /\ silent' = (watched' # NoRecord /\ (silent \/ n > PerHour * (HoursPerDay - 1)))
  BY DEF PackBlock
<1>2. /\ process = "collect" /\ process' = process /\ here' = here
      /\ starttimeSave' = starttimeSave /\ lastPacked' = recStart
      /\ Requested' = Requested
  BY DEF PackBlock, Requested
<1>3. n \in Nat /\ n > 1
  BY SaveAssumption
<1>4. /\ recStart \in Nat /\ recStart > 0 /\ lastEnd < recStart /\ lastEnd \in Int
      /\ starttimeSave.hour = Hour(recStart)
  BY <1>2 DEF TypeOK, Windows, HourDiffers, WholeSeconds
<1>5. TypeOK'
  <2>1. watched' \in [start : Nat, end : Nat, after : WholeSeconds]
    BY <1>1, <1>3, <1>4 DEF Watch, TypeOK
  <2>2. recStart' \in Nat /\ silent' \in BOOLEAN
    BY <1>1, <1>3, <1>4
  <2>3. blocks' \in 0 .. MaxBlocks /\ runs' = runs
    BY SaveAssumption DEF PackBlock, TypeOK
  <2>4. pending' = pending /\ copies' = copies /\ failed' = failed
    BY DEF PackBlock
  <2> QED
    BY <1>1, <1>2, <1>4, <2>1, <2>2, <2>3, <2>4 DEF TypeOK
<1>6. CASE watched' = watched
  <2>1. Windows'
    BY <1>1, <1>2, <1>3, <1>4, <1>6 DEF Windows, TypeOK
  <2>2. Waiting'
    BY <1>1, <1>2, <1>6 DEF Waits, Waiting
  <2>4. SameHour'
    <3> SUFFICES ASSUME Waits, ~silent'
                 PROVE  /\ AbsoluteHour(recStart) = AbsoluteHour(watched.start)
                        /\ recStart <= recStart + n
                        /\ recStart + n <= recStart + PerHour * (HoursPerDay - 1)
      BY <1>1, <1>2, <1>6 DEF Waits, SameHour
    <3>1. ~silent /\ ~(n > PerHour * (HoursPerDay - 1))
      BY <1>1, <1>6 DEF Waits
    <3>2. PerHour * (HoursPerDay - 1) \in Nat
      BY DEF PerHour, PerSecond, HoursPerDay
    <3>3. /\ lastPacked \in Nat /\ lastPacked <= recStart
          /\ recStart <= lastPacked + PerHour * (HoursPerDay - 1)
          /\ AbsoluteHour(lastPacked) = AbsoluteHour(watched.start)
          /\ starttimeSave.hour = Hour(watched.start)
      BY <3>1 DEF Waiting, SameHour, TypeOK
    <3>4. Hour(lastPacked) = Hour(recStart)
      BY <1>4, <3>3 DEF Hour
    <3>5. AbsoluteHour(lastPacked) = AbsoluteHour(recStart)
      BY <1>4, <3>3, <3>4, HourOfDayIsEnough
    <3> QED
      BY <1>3, <1>4, <3>1, <3>2, <3>3, <3>5
  <2>3. Passed' /\ Left' /\ Nothing'
    BY <1>1, <1>2, <1>6 DEF Passed, Left, Nothing
  <2> QED
    BY <1>5, <2>1, <2>2, <2>3, <2>4
<1>7. CASE watched' # watched
  <2>1. /\ watched = NoRecord
        /\ watched' = [start |-> recStart, end |-> recStart + n - 1, after |-> lastEnd]
        /\ Requested = 0 /\ here
    BY <1>1, <1>7 DEF Watch, Nothing
  <2>2. watched' # NoRecord
    BY <1>7, <2>1
  <2>3. /\ watched'.start = recStart /\ watched'.end = recStart + n - 1
        /\ watched'.after = lastEnd
    BY <2>1
  <2>4. Windows'
    BY <1>1, <1>2, <1>3, <1>4, <2>1, <2>3 DEF Windows, TypeOK
  <2>5. PerHour * (HoursPerDay - 1) \in Nat
    BY DEF PerHour, PerSecond, HoursPerDay
  <2>6. ~silent' => n <= PerHour * (HoursPerDay - 1)
    <3>1. ~silent' => ~(n > PerHour * (HoursPerDay - 1))
      BY <1>1, <2>2
    <3> QED
      BY <1>3, <2>5, <3>1
  <2>7. Waiting'
    BY <1>2, <1>4, <2>1, <2>3 DEF Waiting
  <2>9. SameHour'
    BY <1>1, <1>2, <1>3, <1>4, <2>3, <2>5, <2>6 DEF SameHour
  <2>8. Passed' /\ Left' /\ Nothing'
    BY <1>1, <1>2, <1>4, <2>1, <2>2, <2>3 DEF Passed, Left, Nothing
  <2> QED
    BY <1>5, <2>4, <2>7, <2>8, <2>9
<1> QED
  BY <1>6, <1>7

-----------------------------------------------------------------------------
(* What a save does to the record that is watched after it.                *)
LEMMA SaveStep ==
    ASSUME IInv, PackBlock, HourDiffers(recStart)
    PROVE  /\ lastEnd' = Second(recStart)
           /\ lastEnd' \in WholeSeconds
           /\ lastEnd <= lastEnd'
           /\ lastEnd' <= recStart /\ recStart < lastEnd' + PerSecond
           /\ starttimeSave' = [time |-> lastEnd' + PerSecond, hour |-> Hour(recStart)]
           /\ Requested' = IF /\ watched' # NoRecord
                              /\ watched'.end > lastEnd + PerSecond
                              /\ watched'.start <= lastEnd'
                           THEN Requested + 1 ELSE Requested
<1> USE DEF IInv
<1>1. process = "collect" /\ recStart \in Nat /\ lastEnd \in WholeSeconds /\ lastEnd < recStart
  BY DEF PackBlock, TypeOK, Windows
<1>2. /\ Second(recStart) \in Nat /\ Second(recStart) \in WholeSeconds
      /\ Second(recStart) <= recStart /\ recStart < Second(recStart) + PerSecond
      /\ lastEnd <= Second(recStart)
  BY <1>1, SecondOf, SecondIsLast DEF WholeSeconds
<1>3. Hour(Second(recStart)) = Hour(recStart)
  BY <1>1, <1>2, SecondWithinHour
<1>4. RunSaveCommand
  BY DEF PackBlock
<1>5. lastEnd' = Second(recStart)
  BY <1>4 DEF RunSaveCommand
<1>6. starttimeSave' = [time |-> lastEnd' + PerSecond, hour |-> Hour(recStart)]
  BY <1>3, <1>4, <1>5 DEF RunSaveCommand, NextWindow
<1>7. starttimeSave.time = lastEnd + PerSecond
  BY <1>1 DEF Windows
<1>8. /\ copies' = copies /\ failed' = failed
      /\ pending \in Nat /\ copies \in Nat /\ failed \in Nat
  BY DEF PackBlock, TypeOK
<1>9. pending' = IF /\ watched' # NoRecord
                    /\ watched'.end > lastEnd + PerSecond
                    /\ watched'.start <= lastEnd'
                 THEN pending + 1 ELSE pending
  BY <1>4, <1>5, <1>7 DEF RunSaveCommand, Selected, NotAfter
<1>10. Requested' = IF /\ watched' # NoRecord
                       /\ watched'.end > lastEnd + PerSecond
                       /\ watched'.start <= lastEnd'
                    THEN Requested + 1 ELSE Requested
  BY <1>8, <1>9 DEF Requested
<1> QED
  BY <1>2, <1>5, <1>6, <1>10

LEMMA PackSaveKeeps ==
    ASSUME IInv, PackBlock, HourDiffers(recStart)
    PROVE  IInv'
<1> USE DEF IInv
<1>1. PICK n \in Lengths :
        /\ recStart' = recStart + n
        /\ Watch(n)
        /\ silent' = (watched' # NoRecord /\ (silent \/ n > PerHour * (HoursPerDay - 1)))
  BY DEF PackBlock
<1>2. /\ process = "collect" /\ process' = process /\ here' = here /\ lastPacked' = recStart
      /\ runs' = runs /\ copies' = copies /\ failed' = failed
  BY DEF PackBlock
<1>3. n \in Nat /\ n > 1
  BY SaveAssumption
<1>4. /\ recStart \in Nat /\ recStart > 0 /\ lastEnd < recStart
      /\ lastEnd \in WholeSeconds /\ lastEnd \in Int
      /\ starttimeSave.hour # Hour(recStart)
  BY <1>2 DEF TypeOK, Windows, HourDiffers, WholeSeconds
<1>5. /\ lastEnd' = Second(recStart)
      /\ lastEnd' \in WholeSeconds /\ lastEnd' \in Int
      /\ lastEnd <= lastEnd'
      /\ lastEnd' <= recStart /\ recStart < lastEnd' + PerSecond
      /\ starttimeSave' = [time |-> lastEnd' + PerSecond, hour |-> Hour(recStart)]
  BY SaveStep DEF WholeSeconds
<1>6. Requested' = IF /\ watched' # NoRecord
                      /\ watched'.end > lastEnd + PerSecond
                      /\ watched'.start <= lastEnd'
                   THEN Requested + 1 ELSE Requested
  BY SaveStep
<1>7. Requested \in Nat
  BY DEF Requested, TypeOK
<1>8. PerSecond \in Nat /\ PerSecond > 0
  BY DEF PerSecond
<1>9. TypeOK'
  <2>1. watched' \in [start : Nat, end : Nat, after : WholeSeconds]
    BY <1>1, <1>3, <1>4, <1>5 DEF Watch, TypeOK
  <2>2. starttimeSave' \in [time : WholeSeconds, hour : 0 .. HoursPerDay - 1]
    BY <1>4, <1>5, HourRange, WholeSecondsStep
  <2>3. recStart' \in Nat /\ silent' \in BOOLEAN
    BY <1>1, <1>3, <1>4
  <2>4. blocks' \in 0 .. MaxBlocks /\ pending' \in Nat
    BY SaveAssumption DEF PackBlock, RunSaveCommand, TypeOK
  <2> QED
    BY <1>2, <1>4, <1>5, <2>1, <2>2, <2>3, <2>4 DEF TypeOK
<1>10. CASE watched' = watched
  <2>1. Windows'
    BY <1>1, <1>2, <1>3, <1>4, <1>5, <1>10 DEF Windows, TypeOK, WholeSeconds
  <2>2. CASE Waits
    <3>1. /\ watched # NoRecord /\ watched.after \in Int
          /\ watched.start \in Nat /\ watched.end \in Nat /\ watched.start < watched.end
          /\ watched.end < recStart
          /\ starttimeSave.hour = Hour(watched.start)
          /\ Requested = IF watched.start <= watched.after THEN 1 ELSE 0
      BY <2>2 DEF Waits, Waiting, Windows, TypeOK, WholeSeconds
    <3>2. /\ watched.start < lastEnd'
          /\ watched.after <= watched.start
      BY <1>4, <1>5, <2>2, <3>1, SecondWithinHour DEF Waits, Windows
    <3>3. ~Waits'
      BY <1>4, <1>5, <1>10, <3>1, <3>2 DEF Waits
    <3>4. Requested' = IF watched.end > lastEnd + PerSecond THEN Requested + 1 ELSE Requested
      BY <1>4, <1>5, <1>6, <1>10, <3>1, <3>2
    <3>5. Requested' = Due(watched)
      BY <1>4, <1>8, <2>2, <3>1, <3>4 DEF Waits, Due, Between, InBoth
    <3>6. watched.end <= lastEnd' + PerSecond
      BY <1>4, <1>5, <1>8, <3>1
    <3>7. Passed'
      BY <1>10, <3>5, <3>6 DEF Passed
    <3>8. Left' /\ Nothing'
      BY <1>2, <1>10, <2>2 DEF Waits, Left, Nothing
    <3> QED
      BY <1>9, <2>1, <3>3, <3>7, <3>8 DEF Waiting, SameHour
  <2>3. CASE ~Waits /\ here /\ watched # NoRecord
    <3>1. /\ watched.after \in Int /\ watched.end \in Nat
          /\ watched.after < lastEnd
          /\ watched.end <= lastEnd + PerSecond
          /\ Requested = Due(watched)
      BY <1>4, <2>3 DEF Waits, Windows, Passed, TypeOK, WholeSeconds
    <3>2. Requested' = Requested
      BY <1>4, <1>6, <1>8, <1>10, <3>1
    <3>3. ~Waits' /\ Passed'
      BY <1>4, <1>5, <1>8, <1>10, <3>1, <3>2 DEF Waits, Passed
    <3>4. Left' /\ Nothing'
      BY <1>2, <1>10, <2>3 DEF Left, Nothing
    <3> QED
      BY <1>9, <2>1, <3>3, <3>4 DEF Waiting, SameHour
  <2>4. CASE ~here /\ watched # NoRecord
    <3>1. watched.end \in Nat /\ watched.end <= lastEnd + PerSecond /\ Requested <= Due(watched)
      BY <1>2, <2>4 DEF Left, TypeOK
    <3>2. Requested' = Requested
      BY <1>4, <1>6, <1>8, <1>10, <3>1
    <3>3. Left'
      BY <1>4, <1>5, <1>8, <1>10, <3>1, <3>2 DEF Left
    <3> QED
      BY <1>2, <1>9, <1>10, <2>1, <2>4, <3>3 DEF Waits, Waiting, SameHour, Passed, Nothing
  <2>5. CASE watched = NoRecord
    <3>1. Requested' = Requested
      BY <1>6, <1>10, <2>5
    <3> QED
      BY <1>2, <1>9, <1>10, <2>1, <2>5, <3>1
         DEF Waits, Waiting, SameHour, Passed, Left, Nothing
  <2> QED
    BY <2>2, <2>3, <2>4, <2>5
<1>11. CASE watched' # watched
  <2>1. /\ watched = NoRecord
        /\ watched' = [start |-> recStart, end |-> recStart + n - 1, after |-> lastEnd']
        /\ Requested = 0 /\ here
    BY <1>1, <1>11 DEF Watch, Nothing
  <2>2. /\ watched' # NoRecord
        /\ watched'.start = recStart /\ watched'.end = recStart + n - 1
        /\ watched'.after = lastEnd'
    BY <1>11, <2>1
  <2>3. Windows'
    BY <1>1, <1>2, <1>3, <1>4, <1>5, <2>1, <2>2 DEF Windows, TypeOK
  <2>4. recStart <= lastEnd' => recStart + n - 1 > lastEnd + PerSecond
    <3> SUFFICES ASSUME recStart <= lastEnd' PROVE lastEnd + PerSecond <= recStart
      BY <1>3, <1>4, <1>8
    <3> QED
      BY <1>4, <1>5, WholeSecondsStep
  <2>5. Requested' = IF watched'.start <= watched'.after THEN 1 ELSE 0
    BY <1>4, <1>5, <1>6, <2>1, <2>2, <2>4
  <2>6. Waiting'
    BY <1>5, <2>2, <2>5 DEF Waiting
  <2>7. PerHour * (HoursPerDay - 1) \in Nat
    BY DEF PerHour, PerSecond, HoursPerDay
  <2>8. ~silent' => n <= PerHour * (HoursPerDay - 1)
    <3>1. ~silent' => ~(n > PerHour * (HoursPerDay - 1))
      BY <1>1, <2>2
    <3> QED
      BY <1>3, <2>7, <3>1
  <2>9. SameHour'
    BY <1>1, <1>2, <1>3, <1>4, <2>2, <2>7, <2>8 DEF SameHour
  <2>10. Passed' /\ Left' /\ Nothing'
    BY <1>2, <1>5, <2>1, <2>2 DEF Passed, Left, Nothing
  <2> QED
    BY <1>9, <2>3, <2>6, <2>9, <2>10
<1> QED
  BY <1>10, <1>11

-----------------------------------------------------------------------------
(* slarchive's answers only move a request on. *)
LEMMA ArchiveKeeps == ASSUME IInv, Archive \/ ArchiveFails PROVE IInv'
<1> USE DEF IInv
<1>1. /\ UNCHANGED runVars /\ UNCHANGED watchVars
      /\ pending' \in Nat /\ copies' \in Nat /\ failed' \in Nat
      /\ Requested' = Requested
  BY DEF Archive, ArchiveFails, TypeOK, Requested
<1>2. TypeOK'
  BY <1>1 DEF TypeOK, runVars, watchVars
<1>3. Windows' /\ Waiting' /\ SameHour' /\ Passed' /\ Left' /\ Nothing'
  BY <1>1 DEF Windows, Waits, Waiting, SameHour, Passed, Left, Nothing, runVars, watchVars
<1> QED
  BY <1>2, <1>3

LEMMA StopKeeps == ASSUME IInv, Stop PROVE IInv'
<1> USE DEF IInv
<1>1. /\ process' = "stopped" /\ here' = (here /\ watched = NoRecord)
      /\ UNCHANGED <<runs, blocks, recStart, starttimeSave, lastEnd, lastPacked, watched,
                     silent, archiveVars>>
      /\ Requested' = Requested
  BY DEF Stop, archiveVars, Requested
<1>2. TypeOK'
  BY <1>1 DEF TypeOK, archiveVars
<1>3. watched # NoRecord => Requested <= Due(watched)
  <2>1. CASE Waits
    BY <2>1 DEF Waits, Waiting, Windows, TypeOK, WholeSeconds, Due, Between, InBoth
  <2>2. CASE watched # NoRecord /\ here /\ ~Waits
    <3>1. Requested = Due(watched)
      BY <2>2 DEF Waits, Windows, Passed, TypeOK, WholeSeconds
    <3> QED
      BY <3>1 DEF Due
  <2>3. CASE watched # NoRecord /\ ~here
    BY <2>3 DEF Left
  <2> QED
    BY <2>1, <2>2, <2>3
<1>4. Windows' /\ Nothing'
  BY <1>1 DEF Windows, Nothing
<1>5. Left'
  BY <1>1, <1>3 DEF Left
<1>6. watched' # NoRecord => ~here'
  BY <1>1
<1> QED
  BY <1>2, <1>4, <1>5, <1>6 DEF Waits, Waiting, SameHour, Passed

LEMMA RestartKeeps == ASSUME IInv, Restart PROVE IInv'
<1> USE DEF IInv
<1>1. /\ process' = "start" /\ runs' \in 1 .. MaxRuns
      /\ UNCHANGED <<blocks, recStart, starttimeSave, lastEnd, lastPacked, watchVars, archiveVars>>
      /\ Requested' = Requested
  BY SaveAssumption DEF Restart, TypeOK, archiveVars, Requested
<1>2. TypeOK'
  BY <1>1 DEF TypeOK, archiveVars, watchVars
<1>3. watched # NoRecord => ~here
  BY DEF Windows, Restart
<1> QED
  BY <1>1, <1>2, <1>3
     DEF Windows, Waits, Waiting, SameHour, Passed, Left, Nothing, watchVars

LEMMA StutterKeeps == ASSUME IInv, UNCHANGED vars PROVE IInv'
  BY DEF IInv, TypeOK, Windows, Waits, Waiting, SameHour, Passed, Left, Nothing, Requested,
         vars, runVars, watchVars, archiveVars

LEMMA StepKeeps == IInv /\ [Next]_vars => IInv'
<1> SUFFICES ASSUME IInv, [Next]_vars PROVE IInv'
  OBVIOUS
<1>1. CASE FirstStart
  BY <1>1, FirstStartKeeps
<1>2. CASE PackBlock
  BY <1>2, PackQuietKeeps, PackSaveKeeps
<1>3. CASE Archive \/ ArchiveFails
  BY <1>3, ArchiveKeeps
<1>4. CASE Stop
  BY <1>4, StopKeeps
<1>5. CASE Restart
  BY <1>5, RestartKeeps
<1>6. CASE Stopped \/ UNCHANGED vars
  BY <1>6, StutterKeeps DEF Stopped
<1> QED
  BY <1>1, <1>2, <1>3, <1>4, <1>5, <1>6 DEF Next

THEOREM Inductive == Spec => []IInv
  BY InitIInv, StepKeeps, PTL DEF Spec

-----------------------------------------------------------------------------
(* Windows begin and end at whole seconds, whatever the blocks' lengths    *)
(* (extract_datetime, the second + 1 of msrecord.c 254).                   *)
THEOREM TypeCorrect == Spec => []TypeOK
<1>1. IInv => TypeOK
  BY DEF IInv
<1> QED
  BY <1>1, Inductive, PTL

(* Every record is asked for as often as SavedOnce says, for all lengths   *)
(* of blocks and silences and any number of hours (msrecord.c 232-256).    *)
THEOREM RecordsSavedOnce == Spec => []SavedOnce
<1>1. IInv => SavedOnce
  <2> SUFFICES ASSUME IInv, watched # NoRecord
               PROVE  /\ Requested <= Due(watched)
                      /\ here /\ lastEnd > watched.after => Requested = Due(watched)
    BY DEF SavedOnce
  <2> USE DEF IInv
  <2>1. here /\ lastEnd > watched.after => Requested = Due(watched)
    BY DEF Passed
  <2>2. Requested <= Due(watched)
    <3>1. CASE Waits
      BY <3>1 DEF Waits, Waiting, Windows, TypeOK, WholeSeconds, Due, Between, InBoth
    <3>2. CASE here /\ ~Waits
      <4>1. Requested = Due(watched)
        BY <3>2, <2>1 DEF Waits, Windows, TypeOK, WholeSeconds
      <4> QED
        BY <4>1 DEF Due
    <3>3. CASE ~here
      BY <3>3 DEF Left
    <3> QED
      BY <3>1, <3>2, <3>3
  <2> QED
    BY <2>1, <2>2
<1> QED
  BY <1>1, Inductive, PTL

(* No record waits for its save longer than its own hour, unless the board *)
(* fell silent for most of a day (the hour comparison of msrecord.c 232).  *)
THEOREM SavesAreHourly == Spec => []WaitsOneHour
<1>1. IInv => WaitsOneHour
  <2> SUFFICES ASSUME IInv, watched # NoRecord, here, Requested = 0, ~Between(watched), ~silent
               PROVE  AbsoluteHour(lastPacked) = AbsoluteHour(watched.start)
    BY DEF WaitsOneHour
  <2> USE DEF IInv
  <2>1. Due(watched) # 0
    BY DEF Due
  <2>2. ~(lastEnd > watched.after)
    BY <2>1 DEF Passed
  <2>3. Waits
    BY <2>2 DEF Waits, Windows, TypeOK, WholeSeconds
  <2> QED
    BY <2>3 DEF SameHour
<1> QED
  BY <1>1, Inductive, PTL

(* A later run never asks for what an earlier one left unsaved: its first  *)
(* window begins after it (msrecord.c 154-158 after the sleeps of main).   *)
THEOREM LeftForGood == Spec => StopIsFinal
<1>1. IInv /\ [Next]_vars => [~here => Requested' = Requested]_vars
  <2> SUFFICES ASSUME IInv, [Next]_vars, ~here PROVE Requested' = Requested
    BY DEF vars
  <2> USE DEF IInv
  <2>1. CASE PackBlock /\ HourDiffers(recStart)
    <3>1. watched # NoRecord /\ watched' = watched /\ process = "collect"
      BY <2>1 DEF Nothing, PackBlock, Watch
    <3>2. watched.end \in Nat /\ lastEnd \in Int /\ watched.end <= lastEnd + PerSecond
      BY <3>1 DEF Left, TypeOK, WholeSeconds
    <3>3. ~(watched'.end > lastEnd + PerSecond)
      BY <3>1, <3>2 DEF PerSecond
    <3> QED
      BY <2>1, <3>3, SaveStep
  <2>2. CASE PackBlock /\ ~HourDiffers(recStart)
    BY <2>2 DEF PackBlock, Requested
  <2>3. CASE Archive \/ ArchiveFails
    BY <2>3 DEF Archive, ArchiveFails, Requested, TypeOK
  <2>4. CASE FirstStart \/ Stop \/ Restart \/ Stopped \/ UNCHANGED vars
    BY <2>4 DEF FirstStart, Stop, Restart, Stopped, Requested, vars, archiveVars
  <2> QED
    BY <2>1, <2>2, <2>3, <2>4 DEF Next
<1> QED
  BY <1>1, Inductive, PTL DEF Spec, StopIsFinal
=============================================================================
