---------------------------- MODULE SerialLine ----------------------------
(***************************************************************************)
(* One line of the board, from the sketch's println to the sample block:   *)
(* characters on the serial line, read_serial (serialutils.c), the test    *)
(* for a marker (main.c: read_serial_buffer) and the splitting and         *)
(* conversion of a sample in process_data (msrecord.c).                    *)
(*                                                                         *)
(* Acquisition takes lines as they come out of read_serial, and lets some  *)
(* get lost.  This module shows what a lost character, a pause in the      *)
(* middle of a line and a failing read make of the lines.                  *)
(*                                                                         *)
(* Every number is printed with FieldWidth digits.  A character keeps the  *)
(* place it was printed at; what a token is worth follows from the         *)
(* characters in it.  The data queue between the two threads keeps lines   *)
(* in order (Fifo), so a line is split as soon as it is dispatched.        *)
(***************************************************************************)
EXTENDS Integers, Sequences, SequencesExt, FiniteSets

CONSTANTS
    BlockSize,      \* samples between two markers (200)
    MaxLines,       \* bound: lines the board prints
    FieldWidth,     \* digits of a printed number (up to 8)
    LineSize,       \* bytes of line_data (33)
    TokenSize,      \* MAX_CHANNEL_LENGTH, bytes of a token (10)
    Timeout,        \* naps of 10 ms before read_serial gives up (100)
    Readings,       \* what the converters may have measured
    MaxDamage       \* bound: characters lost, pauses as long as the timeout
                    \* inside a line and failing reads, together

-----------------------------------------------------------------------------
(* What the board prints *)

Fields == 1 .. 3            \* NS, EW, Z

Digit(k, c, i) == [kind |-> "digit", line |-> k, field |-> c, place |-> i]
Star(k, c) == [kind |-> "star", line |-> k, field |-> c, place |-> 0]
LineEnd == [kind |-> "end", line |-> 0, field |-> 0, place |-> 0]

Number(k, c) == [i \in 1 .. FieldWidth |-> Digit(k, c, i)]

(* The first line is a marker, and one follows every BlockSize samples. *)
IsMarker(k) == (k - 1) % (BlockSize + 1) = 0

Text(k) ==
    IF IsMarker(k) THEN <<Star(k, 0)>>
    ELSE Number(k, 1) \o <<Star(k, 1)>> \o Number(k, 2) \o <<Star(k, 2)>> \o Number(k, 3)

(* println ends a line with \r\n. *)
Printed(k) == Text(k) \o <<LineEnd, LineEnd>>

LongestText == 3 * FieldWidth + 2

(* The converters have 24 bits. *)
LastReading == 16777215

ASSUME SerialLineAssumption ==
    /\ BlockSize \in Nat \ {0} /\ MaxLines \in Nat
    /\ FieldWidth \in Nat \ {0}
    /\ LineSize \in Nat /\ TokenSize \in Nat
    /\ LongestText < LineSize /\ FieldWidth < TokenSize
    /\ Timeout \in Nat \ {0}
    /\ Readings \subseteq 0 .. LastReading
    /\ MaxDamage \in Nat

-----------------------------------------------------------------------------
(* What process_data makes of it *)

(* strtok(line, "*"): the runs of digits, in order. *)
TokenStarts(s) ==
    {i \in 1 .. Len(s) : s[i].kind = "digit" /\ (i = 1 \/ s[i - 1].kind # "digit")}

TokenAt(s, i) ==
    SubSeq(s, i, CHOOSE j \in i .. Len(s) :
                    /\ \A m \in i .. j : s[m].kind = "digit"
                    /\ j < Len(s) => s[j + 1].kind # "digit")

(* Before the n-th token n - 1 others begin. *)
TokenStart(s, n) ==
    CHOOSE i \in TokenStarts(s) : Cardinality({j \in TokenStarts(s) : j < i}) = n - 1

(* Mutant: the sketch and process_data disagree about the separator. *)
Tokens_NoSeparator(s) == <<s>>

Tokens(s) == [n \in 1 .. Cardinality(TokenStarts(s)) |-> TokenAt(s, TokenStart(s, n))]

(* Mutant: the bound of the negative half is one too high. *)
Convert_HalfOff(u) == IF u > 8388608 /\ u <= 16777215 THEN -(16777215 - u) ELSE u

(* The 24-bit number of the converter as a signed sample. *)
Convert(u) == IF u >= 8388608 /\ u <= 16777215 THEN -(16777215 - u) ELSE u

-----------------------------------------------------------------------------
VARIABLES
    line,           \* the line the board is printing
    position,       \* its next character
    pc,             \* the reader thread: "check", "skip", "value", "dispatch"
    lineData,       \* line_data[0 .. n_line_data-1]
    totalSleep,     \* total_sleep, in naps
    token,          \* data_sample_token: what the last splits left there
    good,           \* history: lines that came through as they were printed
    delivered,      \* history: how many lines read_serial returned
    falseMarkers,   \* history: how many of them only looked like a marker
    overrun,        \* history: the array written past its end, or "none"
    lost,           \* history: characters lost on the way
    cuts,           \* history: timeouts inside a line
    errors          \* history: reads that failed although select saw input

damage == <<lost, cuts, errors>>
history == <<good, delivered, falseMarkers, overrun>>
boardVars == <<line, position>>
readerVars == <<pc, lineData, totalSleep, token>>
vars == <<boardVars, readerVars, history, damage>>

(* Nothing was split yet: data_sample_token is not initialized. *)
Unset == << >>

Init ==
    /\ line = 1
    /\ position = 1
    /\ pc = "check"
    /\ lineData = << >>
    /\ totalSleep = 0
    /\ token = [c \in Fields |-> Unset]
    /\ good = {}
    /\ delivered = 0
    /\ falseMarkers = 0
    /\ overrun = "none"
    /\ lost = 0
    /\ cuts = 0
    /\ errors = 0

-----------------------------------------------------------------------------
Character == Printed(line)[position]

Printing == line <= MaxLines

Damage == lost + cuts + errors

(* The next character leaves the wire. *)
TakeCharacter ==
    IF position < Len(Printed(line))
    THEN position' = position + 1 /\ UNCHANGED line
    ELSE position' = 1 /\ line' = line + 1

(* A character gets lost: a full tty buffer, noise. *)
LoseCharacter ==
    /\ Printing
    /\ Damage < MaxDamage
    /\ lost' = lost + 1
    /\ TakeCharacter
    /\ UNCHANGED <<readerVars, history, cuts, errors>>

(* read_serial is called; line_data is filled from its beginning. *)
CallRead ==
    /\ pc = "check"
    /\ pc' = "skip"
    /\ lineData' = << >>
    /\ totalSleep' = 0
    /\ UNCHANGED <<boardVars, token, history, damage>>

(* The first loop passes over line ends... *)
SkipLineEnd ==
    /\ pc = "skip"
    /\ Printing
    /\ Character = LineEnd
    /\ TakeCharacter
    /\ UNCHANGED <<readerVars, history, damage>>

(* ... and takes the first other character. *)
ReadFirst ==
    /\ pc = "skip"
    /\ Printing
    /\ Character # LineEnd
    /\ lineData' = <<Character>>
    /\ TakeCharacter
    /\ pc' = "value"
    /\ UNCHANGED <<totalSleep, token, history, damage>>

(* Nothing to read, or the read failed: 10 ms of sleep, until the timeout. *)
SkipNap ==
    /\ pc = "skip"
    /\ totalSleep' = totalSleep + 1
    /\ pc' = IF totalSleep' = Timeout THEN "check" ELSE "skip"
    /\ UNCHANGED <<boardVars, lineData, token, history, damage>>

(* From a write past the end of an array on, the program may do anything:  *)
(* the model follows it no further.                                        *)
Overrun(array) ==
    /\ overrun' = array
    /\ pc' = "undefined"

(* Mutant: no room is left for the zero. *)
StoreCharacter_NoZero(ch) ==
    IF Len(lineData) < LineSize
    THEN lineData' = Append(lineData, ch) /\ UNCHANGED <<pc, overrun>>
    ELSE Overrun("line_data") /\ UNCHANGED lineData

(* A character and the zero after it go into line_data: MAX_LINE_DATA is   *)
(* larger than the array, so nothing stops a longer line.                  *)
StoreCharacter(ch) ==
    IF Len(lineData) + 1 < LineSize
    THEN lineData' = Append(lineData, ch) /\ UNCHANGED <<pc, overrun>>
    ELSE Overrun("line_data") /\ UNCHANGED lineData

(* The second loop stores characters ... *)
ReadValue ==
    /\ pc = "value"
    /\ Printing
    /\ Character # LineEnd
    /\ StoreCharacter(Character)
    /\ TakeCharacter
    /\ UNCHANGED <<totalSleep, token, good, delivered, falseMarkers, damage>>

(* ... and, when the read fails, what buf still holds: the last one ...    *)
ReadError ==
    /\ pc = "value"
    /\ Damage < MaxDamage
    /\ errors' = errors + 1
    /\ StoreCharacter(Last(lineData))
    /\ UNCHANGED <<boardVars, totalSleep, token, good, delivered, falseMarkers, lost, cuts>>

(* ... up to the line end. *)
ReadLineEnd ==
    /\ pc = "value"
    /\ Printing
    /\ Character = LineEnd
    /\ TakeCharacter
    /\ pc' = "dispatch"
    /\ UNCHANGED <<lineData, totalSleep, token, history, damage>>

ValueNap ==
    /\ pc = "value"
    /\ totalSleep + 1 < Timeout
    /\ totalSleep' = totalSleep + 1
    /\ UNCHANGED <<boardVars, pc, lineData, token, history, damage>>

(* Mutant: the part read so far is returned. *)
CutLine_ReturnsPart ==
    /\ pc = "value"
    /\ totalSleep + 1 = Timeout
    /\ Printing => Damage < MaxDamage
    /\ cuts' = cuts + 1
    /\ totalSleep' = totalSleep + 1
    /\ pc' = "dispatch"
    /\ UNCHANGED <<boardVars, lineData, token, history, lost, errors>>

(* The timeout, shared with the first loop, strikes inside a line: what    *)
(* was read of it is dropped, the rest will be taken for a line.  It       *)
(* always does when the board falls silent there.                          *)
CutLine ==
    /\ pc = "value"
    /\ totalSleep + 1 = Timeout
    /\ Printing => Damage < MaxDamage
    /\ cuts' = cuts + 1
    /\ totalSleep' = totalSleep + 1
    /\ lineData' = << >>
    /\ pc' = "check"
    /\ UNCHANGED <<boardVars, token, history, lost, errors>>

-----------------------------------------------------------------------------
(* Mutant: the first character decides. *)
LooksLikeMarker_FirstOnly == lineData[1].kind = "star"

(* strcmp(serial_data, "*") == 0 *)
LooksLikeMarker == Len(lineData) = 1 /\ lineData[1].kind = "star"

DispatchMarker ==
    /\ pc = "dispatch"
    /\ LooksLikeMarker
    /\ delivered' = delivered + 1
    /\ IF lineData[1].field = 0
       THEN good' = good \cup {lineData[1].line} /\ UNCHANGED falseMarkers
       ELSE falseMarkers' = falseMarkers + 1 /\ UNCHANGED good
    /\ lineData' = << >>
    /\ pc' = "check"
    /\ UNCHANGED <<boardVars, totalSleep, token, overrun, damage>>

(* Mutant: the last token is not copied. *)
NewTokens_OneShort ==
    LET found == Tokens(lineData)
    IN  [c \in Fields |-> IF c < Len(found) THEN found[c] ELSE token[c]]

(* Each token is copied over what the line before left in its place; a     *)
(* place that gets none keeps that.                                        *)
NewTokens ==
    LET found == Tokens(lineData)
    IN  [c \in Fields |-> IF c <= Len(found) THEN found[c] ELSE token[c]]

TokensFit ==
    LET found == Tokens(lineData)
    IN  /\ Len(found) <= 3
        /\ \A n \in 1 .. Len(found) : Len(found[n]) < TokenSize

(* The line printed as k arrived: its three numbers are in their places.   *)
HoldsSample(tokens, k) == \A c \in Fields : tokens[c] = Number(k, c)

SplitSample(tokens) ==
    /\ token' = tokens
    /\ good' = good \cup {k \in 1 .. line : ~IsMarker(k) /\ HoldsSample(tokens, k)}
    /\ pc' = "check"
    /\ UNCHANGED overrun

(* Anything else is a sample: strtok splits it and atoi converts what is   *)
(* in the three places.                                                    *)
DispatchSample ==
    /\ pc = "dispatch"
    /\ ~LooksLikeMarker
    /\ delivered' = delivered + 1
    /\ lineData' = << >>
    /\ IF TokensFit
       THEN SplitSample(NewTokens)
       ELSE Overrun("data_sample_token") /\ UNCHANGED <<token, good>>
    /\ UNCHANGED <<boardVars, totalSleep, falseMarkers, damage>>

Undefined == pc = "undefined" /\ UNCHANGED vars

Read ==
    \/ CallRead \/ SkipLineEnd \/ ReadFirst \/ SkipNap
    \/ ReadValue \/ ReadError \/ ReadLineEnd \/ ValueNap \/ CutLine

Next == LoseCharacter \/ Read \/ DispatchMarker \/ DispatchSample \/ Undefined

Spec == Init /\ [][Next]_vars

-----------------------------------------------------------------------------
Characters ==
    {Digit(k, c, i) : k \in 1 .. MaxLines, c \in Fields, i \in 1 .. FieldWidth}
        \cup {Star(k, c) : k \in 1 .. MaxLines, c \in 0 .. 2}

TypeOK ==
    /\ line \in 1 .. MaxLines + 1
    /\ position \in 1 .. LongestText + 2
    /\ pc \in {"check", "skip", "value", "dispatch", "undefined"}
    /\ lineData \in Seq(Characters) /\ Len(lineData) < LineSize
    /\ totalSleep \in 0 .. Timeout
    /\ token \in [Fields -> Seq(Characters)]
    /\ \A c \in Fields : Len(token[c]) < TokenSize
    /\ good \subseteq 1 .. MaxLines
    /\ delivered \in Nat
    /\ falseMarkers \in Nat
    /\ overrun \in {"none", "line_data", "data_sample_token"}
    /\ lost \in Nat /\ cuts \in Nat /\ errors \in Nat
    /\ Damage <= MaxDamage + 1

Idle == pc \in {"check", "skip"} /\ position = 1

(* Each disturbance spoils at most one line: the line it hits.  A stale    *)
(* token never gets into a line that arrived whole, half a line never into *)
(* the next one.  So what Acquisition says of lost lines holds for lost    *)
(* characters, pauses and failing reads.                                   *)
DamageIsLocal ==
    Idle => Cardinality((1 .. line - 1) \ good) <= Damage

(* read_serial returns at most one line for each line printed, and fails   *)
(* to return one at most once for each lost character or pause: no noise   *)
(* makes process_data count more samples or markers than the board sent    *)
(* lines, and a failing read makes it count neither more nor fewer.        *)
LinesCounted == Idle => delivered \in line - 1 - (lost + cuts) .. line - 1

(* A start time is stamped for a line that was no marker only if a pause   *)
(* and a whole lost number, or more, came together in it: no single        *)
(* disturbance makes a block begin in the wrong place.                     *)
FalseMarkersAreRare == falseMarkers * (FieldWidth + 1) <= lost + cuts

(* line_data and data_sample_token are too small for lines that run        *)
(* together, and nothing checks them.  It takes a lost character, or as    *)
(* many failing reads as there is room left: pauses alone never overrun    *)
(* an array.                                                               *)
OverrunNeedsLoss ==
    /\ overrun = "line_data" => lost >= 2 \/ errors >= LineSize - LongestText
    /\ overrun = "data_sample_token" => lost >= 1 \/ errors >= TokenSize - FieldWidth

(* What the converter's 24 bits mean. *)
Signed(u) == IF u >= 8388608 THEN u - 16777216 ELSE u

(* The conversion of a line's numbers subtracts from 16777215: a negative  *)
(* reading comes out one too high, and of two readings only -1 and 0 are   *)
(* ever confused or out of order.                                          *)
ConversionKeepsOrder ==
    pc = "dispatch" /\ ~LooksLikeMarker =>
        \A u, v \in Readings :
            /\ Convert(u) - Signed(u) = (IF Signed(u) < 0 THEN 1 ELSE 0)
            /\ Signed(u) < Signed(v) =>
                  \/ Convert(u) < Convert(v)
                  \/ Signed(u) = -1 /\ Signed(v) = 0
=============================================================================
