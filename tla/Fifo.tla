-------------------------------- MODULE Fifo --------------------------------
(***************************************************************************)
(* What code/src/queue.c promises its callers: a first-in first-out queue  *)
(* between threads that insert and threads that take.  An insertion and a  *)
(* removal each take effect at one instant between call and return.        *)
(* SampleQueue implements this specification.                              *)
(***************************************************************************)
EXTENDS Sequences

CONSTANTS
    Producers,      \* threads that call insert_*
    Consumers,      \* threads that call get_*
    Values,         \* samples (or timestamps)
    NoValue         \* "nothing": no pending insert; get on an empty queue

CONSTANT Pending    \* the answer of a get that has not been decided yet

VARIABLES
    q,              \* the values in the queue, oldest first
    put,            \* put[p]: the value p is inserting, or NoValue
    got             \* got[c]: the answer of c's last get, or Pending

vars == <<q, put, got>>

Init ==
    /\ q = << >>
    /\ put = [p \in Producers |-> NoValue]
    /\ got = [c \in Consumers |-> NoValue]

CallPut(p, v) ==
    /\ put[p] = NoValue
    /\ put' = [put EXCEPT ![p] = v]
    /\ UNCHANGED <<q, got>>

Enqueue(p) ==
    /\ put[p] # NoValue
    /\ q' = Append(q, put[p])
    /\ put' = [put EXCEPT ![p] = NoValue]
    /\ UNCHANGED got

(* malloc failed: the value is not inserted and the caller gets -1. *)
Refuse(p) ==
    /\ put[p] # NoValue
    /\ put' = [put EXCEPT ![p] = NoValue]
    /\ UNCHANGED <<q, got>>

CallGet(c) ==
    /\ got[c] # Pending
    /\ got' = [got EXCEPT ![c] = Pending]
    /\ UNCHANGED <<q, put>>

Dequeue(c) ==
    /\ got[c] = Pending
    /\ q # << >>
    /\ got' = [got EXCEPT ![c] = Head(q)]
    /\ q' = Tail(q)
    /\ UNCHANGED put

AnswerEmpty(c) ==
    /\ got[c] = Pending
    /\ q = << >>
    /\ got' = [got EXCEPT ![c] = NoValue]
    /\ UNCHANGED <<q, put>>

Next ==
    \/ \E p \in Producers : Enqueue(p) \/ Refuse(p) \/ \E v \in Values : CallPut(p, v)
    \/ \E c \in Consumers : CallGet(c) \/ Dequeue(c) \/ AnswerEmpty(c)

Spec == Init /\ [][Next]_vars

(* Neither side ever comes to a standstill, and somebody never stops       *)
(* asking.  Which of several callers goes first is left open: a mutex      *)
(* promises no turn.                                                       *)
FairSpec ==
    /\ Spec
    /\ WF_vars(\E p \in Producers : Enqueue(p) \/ Refuse(p))
    /\ WF_vars(\E c \in Consumers : CallGet(c))
    /\ WF_vars(\E c \in Consumers : Dequeue(c) \/ AnswerEmpty(c))
=============================================================================
