---------------------------- MODULE SampleQueue ----------------------------
(***************************************************************************)
(* code/src/queue.c: the linked queues between the serial reader thread    *)
(* (producer) and process_data (consumer).  data_buffer carries samples,   *)
(* timestamp_buffer carries block start times; the two share one algorithm *)
(* (lines 51-114 and 167-218) and this module is both: Values are samples  *)
(* or timestamps, NoValue is the empty answer (-1 for samples, 0 for       *)
(* timestamps).                                                            *)
(*                                                                         *)
(* front_p points at a dummy node whose value was already taken; rear_p at *)
(* the last node.  Inserting takes rear_lock only, removing front_lock     *)
(* only, so the two ends meet, unlocked, in the next_p field of the dummy  *)
(* when the queue is empty.  Every access to shared memory is one step.    *)
(*                                                                         *)
(* Where the two files of functions differ this module has data_buffer's   *)
(* order: get_starttime clears the value before it moves front_p (lines    *)
(* 210, 212), both inside front_lock.  The branch for rear_p = NULL (lines *)
(* 65-69, 182-186) is not here: it needs a queue that main has already     *)
(* taken down.  The copies' own malloc calls (lines 61, 92) do not fail.   *)
(***************************************************************************)
EXTENDS Integers, Sequences, Functions

CONSTANTS
    Producers, Consumers,
    Values, NoValue,
    Nodes,          \* heap addresses malloc may return for a node
    Null,           \* the NULL pointer; also "nobody" for a lock
    Pending         \* see Fifo

ASSUME ThreadsAssumption ==
    /\ Producers \cap Consumers = {}
    /\ Null \notin Producers \cup Consumers

ASSUME HeapAssumption ==
    /\ Nodes # {}
    /\ Null \notin Nodes
    /\ NoValue \notin Values
    /\ Pending \notin Values \cup {NoValue}

Threads == Producers \cup Consumers

VARIABLES
    live,           \* nodes malloc returned and nobody freed
    next,           \* next_p of every node
    sample,         \* the value a node holds, NoValue once taken
    front, rear,    \* front_p, rear_p
    frontLock, rearLock,
    pc,             \* where each thread is
    arg,            \* arg[p]: the value p was asked to insert
    node,           \* data_buffer_node_temp of an insert
    temp,           \* data_buffer_node_temp of a get
    tempTemp,       \* data_buffer_node_temp_temp of a get
    result,         \* result[c]: what c's last get gave its caller
    chain           \* history: the nodes reachable from front, dummy first

heap == <<live, next, sample>>
ends == <<front, rear, chain>>
locks == <<frontLock, rearLock>>
insertVars == <<arg, node>>
getVars == <<temp, tempTemp, result>>
vars == <<heap, ends, locks, pc, insertVars, getVars>>

Goto(t, label) == pc' = [pc EXCEPT ![t] = label]

-----------------------------------------------------------------------------
(* create_*_buffer and initialize_*_buffer ran before either thread: the   *)
(* queue has its one dummy node.                                           *)
Init ==
    /\ \E dummy \in Nodes :
        /\ live = {dummy}
        /\ front = dummy
        /\ rear = dummy
        /\ chain = <<dummy>>
    /\ next = [n \in Nodes |-> Null]
    /\ sample = [n \in Nodes |-> NoValue]
    /\ frontLock = Null
    /\ rearLock = Null
    /\ pc = [t \in Threads |-> "idle"]
    /\ arg = [p \in Producers |-> NoValue]
    /\ node = [p \in Producers |-> Null]
    /\ temp = [c \in Consumers |-> Null]
    /\ tempTemp = [c \in Consumers |-> Null]
    /\ result = [c \in Consumers |-> NoValue]

-----------------------------------------------------------------------------
(* Inserting *)

CallInsert(p, v) ==
    /\ pc[p] = "idle"
    /\ arg' = [arg EXCEPT ![p] = v]
    /\ Goto(p, "malloc")
    /\ UNCHANGED <<heap, ends, locks, node, getVars>>

(* The node is private until it is linked: filling it is one step.  An     *)
(* address that was freed may come back.                                   *)
Malloc(p) ==
    /\ pc[p] = "malloc"
    /\ \E n \in Nodes \ live :
        /\ live' = live \cup {n}
        /\ sample' = [sample EXCEPT ![n] = arg[p]]
        /\ next' = [next EXCEPT ![n] = Null]
        /\ node' = [node EXCEPT ![p] = n]
    /\ Goto(p, "lockRear")
    /\ UNCHANGED <<ends, locks, arg, getVars>>

(* malloc returned NULL: return -1, the value is not inserted. *)
MallocFails(p) ==
    /\ pc[p] = "malloc"
    /\ Goto(p, "idle")
    /\ UNCHANGED <<heap, ends, locks, insertVars, getVars>>

(* Mutant: insert without taking rear_lock. *)
LockRear_NotExclusive(p) ==
    /\ pc[p] = "lockRear"
    /\ rearLock' = p
    /\ Goto(p, "link")
    /\ UNCHANGED <<heap, ends, frontLock, insertVars, getVars>>

LockRear(p) ==
    /\ pc[p] = "lockRear"
    /\ rearLock = Null
    /\ rearLock' = p
    /\ Goto(p, "link")
    /\ UNCHANGED <<heap, ends, frontLock, insertVars, getVars>>

(* rear_p->next_p = node: from here on a consumer can see the node. *)
Link(p) ==
    /\ pc[p] = "link"
    /\ rear # Null
    /\ next' = [next EXCEPT ![rear] = node[p]]
    /\ chain' = Append(chain, node[p])
    /\ Goto(p, "swing")
    /\ UNCHANGED <<live, sample, front, rear, locks, insertVars, getVars>>

Swing(p) ==
    /\ pc[p] = "swing"
    /\ rear' = node[p]
    /\ Goto(p, "unlockRear")
    /\ UNCHANGED <<heap, front, chain, locks, insertVars, getVars>>

(* Mutant: the return without unlocking that lines 65-69 have. *)
UnlockRear_KeepsLock(p) ==
    /\ pc[p] = "unlockRear"
    /\ Goto(p, "idle")
    /\ UNCHANGED <<heap, ends, locks, insertVars, getVars>>

UnlockRear(p) ==
    /\ pc[p] = "unlockRear"
    /\ rearLock' = Null
    /\ Goto(p, "idle")
    /\ UNCHANGED <<heap, ends, frontLock, insertVars, getVars>>

-----------------------------------------------------------------------------
(* Taking *)

LockFront(c) ==
    /\ pc[c] = "idle"
    /\ frontLock = Null
    /\ frontLock' = c
    /\ Goto(c, "read")
    /\ UNCHANGED <<heap, ends, rearLock, insertVars, getVars>>

ReadEmpty(c) ==
    /\ pc[c] = "read"
    /\ next[front] = Null
    /\ result' = [result EXCEPT ![c] = NoValue]
    /\ Goto(c, "unlockFront")
    /\ UNCHANGED <<heap, ends, locks, insertVars, temp, tempTemp>>

ReadFront(c) ==
    /\ pc[c] = "read"
    /\ next[front] # Null
    /\ temp' = [temp EXCEPT ![c] = front]
    /\ tempTemp' = [tempTemp EXCEPT ![c] = next[front]]
    /\ Goto(c, "copy")
    /\ UNCHANGED <<heap, ends, locks, insertVars, result>>

Copy(c) ==
    /\ pc[c] = "copy"
    /\ result' = [result EXCEPT ![c] = sample[tempTemp[c]]]
    /\ Goto(c, "advance")
    /\ UNCHANGED <<heap, ends, locks, insertVars, temp, tempTemp>>

Advance(c) ==
    /\ pc[c] = "advance"
    /\ front' = tempTemp[c]
    /\ chain' = Tail(chain)
    /\ Goto(c, "drop")
    /\ UNCHANGED <<heap, rear, locks, insertVars, getVars>>

(* The node becomes the dummy: its value is freed and cleared. *)
DropSample(c) ==
    /\ pc[c] = "drop"
    /\ sample' = [sample EXCEPT ![tempTemp[c]] = NoValue]
    /\ Goto(c, "free")
    /\ UNCHANGED <<live, next, ends, locks, insertVars, getVars>>

(* Mutant: the new dummy is freed instead of the old one. *)
FreeNode_NewDummy(c) ==
    /\ pc[c] = "free"
    /\ live' = live \ {tempTemp[c]}
    /\ Goto(c, "unlockFront")
    /\ UNCHANGED <<next, sample, ends, locks, insertVars, getVars>>

(* Mutant: line 109 forgotten. *)
FreeNode_Leaks(c) ==
    /\ pc[c] = "free"
    /\ Goto(c, "unlockFront")
    /\ UNCHANGED <<heap, ends, locks, insertVars, getVars>>

FreeNode(c) ==
    /\ pc[c] = "free"
    /\ live' = live \ {temp[c]}
    /\ Goto(c, "unlockFront")
    /\ UNCHANGED <<next, sample, ends, locks, insertVars, getVars>>

UnlockFront(c) ==
    /\ pc[c] = "unlockFront"
    /\ frontLock' = Null
    /\ temp' = [temp EXCEPT ![c] = Null]
    /\ tempTemp' = [tempTemp EXCEPT ![c] = Null]
    /\ Goto(c, "idle")
    /\ UNCHANGED <<heap, ends, rearLock, insertVars, result>>

-----------------------------------------------------------------------------
InsertStep(p) ==
    \/ Malloc(p) \/ MallocFails(p) \/ LockRear(p)
    \/ Link(p) \/ Swing(p) \/ UnlockRear(p)

GetStep(c) ==
    \/ LockFront(c) \/ ReadEmpty(c) \/ ReadFront(c) \/ Copy(c)
    \/ Advance(c) \/ DropSample(c) \/ FreeNode(c) \/ UnlockFront(c)

Next ==
    \/ \E p \in Producers : InsertStep(p) \/ \E v \in Values : CallInsert(p, v)
    \/ \E c \in Consumers : GetStep(c)

Spec == Init /\ [][Next]_vars

(* A thread that can take a step of a call eventually does, and the        *)
(* consumer polls for ever (process_data's loops); the board need not send.*)
FairSpec ==
    /\ Spec
    /\ \A p \in Producers : WF_vars(InsertStep(p))
    /\ \A c \in Consumers : WF_vars(GetStep(c))

-----------------------------------------------------------------------------
TypeOK ==
    /\ live \subseteq Nodes
    /\ next \in [Nodes -> Nodes \cup {Null}]
    /\ sample \in [Nodes -> Values \cup {NoValue}]
    /\ front \in Nodes
    /\ rear \in Nodes
    /\ frontLock \in Consumers \cup {Null}
    /\ rearLock \in Producers \cup {Null}
    /\ pc \in [Threads ->
                 {"idle", "malloc", "lockRear", "link", "swing", "unlockRear",
                  "read", "copy", "advance", "drop", "free", "unlockFront"}]
    /\ arg \in [Producers -> Values \cup {NoValue}]
    /\ node \in [Producers -> Nodes \cup {Null}]
    /\ temp \in [Consumers -> Nodes \cup {Null}]
    /\ tempTemp \in [Consumers -> Nodes \cup {Null}]
    /\ result \in [Consumers -> Values \cup {NoValue}]
    /\ chain \in Seq(Nodes)

(* No thread reads or writes a node, or frees it, after it was freed.  The *)
(* delicate case: between lines 71 and 72 rear_p may already dangle,       *)
(* because the consumer took the new node and freed the old last one.      *)
NoUseAfterFree ==
    /\ \A p \in Producers :
        /\ pc[p] = "link" => rear \in live
        /\ pc[p] \in {"lockRear", "link", "swing"} => node[p] \in live
    /\ \A c \in Consumers :
        /\ pc[c] = "read" => front \in live
        /\ pc[c] \in {"copy", "advance", "drop"} => tempTemp[c] \in live
        /\ pc[c] \in {"copy", "advance", "drop", "free"} => temp[c] \in live

(* rear_p names a freed node only while the producer that is replacing it  *)
(* holds rear_lock, between lines 71 and 72.                               *)
DanglingRearIsPrivate ==
    rear \notin live => \E p \in Producers : rearLock = p /\ pc[p] = "swing"

(* Every allocated node is in the queue, on its way in, or on its way out: *)
(* a get frees exactly one node for every node it removes (line 109).      *)
NoLeak ==
    live = Range(chain)
             \cup {node[p] : p \in {x \in Producers : pc[x] \in {"lockRear", "link"}}}
             \cup {temp[c] : c \in {x \in Consumers : pc[x] \in {"drop", "free"}}}

(* The queue of values as a caller sees it. *)
Contents == [i \in 1 .. Len(chain) - 1 |-> sample[chain[i + 1]]]

Queue == INSTANCE Fifo WITH
    q <- Contents,
    put <- [p \in Producers |->
              IF pc[p] \in {"malloc", "lockRear", "link"} THEN arg[p] ELSE NoValue],
    got <- [c \in Consumers |->
              IF pc[c] \in {"read", "copy", "advance"} THEN Pending ELSE result[c]]

(* queue.c is a linearizable FIFO queue: an insertion takes effect at      *)
(* line 71, a removal at line 106, an empty answer at line 84.             *)
ImplementsFifo == Queue!Spec

(* It is one that does not come to a standstill: however inserting threads *)
(* contend for rear_lock, some insertion goes on, and while somebody keeps *)
(* taking every inserted value is handed out (the abstract fairness).      *)
ImplementsFairFifo == Queue!FairSpec
=============================================================================
