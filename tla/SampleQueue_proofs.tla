------------------------- MODULE SampleQueue_proofs -------------------------
(***************************************************************************)
(* For every set of threads, values and heap addresses, queue.c never      *)
(* touches freed memory, leaks no node, and implements a FIFO queue.       *)
(***************************************************************************)
EXTENDS SampleQueue, TLAPS

InsertLabels == {"idle", "malloc", "lockRear", "link", "swing", "unlockRear"}
GetLabels == {"idle", "read", "copy", "advance", "drop", "free", "unlockFront"}

(* A lock is held exactly by the thread inside its critical section. *)
LocksOK ==
    /\ \A p \in Producers :
        /\ pc[p] \in InsertLabels
        /\ pc[p] \in {"link", "swing", "unlockRear"} <=> rearLock = p
    /\ \A c \in Consumers :
        /\ pc[c] \in GetLabels
        /\ pc[c] # "idle" <=> frontLock = c

(* The list: distinct allocated nodes, linked in order from front. *)
ChainOK ==
    /\ Len(chain) >= 1
    /\ chain[1] = front
    /\ \A i, j \in 1 .. Len(chain) : chain[i] = chain[j] => i = j
    /\ \A i \in 1 .. Len(chain) : chain[i] \in live
    /\ \A i \in 1 .. Len(chain) - 1 : next[chain[i]] = chain[i + 1]
    /\ next[chain[Len(chain)]] = Null
    /\ \A i \in 2 .. Len(chain) : sample[chain[i]] \in Values

(* rear is the last node, except while a producer is between Link and Swing. *)
RearOK ==
    /\ (\A p \in Producers : pc[p] # "swing") => rear = chain[Len(chain)]
    /\ \A p \in Producers : pc[p] = "swing" => node[p] = chain[Len(chain)]

OutsideChain(n) == \A i \in 1 .. Len(chain) : chain[i] # n

(* A node not linked yet belongs to its producer alone. *)
InsertOK ==
    /\ \A p \in Producers :
        /\ pc[p] = "malloc" => arg[p] \in Values
        /\ pc[p] \in {"lockRear", "link"} =>
            /\ node[p] \in live
            /\ OutsideChain(node[p])
            /\ next[node[p]] = Null
            /\ arg[p] \in Values
            /\ sample[node[p]] = arg[p]
    /\ \A p, r \in Producers :
        pc[p] \in {"lockRear", "link"} /\ pc[r] \in {"lockRear", "link"} /\ node[p] = node[r]
            => p = r

(* A node being removed belongs to its consumer alone. *)
GetOK ==
    /\ \A c \in Consumers :
        /\ pc[c] \in {"copy", "advance"} =>
            temp[c] = front /\ Len(chain) >= 2 /\ tempTemp[c] = chain[2]
        /\ pc[c] = "advance" => result[c] = sample[tempTemp[c]]
        /\ pc[c] = "drop" => tempTemp[c] = front
        /\ pc[c] \in {"drop", "free"} => temp[c] \in live /\ OutsideChain(temp[c])
    /\ \A c \in Consumers, p \in Producers :
        pc[c] \in {"drop", "free"} /\ pc[p] \in {"lockRear", "link"} => temp[c] # node[p]

(* Every allocated node is accounted for. *)
Owned ==
    \A n \in live :
        \/ \E i \in 1 .. Len(chain) : n = chain[i]
        \/ \E p \in Producers : pc[p] \in {"lockRear", "link"} /\ n = node[p]
        \/ \E c \in Consumers : pc[c] \in {"drop", "free"} /\ n = temp[c]

IInv == TypeOK /\ LocksOK /\ ChainOK /\ RearOK /\ InsertOK /\ GetOK /\ Owned

-----------------------------------------------------------------------------
(* What Append and Tail do to the positions of a sequence. *)
LEMMA AppendFacts ==
    ASSUME NEW S, NEW s \in Seq(S), NEW x \in S
    PROVE  /\ Append(s, x) \in Seq(S)
           /\ Len(Append(s, x)) = Len(s) + 1
           /\ \A i \in 1 .. Len(s) : Append(s, x)[i] = s[i]
           /\ Append(s, x)[Len(s) + 1] = x
  OBVIOUS

(* Tail drops the first position and shifts the others down by one. *)
LEMMA TailFacts ==
    ASSUME NEW S, NEW s \in Seq(S), Len(s) >= 1
    PROVE  /\ Tail(s) \in Seq(S)
           /\ Len(Tail(s)) = Len(s) - 1
           /\ \A i \in 1 .. Len(s) - 1 : Tail(s)[i] = s[i + 1]
  OBVIOUS

(* A sequence is a function on its positions. *)
LEMMA SeqIsFunction ==
    ASSUME NEW S, NEW s \in Seq(S)
    PROVE  s \in [1 .. Len(s) -> S]
  OBVIOUS

(* The program starts with one dummy node and idle threads. *)
LEMMA InitIInv == Init => IInv
<1> SUFFICES ASSUME Init PROVE IInv
  OBVIOUS
<1> USE HeapAssumption, ThreadsAssumption DEF Init
<1>1. PICK dummy \in Nodes : live = {dummy} /\ front = dummy /\ rear = dummy /\ chain = <<dummy>>
  OBVIOUS
<1>2. TypeOK
  BY <1>1 DEF TypeOK, Threads
<1>3. LocksOK
  BY DEF LocksOK, InsertLabels, GetLabels, Threads
<1>4. ChainOK
  BY <1>1 DEF ChainOK
<1>5. RearOK /\ InsertOK /\ GetOK
  BY <1>1 DEF RearOK, InsertOK, GetOK, Threads
<1>6. Owned
  BY <1>1 DEF Owned
<1> QED
  BY <1>2, <1>3, <1>4, <1>5, <1>6 DEF IInv

(* Calling insert touches the caller's own variables only. *)
LEMMA CallInsertIInv ==
    ASSUME IInv, NEW p \in Producers, NEW v \in Values, CallInsert(p, v)
    PROVE  IInv'
<1> USE ThreadsAssumption DEF IInv, CallInsert, Goto, heap, ends, locks, getVars, Threads
<1>1. TypeOK'
  BY DEF TypeOK
<1>2. LocksOK'
  BY DEF TypeOK, LocksOK, InsertLabels, GetLabels
<1>3. ChainOK' /\ RearOK'
  BY DEF TypeOK, ChainOK, RearOK
<1>4. InsertOK'
  BY DEF TypeOK, InsertOK, OutsideChain
<1>5. GetOK' /\ Owned'
  BY DEF TypeOK, GetOK, Owned, OutsideChain
<1> QED
  BY <1>1, <1>2, <1>3, <1>4, <1>5

(* malloc gives the producer a node nobody else has. *)
LEMMA MallocIInv ==
    ASSUME IInv, NEW p \in Producers, Malloc(p)
    PROVE  IInv'
<1> USE ThreadsAssumption, HeapAssumption
    DEF IInv, Malloc, Goto, ends, locks, getVars, Threads
<1>1. PICK n \in Nodes \ live :
        /\ live' = live \cup {n}
        /\ sample' = [sample EXCEPT ![n] = arg[p]]
        /\ next' = [next EXCEPT ![n] = Null]
        /\ node' = [node EXCEPT ![p] = n]
  OBVIOUS
<1>2. TypeOK'
  BY <1>1 DEF TypeOK, InsertOK
<1>3. LocksOK'
  BY <1>1 DEF TypeOK, LocksOK, InsertLabels, GetLabels
<1>4. ChainOK'
  <2>1. \A i \in 1 .. Len(chain) : chain[i] \in Nodes /\ chain[i] # n
    BY <1>1 DEF TypeOK, ChainOK
  <2> QED
    BY <1>1, <2>1 DEF TypeOK, ChainOK
<1>5. RearOK'
  BY <1>1 DEF TypeOK, RearOK
<1>6. InsertOK'
  BY <1>1 DEF TypeOK, InsertOK, ChainOK, OutsideChain
<1>7. GetOK'
  BY <1>1 DEF TypeOK, GetOK, ChainOK, OutsideChain
<1>8. Owned'
  BY <1>1 DEF TypeOK, Owned, LocksOK, InsertLabels, GetLabels
<1> QED
  BY <1>2, <1>3, <1>4, <1>5, <1>6, <1>7, <1>8

(* A failed malloc changes nothing but the caller's position. *)
LEMMA MallocFailsIInv ==
    ASSUME IInv, NEW p \in Producers, MallocFails(p)
    PROVE  IInv'
<1> USE ThreadsAssumption
    DEF IInv, MallocFails, Goto, heap, ends, locks, insertVars, getVars, Threads
<1>1. TypeOK' /\ LocksOK'
  BY DEF TypeOK, LocksOK, InsertLabels, GetLabels
<1>2. ChainOK' /\ RearOK'
  BY DEF TypeOK, ChainOK, RearOK
<1>3. InsertOK' /\ GetOK' /\ Owned'
  BY DEF TypeOK, InsertOK, GetOK, Owned, OutsideChain
<1> QED
  BY <1>1, <1>2, <1>3

(* Entering the rear critical section. *)
LEMMA LockRearIInv ==
    ASSUME IInv, NEW p \in Producers, LockRear(p)
    PROVE  IInv'
<1> USE ThreadsAssumption
    DEF IInv, LockRear, Goto, heap, ends, insertVars, getVars, Threads
<1>1. TypeOK' /\ LocksOK'
  BY DEF TypeOK, LocksOK, InsertLabels, GetLabels
<1>2. ChainOK' /\ RearOK'
  BY DEF TypeOK, ChainOK, RearOK
<1>3. InsertOK' /\ GetOK' /\ Owned'
  BY DEF TypeOK, InsertOK, GetOK, Owned, OutsideChain
<1> QED
  BY <1>1, <1>2, <1>3

(* Linking appends the producer's node to the list. *)
LEMMA LinkIInv ==
    ASSUME IInv, NEW p \in Producers, Link(p)
    PROVE  IInv'
<1> USE ThreadsAssumption, HeapAssumption
    DEF IInv, Link, Goto, locks, insertVars, getVars, Threads
<1>1. /\ chain' = Append(chain, node[p])
      /\ chain \in Seq(Nodes)
      /\ node[p] \in Nodes
  BY DEF TypeOK, InsertOK
<1>2. /\ chain' \in Seq(Nodes)
      /\ Len(chain') = Len(chain) + 1
      /\ \A i \in 1 .. Len(chain) : chain'[i] = chain[i]
      /\ chain'[Len(chain) + 1] = node[p]
  BY <1>1, AppendFacts
<1>3. /\ Len(chain) \in Nat /\ Len(chain) >= 1
      /\ Len(chain') = Len(chain) + 1
  BY <1>2 DEF TypeOK, ChainOK
<1>4. rear = chain[Len(chain)]
  BY DEF LocksOK, RearOK, TypeOK, InsertLabels
<1>5. OutsideChain(node[p]) /\ node[p] \in live /\ rear # node[p]
  BY <1>3, <1>4 DEF InsertOK, OutsideChain
<1>6. TypeOK'
  BY <1>1, <1>2 DEF TypeOK
<1>7. LocksOK'
  BY DEF TypeOK, LocksOK, InsertLabels, GetLabels
<1>8. ChainOK'
  <2>1. Len(chain') >= 1 /\ chain'[1] = front'
    BY <1>2, <1>3 DEF ChainOK
  <2>2. \A i, j \in 1 .. Len(chain') : chain'[i] = chain'[j] => i = j
    BY <1>2, <1>3, <1>5 DEF ChainOK, OutsideChain
  <2>3. \A i \in 1 .. Len(chain') : chain'[i] \in live'
    BY <1>2, <1>3, <1>5 DEF ChainOK
  <2>4. \A i \in 1 .. Len(chain') - 1 : next'[chain'[i]] = chain'[i + 1]
    <3> SUFFICES ASSUME NEW i \in 1 .. Len(chain)
                 PROVE  next'[chain'[i]] = chain'[i + 1]
      BY <1>3
    <3>1. CASE i = Len(chain)
      BY <3>1, <1>2, <1>3, <1>4 DEF TypeOK
    <3>2. CASE i # Len(chain)
      <4>1. i \in 1 .. Len(chain) - 1 /\ i + 1 \in 1 .. Len(chain)
        BY <3>2, <1>3
      <4>2. chain[i] # rear
        BY <3>2, <1>3, <1>4 DEF ChainOK
      <4> QED
        BY <4>1, <4>2, <1>2 DEF ChainOK, TypeOK
    <3> QED
      BY <3>1, <3>2
  <2>5. next'[chain'[Len(chain')]] = Null
    BY <1>2, <1>3, <1>5 DEF InsertOK, TypeOK
  <2>6. \A i \in 2 .. Len(chain') : sample'[chain'[i]] \in Values
    BY <1>2, <1>3 DEF ChainOK, InsertOK
  <2> QED
    BY <2>1, <2>2, <2>3, <2>4, <2>5, <2>6 DEF ChainOK
<1>9. RearOK'
  BY <1>2, <1>3 DEF RearOK, LocksOK, TypeOK, InsertLabels
<1>10. InsertOK'
  <2>1. \A r \in Producers : pc'[r] \in {"malloc", "lockRear", "link"} => r # p /\ pc'[r] = pc[r]
    BY DEF TypeOK
  <2>2. \A r \in Producers : pc'[r] \in {"lockRear", "link"} => node[r] # node[p] /\ node[r] # rear
    BY <2>1, <1>3, <1>4 DEF InsertOK, OutsideChain
  <2>3. \A r \in Producers : pc'[r] \in {"lockRear", "link"} => OutsideChain(node[r])'
    BY <2>1, <2>2, <1>2, <1>3 DEF InsertOK, OutsideChain
  <2> QED
    BY <2>1, <2>2, <2>3 DEF InsertOK, TypeOK
<1>11. GetOK'
  <2>1. \A c \in Consumers : pc'[c] = pc[c]
    BY DEF TypeOK
  <2>2. \A c \in Consumers : pc[c] \in {"copy", "advance"} => chain'[2] = chain[2] /\ Len(chain') >= 2
    BY <1>2, <1>3 DEF GetOK
  <2>3. \A c \in Consumers : pc[c] \in {"drop", "free"} => OutsideChain(temp[c])'
    BY <1>2, <1>3 DEF GetOK, OutsideChain
  <2>4. \A c \in Consumers, r \in Producers :
           pc[c] \in {"drop", "free"} /\ pc'[r] \in {"lockRear", "link"} => temp[c] # node[r]
    BY DEF GetOK, TypeOK
  <2> QED
    BY <2>1, <2>2, <2>3, <2>4 DEF GetOK
<1>12. Owned'
  <2> SUFFICES ASSUME NEW n \in live
               PROVE  \/ \E i \in 1 .. Len(chain') : n = chain'[i]
                      \/ \E r \in Producers : pc'[r] \in {"lockRear", "link"} /\ n = node[r]
                      \/ \E c \in Consumers : pc'[c] \in {"drop", "free"} /\ n = temp[c]
    BY DEF Owned
  <2>1. CASE \E i \in 1 .. Len(chain) : n = chain[i]
    BY <2>1, <1>2, <1>3
  <2>2. CASE n = node[p]
    BY <2>2, <1>2, <1>3
  <2>3. CASE \E r \in Producers : r # p /\ pc[r] \in {"lockRear", "link"} /\ n = node[r]
    BY <2>3 DEF TypeOK
  <2>4. CASE \E c \in Consumers : pc[c] \in {"drop", "free"} /\ n = temp[c]
    BY <2>4 DEF TypeOK
  <2> QED
    BY <2>1, <2>2, <2>3, <2>4 DEF Owned
<1> QED
  BY <1>6, <1>7, <1>8, <1>9, <1>10, <1>11, <1>12

(* Swinging makes rear the last node again. *)
LEMMA SwingIInv ==
    ASSUME IInv, NEW p \in Producers, Swing(p)
    PROVE  IInv'
<1> USE ThreadsAssumption
    DEF IInv, Swing, Goto, heap, locks, insertVars, getVars, Threads
<1>1. node[p] = chain[Len(chain)] /\ node[p] \in Nodes
  BY DEF RearOK, ChainOK, TypeOK
<1>2. TypeOK' /\ LocksOK'
  BY <1>1 DEF TypeOK, LocksOK, InsertLabels, GetLabels
<1>3. ChainOK' /\ RearOK'
  BY <1>1 DEF TypeOK, ChainOK, RearOK, LocksOK
<1>4. InsertOK' /\ GetOK' /\ Owned'
  BY DEF TypeOK, InsertOK, GetOK, Owned, OutsideChain
<1> QED
  BY <1>2, <1>3, <1>4

(* Leaving the rear critical section. *)
LEMMA UnlockRearIInv ==
    ASSUME IInv, NEW p \in Producers, UnlockRear(p)
    PROVE  IInv'
<1> USE ThreadsAssumption
    DEF IInv, UnlockRear, Goto, heap, ends, insertVars, getVars, Threads
<1>1. TypeOK' /\ LocksOK'
  BY DEF TypeOK, LocksOK, InsertLabels, GetLabels
<1>2. ChainOK' /\ RearOK'
  BY DEF TypeOK, ChainOK, RearOK
<1>3. InsertOK' /\ GetOK' /\ Owned'
  BY DEF TypeOK, InsertOK, GetOK, Owned, OutsideChain
<1> QED
  BY <1>1, <1>2, <1>3

(* Entering the front critical section. *)
LEMMA LockFrontIInv ==
    ASSUME IInv, NEW c \in Consumers, LockFront(c)
    PROVE  IInv'
<1> USE ThreadsAssumption
    DEF IInv, LockFront, Goto, heap, ends, insertVars, getVars, Threads
<1>1. TypeOK' /\ LocksOK'
  BY DEF TypeOK, LocksOK, ChainOK, GetOK, InsertLabels, GetLabels
<1>2. ChainOK' /\ RearOK'
  BY DEF TypeOK, ChainOK, RearOK, LocksOK, GetLabels
<1>3. InsertOK' /\ GetOK' /\ Owned'
  BY DEF TypeOK, InsertOK, GetOK, Owned, OutsideChain, ChainOK
<1> QED
  BY <1>1, <1>2, <1>3

(* An empty queue is left alone. *)
LEMMA ReadEmptyIInv ==
    ASSUME IInv, NEW c \in Consumers, ReadEmpty(c)
    PROVE  IInv'
<1> USE ThreadsAssumption
    DEF IInv, ReadEmpty, Goto, heap, ends, locks, insertVars, Threads
<1>1. TypeOK' /\ LocksOK'
  BY DEF TypeOK, LocksOK, ChainOK, GetOK, InsertLabels, GetLabels
<1>2. ChainOK' /\ RearOK'
  BY DEF TypeOK, ChainOK, RearOK, LocksOK, GetLabels
<1>3. InsertOK' /\ GetOK' /\ Owned'
  BY DEF TypeOK, InsertOK, GetOK, Owned, OutsideChain, ChainOK
<1> QED
  BY <1>1, <1>2, <1>3

(* A next_p that is not NULL is the second node of the list. *)
LEMMA ReadFrontIInv ==
    ASSUME IInv, NEW c \in Consumers, ReadFront(c)
    PROVE  IInv'
<1> USE ThreadsAssumption
    DEF IInv, ReadFront, Goto, heap, ends, locks, insertVars, Threads
<1>1. Len(chain) >= 2 /\ next[front] = chain[2] /\ next[front] \in Nodes
  BY DEF TypeOK, ChainOK
<1>2. TypeOK' /\ LocksOK'
  BY <1>1 DEF TypeOK, LocksOK, InsertLabels, GetLabels
<1>3. ChainOK' /\ RearOK'
  BY DEF TypeOK, ChainOK, RearOK
<1>4. InsertOK' /\ Owned'
  BY DEF TypeOK, InsertOK, Owned, OutsideChain
<1>5. GetOK'
  BY <1>1 DEF TypeOK, GetOK, OutsideChain
<1> QED
  BY <1>2, <1>3, <1>4, <1>5

(* The answer is the value of the second node. *)
LEMMA CopyIInv ==
    ASSUME IInv, NEW c \in Consumers, Copy(c)
    PROVE  IInv'
<1> USE ThreadsAssumption
    DEF IInv, Copy, Goto, heap, ends, locks, insertVars, Threads
<1>1. sample[tempTemp[c]] \in Values
  BY DEF GetOK, ChainOK, TypeOK
<1>2. TypeOK' /\ LocksOK'
  BY <1>1 DEF TypeOK, LocksOK, InsertLabels, GetLabels
<1>3. ChainOK' /\ RearOK'
  BY DEF TypeOK, ChainOK, RearOK
<1>4. InsertOK' /\ Owned'
  BY DEF TypeOK, InsertOK, Owned, OutsideChain
<1>5. GetOK'
  BY <1>1 DEF TypeOK, GetOK, OutsideChain
<1> QED
  BY <1>2, <1>3, <1>4, <1>5

(* Advancing removes the old dummy from the list; its value stays behind.  *)
LEMMA AdvanceIInv ==
    ASSUME IInv, NEW c \in Consumers, Advance(c)
    PROVE  IInv'
<1> USE ThreadsAssumption
    DEF IInv, Advance, Goto, heap, locks, insertVars, getVars, Threads
<1>1. /\ chain \in Seq(Nodes) /\ Len(chain) \in Nat /\ Len(chain) >= 2
      /\ temp[c] = chain[1] /\ tempTemp[c] = chain[2] /\ chain[1] = front
      /\ chain[2] \in Nodes
  BY DEF TypeOK, GetOK, ChainOK
<1>2. /\ chain' \in Seq(Nodes)
      /\ Len(chain') = Len(chain) - 1
      /\ \A i \in 1 .. Len(chain) - 1 : chain'[i] = chain[i + 1]
  BY <1>1, TailFacts
<1>3. TypeOK' /\ LocksOK'
  BY <1>1, <1>2 DEF TypeOK, LocksOK, InsertLabels, GetLabels
<1>4. ChainOK'
  <2>1. Len(chain') >= 1 /\ chain'[1] = front'
    BY <1>1, <1>2
  <2>2. \A i, j \in 1 .. Len(chain') : chain'[i] = chain'[j] => i = j
    <3> SUFFICES ASSUME NEW i \in 1 .. Len(chain) - 1, NEW j \in 1 .. Len(chain) - 1,
                        chain[i + 1] = chain[j + 1]
                 PROVE  i = j
      BY <1>1, <1>2
    <3>1. i + 1 \in 1 .. Len(chain) /\ j + 1 \in 1 .. Len(chain)
      BY <1>1
    <3> QED
      BY <3>1 DEF ChainOK
  <2>3. \A i \in 1 .. Len(chain') : chain'[i] \in live'
    BY <1>1, <1>2 DEF ChainOK
  <2>4. \A i \in 1 .. Len(chain') - 1 : next'[chain'[i]] = chain'[i + 1]
    BY <1>1, <1>2 DEF ChainOK
  <2>5. next'[chain'[Len(chain')]] = Null
    BY <1>1, <1>2 DEF ChainOK
  <2>6. \A i \in 2 .. Len(chain') : sample'[chain'[i]] \in Values
    BY <1>1, <1>2 DEF ChainOK
  <2> QED
    BY <2>1, <2>2, <2>3, <2>4, <2>5, <2>6 DEF ChainOK
<1>5. chain'[Len(chain')] = chain[Len(chain)]
  BY <1>1, <1>2
<1>6. RearOK'
  BY <1>5 DEF RearOK, LocksOK, TypeOK
<1>7. \A n : OutsideChain(n) => OutsideChain(n)'
  BY <1>1, <1>2 DEF OutsideChain
<1>8. InsertOK'
  BY <1>7 DEF InsertOK, TypeOK
<1>9. GetOK'
  <2>1. OutsideChain(temp[c])'
    BY <1>1, <1>2 DEF OutsideChain, ChainOK
  <2>2. \A d \in Consumers : d # c => pc'[d] = "idle"
    BY DEF LocksOK, TypeOK, GetLabels
  <2>3. \A p \in Producers : pc[p] \in {"lockRear", "link"} => temp[c] # node[p]
    BY <1>1 DEF InsertOK, OutsideChain
  <2>4. temp[c] \in live
    BY <1>1 DEF ChainOK
  <2> QED
    BY <1>1, <2>1, <2>2, <2>3, <2>4 DEF GetOK, TypeOK
<1>10. Owned'
  <2> SUFFICES ASSUME NEW n \in live
               PROVE  \/ \E i \in 1 .. Len(chain') : n = chain'[i]
                      \/ \E r \in Producers : pc'[r] \in {"lockRear", "link"} /\ n = node[r]
                      \/ \E d \in Consumers : pc'[d] \in {"drop", "free"} /\ n = temp[d]
    BY DEF Owned
  <2>1. ASSUME NEW i \in 1 .. Len(chain), n = chain[i]
        PROVE  n = temp[c] \/ \E j \in 1 .. Len(chain') : n = chain'[j]
    <3>1. CASE i = 1
      BY <2>1, <3>1, <1>1
    <3>2. CASE i # 1
      <4>1. i - 1 \in 1 .. Len(chain') /\ chain'[i - 1] = chain[i]
        BY <3>2, <1>1, <1>2
      <4> QED
        BY <4>1, <2>1
    <3> QED
      BY <3>1, <3>2
  <2>2. CASE \E r \in Producers : pc[r] \in {"lockRear", "link"} /\ n = node[r]
    BY <2>2 DEF TypeOK
  <2>3. CASE \E d \in Consumers : pc[d] \in {"drop", "free"} /\ n = temp[d]
    BY <2>3 DEF TypeOK
  <2> QED
    BY <2>1, <2>2, <2>3 DEF Owned, TypeOK
<1> QED
  BY <1>3, <1>4, <1>6, <1>8, <1>9, <1>10

(* Only the dummy loses its value. *)
LEMMA DropSampleIInv ==
    ASSUME IInv, NEW c \in Consumers, DropSample(c)
    PROVE  IInv'
<1> USE ThreadsAssumption
    DEF IInv, DropSample, Goto, ends, locks, insertVars, getVars, Threads
<1>1. tempTemp[c] = chain[1] /\ chain[1] \in Nodes
  BY DEF GetOK, ChainOK, TypeOK
<1>2. \A i \in 2 .. Len(chain) : chain[i] # tempTemp[c]
  BY <1>1 DEF ChainOK, TypeOK
<1>3. TypeOK' /\ LocksOK'
  BY DEF TypeOK, LocksOK, InsertLabels, GetLabels
<1>4. ChainOK' /\ RearOK'
  BY <1>2 DEF TypeOK, ChainOK, RearOK
<1>5. InsertOK'
  BY <1>1 DEF TypeOK, InsertOK, OutsideChain, ChainOK
<1>6. GetOK'
  BY DEF TypeOK, GetOK, OutsideChain, LocksOK, GetLabels
<1>7. Owned'
  BY DEF TypeOK, Owned
<1> QED
  BY <1>3, <1>4, <1>5, <1>6, <1>7

(* The freed node is outside the list and nobody else's. *)
LEMMA FreeNodeIInv ==
    ASSUME IInv, NEW c \in Consumers, FreeNode(c)
    PROVE  IInv'
<1> USE ThreadsAssumption
    DEF IInv, FreeNode, Goto, ends, locks, insertVars, getVars, Threads
<1>1. \A d \in Consumers : d # c => pc[d] = "idle"
  BY DEF LocksOK, GetLabels
<1>2. TypeOK' /\ LocksOK'
  BY DEF TypeOK, LocksOK, InsertLabels, GetLabels
<1>3. ChainOK' /\ RearOK'
  BY DEF TypeOK, ChainOK, RearOK, GetOK, OutsideChain
<1>4. InsertOK'
  BY DEF TypeOK, InsertOK, GetOK, OutsideChain
<1>5. GetOK'
  BY <1>1 DEF TypeOK, GetOK, OutsideChain
<1>6. Owned'
  BY <1>1 DEF TypeOK, Owned
<1> QED
  BY <1>2, <1>3, <1>4, <1>5, <1>6

(* Leaving the front critical section. *)
LEMMA UnlockFrontIInv ==
    ASSUME IInv, NEW c \in Consumers, UnlockFront(c)
    PROVE  IInv'
<1> USE ThreadsAssumption
    DEF IInv, UnlockFront, Goto, heap, ends, insertVars, Threads
<1>1. TypeOK' /\ LocksOK'
  BY DEF TypeOK, LocksOK, ChainOK, GetOK, InsertLabels, GetLabels
<1>2. ChainOK' /\ RearOK'
  BY DEF TypeOK, ChainOK, RearOK, LocksOK, GetLabels
<1>3. InsertOK' /\ GetOK' /\ Owned'
  BY DEF TypeOK, InsertOK, GetOK, Owned, OutsideChain, ChainOK
<1> QED
  BY <1>1, <1>2, <1>3

-----------------------------------------------------------------------------
(* No step leaves the invariant. *)
LEMMA StepIInv == IInv /\ [Next]_vars => IInv'
<1> SUFFICES ASSUME IInv, [Next]_vars PROVE IInv'
  OBVIOUS
<1>1. CASE UNCHANGED vars
  BY <1>1 DEF vars, heap, ends, locks, insertVars, getVars, IInv, TypeOK, LocksOK, ChainOK,
              RearOK, InsertOK, GetOK, Owned, OutsideChain, InsertLabels, GetLabels
<1>2. ASSUME NEW p \in Producers, InsertStep(p) PROVE IInv'
  BY <1>2, MallocIInv, MallocFailsIInv, LockRearIInv, LinkIInv, SwingIInv, UnlockRearIInv
     DEF InsertStep
<1>3. ASSUME NEW p \in Producers, NEW v \in Values, CallInsert(p, v) PROVE IInv'
  BY <1>3, CallInsertIInv
<1>4. ASSUME NEW c \in Consumers, GetStep(c) PROVE IInv'
  BY <1>4, LockFrontIInv, ReadEmptyIInv, ReadFrontIInv, CopyIInv, AdvanceIInv,
     DropSampleIInv, FreeNodeIInv, UnlockFrontIInv DEF GetStep
<1> QED
  BY <1>1, <1>2, <1>3, <1>4 DEF Next

(* The inductive invariant holds in every reachable state of queue.c: the  *)
(* chain from front_p is intact, and each thread owns what its pc says.    *)
THEOREM Invariance == Spec => []IInv
<1> QED
  BY InitIInv, StepIInv, PTL DEF Spec

(* Every variable keeps its type (the program's pointers are NULL or nodes). *)
THEOREM TypeCorrect == Spec => []TypeOK
<1>1. IInv => TypeOK
  BY DEF IInv
<1> QED
  BY <1>1, Invariance, PTL

(* queue.c never reads, writes or frees a node after freeing it, whatever  *)
(* the interleaving and however malloc reuses addresses.                   *)
THEOREM MemorySafe == Spec => []NoUseAfterFree
<1>1. IInv => NoUseAfterFree
  <2> SUFFICES ASSUME IInv PROVE NoUseAfterFree
    OBVIOUS
  <2>1. ASSUME NEW p \in Producers
        PROVE  /\ pc[p] = "link" => rear \in live
               /\ pc[p] \in {"lockRear", "link", "swing"} => node[p] \in live
    BY DEF IInv, TypeOK, LocksOK, ChainOK, RearOK, InsertOK, InsertLabels
  <2>2. ASSUME NEW c \in Consumers
        PROVE  /\ pc[c] = "read" => front \in live
               /\ pc[c] \in {"copy", "advance", "drop"} => tempTemp[c] \in live
               /\ pc[c] \in {"copy", "advance", "drop", "free"} => temp[c] \in live
    BY DEF IInv, TypeOK, LocksOK, ChainOK, GetOK
  <2> QED
    BY <2>1, <2>2 DEF NoUseAfterFree
<1> QED
  BY <1>1, Invariance, PTL

(* rear_p dangles only inside the rear critical section, between lines 71  *)
(* and 72 of queue.c.                                                      *)
THEOREM RearSafe == Spec => []DanglingRearIsPrivate
<1>1. IInv => DanglingRearIsPrivate
  BY DEF IInv, DanglingRearIsPrivate, LocksOK, RearOK, ChainOK, TypeOK, InsertLabels
<1> QED
  BY <1>1, Invariance, PTL

(* No node is ever lost: what malloc returned is in the queue or in the    *)
(* hands of the one thread that is adding or removing it.                  *)
THEOREM LeakFree == Spec => []NoLeak
<1>1. IInv => NoLeak
  <2> SUFFICES ASSUME IInv PROVE NoLeak
    OBVIOUS
  <2>1. Range(chain) = {chain[i] : i \in 1 .. Len(chain)}
    BY DEF IInv, TypeOK, Range
  <2>2. Range(chain) \subseteq live
    BY <2>1 DEF IInv, ChainOK
  <2>3. \A p \in Producers : pc[p] \in {"lockRear", "link"} => node[p] \in live
    BY DEF IInv, InsertOK
  <2>4. \A c \in Consumers : pc[c] \in {"drop", "free"} => temp[c] \in live
    BY DEF IInv, GetOK
  <2>5. \A n \in live :
           \/ n \in Range(chain)
           \/ \E p \in Producers : pc[p] \in {"lockRear", "link"} /\ n = node[p]
           \/ \E c \in Consumers : pc[c] \in {"drop", "free"} /\ n = temp[c]
    BY <2>1 DEF IInv, Owned
  <2> QED
    BY <2>2, <2>3, <2>4, <2>5 DEF NoLeak
<1> QED
  BY <1>1, Invariance, PTL

-----------------------------------------------------------------------------
(* queue.c implements Fifo: the barred variables of the refinement. *)
PutBar == [p \in Producers |->
             IF pc[p] \in {"malloc", "lockRear", "link"} THEN arg[p] ELSE NoValue]

GotBar == [c \in Consumers |->
             IF pc[c] \in {"read", "copy", "advance"} THEN Pending ELSE result[c]]

(* The contents are a sequence of values. *)
LEMMA ContentsType ==
    ASSUME IInv
    PROVE  /\ Contents \in Seq(Values)
           /\ Len(Contents) = Len(chain) - 1
           /\ \A i \in 1 .. Len(chain) - 1 : Contents[i] = sample[chain[i + 1]]
<1>1. Len(chain) \in Nat /\ Len(chain) >= 1
  BY DEF IInv, TypeOK, ChainOK
<1>2. \A i \in 1 .. Len(chain) - 1 : sample[chain[i + 1]] \in Values
  BY <1>1 DEF IInv, ChainOK
<1>3. Len(chain) - 1 \in Nat
  BY <1>1
<1>4. Contents \in [1 .. Len(chain) - 1 -> Values]
  BY <1>2 DEF Contents
<1>5. Contents \in Seq(Values)
  BY <1>3, <1>4
<1>6. Len(Contents) = Len(chain) - 1
  BY <1>3, <1>4, <1>5
<1> QED
  BY <1>5, <1>6 DEF Contents

(* A step that keeps the list and the values in it keeps the contents. *)
LEMMA ContentsKept ==
    ASSUME IInv, chain' = chain,
           \A i \in 2 .. Len(chain) : sample'[chain[i]] = sample[chain[i]]
    PROVE  Contents' = Contents
<1>1. Len(chain) \in Nat /\ Len(chain) >= 1
  BY DEF IInv, TypeOK, ChainOK
<1>2. \A i \in 1 .. Len(chain) - 1 : sample'[chain[i + 1]] = sample[chain[i + 1]]
  BY <1>1
<1> QED
  BY <1>2 DEF Contents

(* The queue with one dummy node is the empty abstract queue. *)
LEMMA InitRefines == Init => Queue!Init
<1> SUFFICES ASSUME Init PROVE Queue!Init
  OBVIOUS
<1>1. Len(chain) = 1
  BY DEF Init
<1>2. Contents = << >>
  BY <1>1 DEF Contents
<1>3. PutBar = [p \in Producers |-> NoValue] /\ GotBar = [c \in Consumers |-> NoValue]
  BY DEF Init, PutBar, GotBar, Threads
<1> QED
  BY <1>2, <1>3 DEF Queue!Init, PutBar, GotBar

(* The call and the steps of an insertion: line 71 is where it happens. *)
LEMMA InsertRefines ==
    ASSUME IInv, NEW p \in Producers,
           InsertStep(p) \/ \E v \in Values : CallInsert(p, v)
    PROVE  Queue!Next \/ UNCHANGED Queue!vars
<1> USE ThreadsAssumption, HeapAssumption DEF Threads, Goto
<1>0. /\ pc \in [Producers \cup Consumers ->
              {"idle", "malloc", "lockRear", "link", "swing", "unlockRear",
               "read", "copy", "advance", "drop", "free", "unlockFront"}]
      /\ arg \in [Producers -> Values \cup {NoValue}]
  BY DEF IInv, TypeOK
<1>1. ASSUME NEW v \in Values, CallInsert(p, v) PROVE Queue!CallPut(p, v)
  <2>1. Contents' = Contents
    BY <1>1, ContentsKept DEF CallInsert, heap, ends
  <2>2. PutBar[p] = NoValue /\ PutBar' = [PutBar EXCEPT ![p] = v] /\ GotBar' = GotBar
    BY <1>0, <1>1 DEF CallInsert, getVars, PutBar, GotBar
  <2> QED
    BY <2>1, <2>2 DEF Queue!CallPut, PutBar, GotBar
<1>2. CASE Malloc(p)
  <2>1. PICK n \in Nodes \ live : sample' = [sample EXCEPT ![n] = arg[p]]
    BY <1>2 DEF Malloc
  <2>2. Contents' = Contents
    BY <1>2, <2>1, ContentsKept DEF Malloc, ends, IInv, TypeOK, ChainOK
  <2>3. PutBar' = PutBar /\ GotBar' = GotBar
    BY <1>0, <1>2 DEF Malloc, getVars, PutBar, GotBar
  <2> QED
    BY <2>2, <2>3 DEF Queue!vars, PutBar, GotBar
<1>3. CASE MallocFails(p)
  <2>1. Contents' = Contents
    BY <1>3, ContentsKept DEF MallocFails, heap, ends
  <2>2. PutBar[p] # NoValue /\ PutBar' = [PutBar EXCEPT ![p] = NoValue] /\ GotBar' = GotBar
    BY <1>0, <1>3 DEF MallocFails, insertVars, getVars, PutBar, GotBar, IInv, InsertOK
  <2> QED
    BY <2>1, <2>2 DEF Queue!Next, Queue!Refuse, PutBar, GotBar
<1>4. CASE Link(p)
  <2>1. /\ chain \in Seq(Nodes) /\ Len(chain) \in Nat /\ Len(chain) >= 1
        /\ node[p] \in Nodes /\ sample[node[p]] = arg[p] /\ arg[p] \in Values
        /\ chain' = Append(chain, node[p]) /\ sample' = sample
    BY <1>4 DEF Link, IInv, TypeOK, ChainOK, InsertOK
  <2>2. /\ Len(chain') = Len(chain) + 1
        /\ \A i \in 1 .. Len(chain) : chain'[i] = chain[i]
        /\ chain'[Len(chain) + 1] = node[p]
    BY <2>1, AppendFacts
  <2>3. Contents' = [i \in 1 .. Len(chain) |-> sample[chain'[i + 1]]]
    BY <2>1, <2>2 DEF Contents
  <2>4. Contents' = Append(Contents, arg[p])
    <3>1. /\ Contents \in Seq(Values) /\ Len(Contents) = Len(chain) - 1
          /\ \A i \in 1 .. Len(chain) - 1 : Contents[i] = sample[chain[i + 1]]
      BY ContentsType
    <3>2. /\ Append(Contents, arg[p]) \in Seq(Values)
          /\ Len(Append(Contents, arg[p])) = Len(chain)
          /\ \A i \in 1 .. Len(chain) - 1 : Append(Contents, arg[p])[i] = Contents[i]
          /\ Append(Contents, arg[p])[Len(chain)] = arg[p]
      BY <2>1, <3>1, AppendFacts
    <3>3. Append(Contents, arg[p]) = [i \in 1 .. Len(chain) |-> Append(Contents, arg[p])[i]]
      BY <3>2
    <3>4. \A i \in 1 .. Len(chain) : sample[chain'[i + 1]] = Append(Contents, arg[p])[i]
      BY <2>1, <2>2, <3>1, <3>2
    <3> QED
      BY <2>3, <3>3, <3>4
  <2>5. /\ PutBar[p] = arg[p] /\ PutBar' = [PutBar EXCEPT ![p] = NoValue] /\ GotBar' = GotBar
    BY <1>0, <1>4 DEF Link, insertVars, getVars, PutBar, GotBar
  <2> QED
    BY <2>1, <2>4, <2>5 DEF Queue!Next, Queue!Enqueue, PutBar, GotBar
<1>5. CASE LockRear(p) \/ Swing(p) \/ UnlockRear(p)
  <2>1. Contents' = Contents
    BY <1>5, ContentsKept DEF LockRear, Swing, UnlockRear, heap, ends
  <2>2. PutBar' = PutBar /\ GotBar' = GotBar
    BY <1>0, <1>5 DEF LockRear, Swing, UnlockRear, insertVars, getVars, PutBar, GotBar
  <2> QED
    BY <2>1, <2>2 DEF Queue!vars, PutBar, GotBar
<1> QED
  BY <1>1, <1>2, <1>3, <1>4, <1>5 DEF InsertStep, Queue!Next

(* The steps of a get: line 106 removes, line 84 finds the queue empty. *)
LEMMA GetRefines ==
    ASSUME IInv, NEW c \in Consumers, GetStep(c)
    PROVE  Queue!Next \/ UNCHANGED Queue!vars
<1> USE ThreadsAssumption, HeapAssumption DEF Threads, Goto
<1>0. /\ pc \in [Producers \cup Consumers ->
              {"idle", "malloc", "lockRear", "link", "swing", "unlockRear",
               "read", "copy", "advance", "drop", "free", "unlockFront"}]
      /\ result \in [Consumers -> Values \cup {NoValue}]
  BY DEF IInv, TypeOK
<1>1. CASE LockFront(c)
  <2>1. Contents' = Contents
    BY <1>1, ContentsKept DEF LockFront, heap, ends
  <2>2. GotBar[c] # Pending /\ GotBar' = [GotBar EXCEPT ![c] = Pending] /\ PutBar' = PutBar
    BY <1>0, <1>1 DEF LockFront, insertVars, getVars, PutBar, GotBar
  <2> QED
    BY <2>1, <2>2 DEF Queue!Next, Queue!CallGet, PutBar, GotBar
<1>2. CASE ReadEmpty(c)
  <2>1. Contents' = Contents
    BY <1>2, ContentsKept DEF ReadEmpty, heap, ends
  <2>2. Len(chain) = 1
    <3>1. Len(chain) \in Nat /\ Len(chain) >= 1 /\ chain[1] = front /\ next[front] = Null
      BY <1>2 DEF ReadEmpty, IInv, TypeOK, ChainOK
    <3>2. ASSUME Len(chain) >= 2 PROVE FALSE
      <4>1. next[chain[1]] = chain[2] /\ chain[2] \in Nodes
        BY <3>1, <3>2 DEF IInv, TypeOK, ChainOK
      <4> QED
        BY <4>1, <3>1
    <3>3. Len(chain) \in Nat /\ Len(chain) >= 1 /\ ~(Len(chain) >= 2)
      BY <3>1, <3>2
    <3>4. \A n \in Nat : n >= 1 /\ ~(n >= 2) => n = 1
      OBVIOUS
    <3> QED
      BY <3>3, <3>4
  <2>3. Contents = << >>
    BY <2>2 DEF Contents
  <2>4. GotBar[c] = Pending /\ GotBar' = [GotBar EXCEPT ![c] = NoValue] /\ PutBar' = PutBar
    BY <1>0, <1>2 DEF ReadEmpty, insertVars, PutBar, GotBar
  <2> QED
    BY <2>1, <2>3, <2>4 DEF Queue!Next, Queue!AnswerEmpty, PutBar, GotBar
<1>3. CASE ReadFront(c) \/ Copy(c)
  <2>1. Contents' = Contents
    BY <1>3, ContentsKept DEF ReadFront, Copy, heap, ends
  <2>2. GotBar' = GotBar /\ PutBar' = PutBar
    BY <1>0, <1>3 DEF ReadFront, Copy, insertVars, PutBar, GotBar
  <2> QED
    BY <2>1, <2>2 DEF Queue!vars, PutBar, GotBar
<1>4. CASE Advance(c)
  <2>1. /\ chain \in Seq(Nodes) /\ Len(chain) \in Nat /\ Len(chain) >= 2
        /\ result[c] = sample[chain[2]]
        /\ chain' = Tail(chain) /\ sample' = sample
    BY <1>4 DEF Advance, heap, IInv, TypeOK, ChainOK, GetOK
  <2>2. /\ Len(chain') = Len(chain) - 1
        /\ \A i \in 1 .. Len(chain) - 1 : chain'[i] = chain[i + 1]
    BY <2>1, TailFacts
  <2>3. /\ Contents \in Seq(Values) /\ Len(Contents) = Len(chain) - 1
        /\ \A i \in 1 .. Len(chain) - 1 : Contents[i] = sample[chain[i + 1]]
    BY ContentsType
  <2>4. Contents # << >> /\ Head(Contents) = result[c]
    BY <2>1, <2>3
  <2>5. Contents' = Tail(Contents)
    <3>1. /\ Tail(Contents) \in Seq(Values)
          /\ Len(Tail(Contents)) = Len(chain) - 2
          /\ \A i \in 1 .. Len(chain) - 2 : Tail(Contents)[i] = Contents[i + 1]
      BY <2>1, <2>3, TailFacts
    <3>2. Tail(Contents) = [i \in 1 .. Len(chain) - 2 |-> Tail(Contents)[i]]
      <4>1. Len(chain) - 2 \in Nat
        BY <2>1
      <4>2. Tail(Contents) \in [1 .. Len(chain) - 2 -> Values]
        BY <3>1, <4>1, SeqIsFunction
      <4> QED
        BY <4>2
    <3>3. Contents' = [i \in 1 .. Len(chain) - 2 |-> sample[chain'[i + 1]]]
      BY <2>1, <2>2 DEF Contents
    <3>4. \A i \in 1 .. Len(chain) - 2 : sample[chain'[i + 1]] = Tail(Contents)[i]
      BY <2>1, <2>2, <2>3, <3>1
    <3> QED
      BY <3>2, <3>3, <3>4
  <2>6. GotBar[c] = Pending /\ GotBar' = [GotBar EXCEPT ![c] = result[c]] /\ PutBar' = PutBar
    BY <1>0, <1>4 DEF Advance, insertVars, getVars, PutBar, GotBar
  <2> QED
    BY <2>4, <2>5, <2>6 DEF Queue!Next, Queue!Dequeue, PutBar, GotBar
<1>5. CASE DropSample(c)
  <2>1. Contents' = Contents
    BY <1>5, ContentsKept DEF DropSample, ends, IInv, TypeOK, ChainOK, GetOK
  <2>2. GotBar' = GotBar /\ PutBar' = PutBar
    BY <1>0, <1>5 DEF DropSample, insertVars, getVars, PutBar, GotBar
  <2> QED
    BY <2>1, <2>2 DEF Queue!vars, PutBar, GotBar
<1>6. CASE FreeNode(c) \/ UnlockFront(c)
  <2>1. Contents' = Contents
    BY <1>6, ContentsKept DEF FreeNode, UnlockFront, heap, ends
  <2>2. GotBar' = GotBar /\ PutBar' = PutBar
    BY <1>0, <1>6 DEF FreeNode, UnlockFront, insertVars, getVars, PutBar, GotBar
  <2> QED
    BY <2>1, <2>2 DEF Queue!vars, PutBar, GotBar
<1> QED
  BY <1>1, <1>2, <1>3, <1>4, <1>5, <1>6 DEF GetStep

(* The two-lock list is a linearizable first-in first-out queue: nothing   *)
(* is lost, duplicated, reordered or invented between insert and get, for  *)
(* any number of threads and whatever addresses malloc reuses.             *)
THEOREM FifoRefinement == Spec => ImplementsFifo
<1>1. IInv /\ [Next]_vars => [Queue!Next]_(Queue!vars)
  <2> SUFFICES ASSUME IInv, [Next]_vars PROVE Queue!Next \/ UNCHANGED Queue!vars
    OBVIOUS
  <2>1. CASE UNCHANGED vars
    <3>1. Contents' = Contents /\ PutBar' = PutBar /\ GotBar' = GotBar
      BY <2>1 DEF vars, heap, ends, locks, insertVars, getVars, Contents, PutBar, GotBar
    <3> QED
      BY <3>1 DEF Queue!vars, PutBar, GotBar
  <2>2. ASSUME NEW p \in Producers, InsertStep(p) \/ \E v \in Values : CallInsert(p, v)
        PROVE  Queue!Next \/ UNCHANGED Queue!vars
    BY <2>2, InsertRefines
  <2>3. ASSUME NEW c \in Consumers, GetStep(c) PROVE Queue!Next \/ UNCHANGED Queue!vars
    BY <2>3, GetRefines
  <2> QED
    BY <2>1, <2>2, <2>3 DEF Next
<1> QED
  BY <1>1, InitRefines, Invariance, PTL DEF Spec, ImplementsFifo, Queue!Spec
=============================================================================
