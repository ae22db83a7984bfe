-------------------------- MODULE DataLink_proofs --------------------------
(***************************************************************************)
(* With a server that answers in time, writing over DataLink is the log of *)
(* module RecordLog, for any number of records, wherever the connection    *)
(* closes and whatever the server refuses.  Whether it is timely or not,   *)
(* nothing is stored twice or out of order, and replies lag behind by as   *)
(* many records as writes failed.                                          *)
(***************************************************************************)
EXTENDS DataLink, FiniteSetTheorems, TLAPS

(* The ring holds the first so many records, none missing.                 *)
RingPart == \A i \in 1 .. Len(ring) : ring[i] = i

ResultPart ==
    \A k \in Packets :
        /\ k < current => result[k] # "none"
        /\ k > current => result[k] = "none"
        /\ k = current => (result[k] = "none" <=> client # "ready")
        /\ result[k] = "ok" => k <= Len(ring)

(* An open connection: nothing failed yet, and the one packet under way is *)
(* in exactly one place.                                                   *)
OpenPart ==
    server # "closed" =>
        /\ socket = "ok" /\ client # "killed"
        /\ \A k \in Packets : result[k] # "fail"
        /\ client \in {"ready", "send"} => server = "open" /\ toServer = << >>
        /\ client = "ready" => Len(ring) = current
        /\ client = "send" => Len(ring) = current - 1
        /\ client = "receive" =>
             \/ server = "open" /\ toServer = <<current>> /\ toClient = << >> /\ Len(ring) = current - 1
             \/ server = "replying" /\ toServer = << >> /\ toClient = << >> /\ Len(ring) = current
             \/ server = "open" /\ toServer = << >> /\ toClient = <<OK(current)>> /\ Len(ring) = current

(* A reply at hand is for the packet being written. *)
ReplyPart ==
    toClient # << >> =>
        /\ client = "receive"
        /\ \/ toClient = <<OK(current)>> /\ Len(ring) = current
           \/ toClient = <<ERROR(current)>>

StartedPart == client # "ready" => current >= 1

IInv == TypeOK /\ RingPart /\ ResultPart /\ OpenPart /\ ReplyPart /\ StartedPart

-----------------------------------------------------------------------------
(* With one element, taking it leaves nothing. *)
LEMMA OneElement ==
    ASSUME NEW S, NEW e \in S
    PROVE  Head(<<e>>) = e /\ Tail(<<e>>) = << >> /\ <<e>> # << >> /\ <<e>> \in Seq(S)
OBVIOUS

(* What is stored is what the ring is long.                                *)
LEMMA StoredIsPrefix ==
    ASSUME TypeOK, RingPart
    PROVE  \A k \in Packets : k \in Stored <=> k <= Len(ring)
<1>1. Len(ring) \in Nat /\ DOMAIN ring = 1 .. Len(ring)
  BY DEF TypeOK
<1> QED
  BY <1>1, LinkAssumption, SMT DEF RingPart, Stored, Packets

(* Nothing is under way at first. *)
LEMMA InitInv == Init => IInv
<1> SUFFICES ASSUME Init
             PROVE  IInv
  OBVIOUS
<1>1. TypeOK
  BY LinkAssumption, SMT DEF Init, TypeOK
<1>2. Len(ring) = 0
  BY DEF Init
<1>3. RingPart /\ ReplyPart /\ StartedPart
  BY <1>2, SMT DEF Init, RingPart, ReplyPart, StartedPart
<1>4. ResultPart /\ OpenPart
  BY <1>2, LinkAssumption, SMT DEF Init, ResultPart, OpenPart, Packets
<1> QED
  BY <1>1, <1>3, <1>4 DEF IInv

(* The next record is taken up when the one before it has its result. *)
LEMMA WriteInv ==
    ASSUME IInv, Write
    PROVE  IInv'
<1>1. current \in Nat /\ current' = current + 1 /\ current' \in 0 .. MaxPackets /\ current' >= 1
      /\ Len(ring) \in Nat /\ Len(ring) <= current
  BY LinkAssumption, SMT DEF IInv, TypeOK, Write
<1>2. UNCHANGED <<result, answered, socket, server, ring, toServer, toClient>> /\ client = "ready" /\ client' = "send"
  BY DEF Write, serverVars
<1>3. toClient = << >>
  BY <1>2 DEF IInv, ReplyPart
<1>4. TypeOK'
  BY <1>1, <1>2, SMT DEF IInv, TypeOK
<1>5. RingPart' /\ ReplyPart' /\ StartedPart'
  BY <1>1, <1>2, <1>3 DEF IInv, RingPart, ReplyPart, StartedPart
<1>6. ResultPart'
  BY <1>1, <1>2, LinkAssumption, SMT DEF IInv, ResultPart, Packets
<1>7. OpenPart'
  BY <1>1, <1>2, SMT DEF IInv, OpenPart
<1> QED
  BY <1>4, <1>5, <1>6, <1>7 DEF IInv

(* The packet goes to an open server, or nowhere. *)
LEMMA SendPacketInv ==
    ASSUME IInv, SendPacket
    PROVE  IInv'
<1>1. UNCHANGED <<current, result, answered, server, ring, toClient>> /\ client = "send" /\ client' = "receive"
  BY DEF SendPacket, serverVars
<1>2. current \in Packets
  BY <1>1, LinkAssumption, SMT DEF IInv, TypeOK, StartedPart, Packets
<1>3. toClient = << >>
  BY <1>1 DEF IInv, ReplyPart
<1>4. toServer' \in Seq(Packets) /\ socket' \in {"ok", "probed", "aborted", "error", "broken"}
  <2>1. toServer \in Seq(Packets) /\ Append(toServer, current) \in Seq(Packets)
    BY <1>2 DEF IInv, TypeOK
  <2>2. toServer' = toServer \/ toServer' = Append(toServer, current)
    BY DEF SendPacket
  <2>3. socket' = socket \/ socket' = "probed"
    BY DEF SendPacket
  <2> QED
    BY <2>1, <2>2, <2>3 DEF IInv, TypeOK
<1>5. TypeOK'
  BY <1>1, <1>4 DEF IInv, TypeOK
<1>6. RingPart' /\ ReplyPart' /\ StartedPart'
  BY <1>1, <1>3 DEF IInv, RingPart, ReplyPart, StartedPart
<1>7. ResultPart'
  BY <1>1 DEF IInv, ResultPart
<1>8. OpenPart'
  <2> SUFFICES ASSUME server # "closed"
               PROVE  OpenPart'
    BY <1>1 DEF OpenPart
  <2>1. socket' = "ok" /\ toServer = << >> /\ server = "open" /\ Len(ring) = current - 1
    BY <1>1 DEF IInv, OpenPart, SendPacket
  <2>2. toServer' = <<current>>
    BY <2>1 DEF SendPacket
  <2>3. \A k \in Packets : result[k] # "fail"
    BY DEF IInv, OpenPart
  <2> QED
    BY <1>1, <1>3, <2>1, <2>2, <2>3 DEF OpenPart
<1> QED
  BY <1>5, <1>6, <1>7, <1>8 DEF IInv

(* A write that failed leaves a closed connection behind, and the record   *)
(* has its result.                                                         *)
LEMMA FailInv ==
    ASSUME IInv, client \in {"send", "receive"}, server = "closed",
           Return("fail"), UNCHANGED <<answered, server, ring, toServer>>,
           toClient = << >>, toClient' = << >>,
           socket' \in {"ok", "probed", "aborted", "error", "broken"}
    PROVE  IInv'
<1>1. current \in Packets
  BY LinkAssumption, SMT DEF IInv, TypeOK, StartedPart, Packets
<1>2. UNCHANGED <<current, answered, server, ring, toServer, toClient>> /\ client' = "ready"
      /\ result' = [result EXCEPT ![current] = "fail"]
  BY DEF Return
<1>3. result' \in [Packets -> {"none", "ok", "fail"}]
  BY <1>2 DEF IInv, TypeOK
<1>4. TypeOK'
  BY <1>2, <1>3 DEF IInv, TypeOK
<1>5. RingPart' /\ ReplyPart' /\ StartedPart' /\ OpenPart'
  BY <1>2 DEF IInv, RingPart, ReplyPart, StartedPart, OpenPart
<1>6. ResultPart'
  <2>1. \A k \in Packets : result'[k] = IF k = current THEN "fail" ELSE result[k]
    BY <1>2 DEF IInv, TypeOK
  <2>2. \A k \in Packets : ~(k = current /\ (k < current \/ k > current))
    BY <1>1, SMT DEF Packets
  <2> QED
    BY <1>2, <2>1, <2>2 DEF IInv, ResultPart
<1> QED
  BY <1>4, <1>5, <1>6 DEF IInv

(* A pending error: the server has closed. *)
LEMMA SendFailsInv ==
    ASSUME IInv, SendFails
    PROVE  IInv'
<1>1. client = "send" /\ socket = "error" /\ socket' = "broken" /\ Return("fail")
      /\ UNCHANGED <<answered, server, ring, toServer>>
  BY DEF SendFails, serverVars
<1>2. server = "closed"
  BY <1>1 DEF IInv, OpenPart
<1>3. toClient = << >> /\ toClient' = << >>
  BY <1>1 DEF IInv, ReplyPart, SendFails
<1> QED
  BY <1>1, <1>2, <1>3, FailInv

(* So it has when recv finds the end of the stream. *)
LEMMA ReceiveClosedInv ==
    ASSUME IInv, ReceiveClosed
    PROVE  IInv'
<1>1. client = "receive" /\ server = "closed" /\ toClient = << >> /\ toClient' = << >> /\ Return("fail")
      /\ UNCHANGED <<answered, server, ring, toServer>>
  BY DEF ReceiveClosed, serverVars
<1>2. socket' \in {"ok", "probed", "aborted", "error", "broken"}
  BY DEF IInv, TypeOK, ReceiveClosed
<1> QED
  BY <1>1, <1>2, FailInv

(* Only a closed connection kills. *)
LEMMA SendKillsInv ==
    ASSUME IInv, SendKills
    PROVE  IInv'
<1>1. UNCHANGED <<current, result, answered, socket, server, ring, toServer, toClient>>
      /\ client = "send" /\ socket = "broken" /\ client' = "killed"
  BY DEF SendKills, serverVars
<1>2. server = "closed" /\ toClient = << >> /\ current >= 1
  BY <1>1 DEF IInv, OpenPart, ReplyPart, StartedPart
<1>3. TypeOK'
  BY <1>1 DEF IInv, TypeOK
<1>4. RingPart' /\ ReplyPart' /\ StartedPart' /\ OpenPart'
  BY <1>1, <1>2 DEF IInv, RingPart, ReplyPart, StartedPart, OpenPart
<1>5. ResultPart'
  BY <1>1 DEF IInv, ResultPart
<1> QED
  BY <1>3, <1>4, <1>5 DEF IInv


(* With one reply at hand, the next is empty; an OK is for a stored record. *)
LEMMA ReceiveReplyInv ==
    ASSUME IInv, ReceiveReply
    PROVE  IInv'
<1> DEFINE value == IF Head(toClient).status = "OK" THEN "ok" ELSE "fail"
<1>1. client = "receive" /\ toClient # << >> /\ toClient' = Tail(toClient) /\ client' = "ready"
      /\ UNCHANGED <<current, socket, server, ring, toServer>>
      /\ result' = [result EXCEPT ![current] = value]
      /\ answered' = [answered EXCEPT ![current] = Head(toClient).packet]
  BY DEF ReceiveReply, Return, serverVars
<1>2. current \in Packets /\ current \in 0 .. MaxPackets
  BY <1>1, LinkAssumption, SMT DEF IInv, TypeOK, StartedPart, Packets
<1>3. toClient' = << >> /\ Head(toClient).packet = current
  <2>1. PICK e \in {OK(current), ERROR(current)} : toClient = <<e>>
    BY <1>1 DEF IInv, ReplyPart
  <2> QED
    BY <1>1, <2>1, OneElement DEF OK, ERROR
<1>4. TypeOK'
  <2>1. result' \in [Packets -> {"none", "ok", "fail"}] /\ answered' \in [Packets -> 0 .. MaxPackets]
    BY <1>1, <1>2, <1>3 DEF IInv, TypeOK
  <2>2. toClient' \in Seq([status : {"OK", "ERROR"}, packet : Packets])
    BY <1>3
  <2> QED
    BY <1>1, <2>1, <2>2 DEF IInv, TypeOK
<1>5. RingPart' /\ ReplyPart' /\ StartedPart'
  BY <1>1, <1>3 DEF IInv, RingPart, ReplyPart, StartedPart
<1>6. \A k \in Packets : result'[k] = IF k = current THEN value ELSE result[k]
  BY <1>1 DEF IInv, TypeOK
<1>7. value = "ok" => Len(ring) = current
  <2>1. toClient = <<ERROR(current)>> => value = "fail"
    BY OneElement DEF ERROR
  <2> QED
    BY <1>1, <2>1 DEF IInv, ReplyPart
<1>8. value \in {"ok", "fail"}
  OBVIOUS
<1> HIDE DEF value
<1>9. ResultPart'
  <2>1. \A k \in Packets : ~(k = current /\ (k < current \/ k > current)) /\ (k = current => k <= current)
    BY <1>2, SMT DEF Packets
  <2> QED
    BY <1>1, <1>6, <1>7, <1>8, <2>1 DEF IInv, ResultPart
<1>10. OpenPart'
  <2> SUFFICES ASSUME server # "closed"
               PROVE  OpenPart'
    BY <1>1 DEF OpenPart
  <2>1. /\ socket = "ok"
        /\ \A k \in Packets : result[k] # "fail"
        /\ server = "open" /\ toServer = << >> /\ toClient = <<OK(current)>> /\ Len(ring) = current
    BY <1>1 DEF IInv, OpenPart
  <2>2. value = "ok"
    BY <2>1, OneElement DEF value, OK
  <2> QED
    BY <1>1, <1>6, <2>1, <2>2 DEF OpenPart
<1> QED
  BY <1>4, <1>5, <1>9, <1>10 DEF IInv

(* The packet under way is the next record; now the ring has it. *)
LEMMA StoreInv ==
    ASSUME IInv, Store
    PROVE  /\ IInv'
           /\ client = "receive" /\ Head(toServer) = current /\ Len(ring) = current - 1
           /\ \A k \in Packets : result[k] # "fail"
<1>1. UNCHANGED <<client, current, result, answered, socket, toClient>>
      /\ server = "open" /\ toServer # << >> /\ server' = "replying"
      /\ toServer' = Tail(toServer) /\ ring' = Append(ring, Head(toServer))
  BY DEF Store, clientVars
<1>2. /\ client = "receive" /\ toServer = <<current>> /\ toClient = << >> /\ Len(ring) = current - 1
      /\ socket = "ok" /\ \A k \in Packets : result[k] # "fail"
  BY <1>1 DEF IInv, TypeOK, OpenPart
<1>3. current \in Packets
  BY <1>2, LinkAssumption, SMT DEF IInv, TypeOK, StartedPart, Packets
<1>4. toServer' = << >> /\ Head(toServer) = current /\ ring' = Append(ring, current)
  BY <1>1, <1>2, <1>3, OneElement
<1>5. ring \in Seq(Packets) /\ Len(ring) \in Nat /\ current \in Int
  BY <1>3, SMT DEF IInv, TypeOK, Packets
<1>6. ring' \in Seq(Packets) /\ Len(ring') = current
      /\ \A i \in 1 .. current : ring'[i] = IF i = current THEN current ELSE ring[i]
  <2>1. Append(ring, current) \in Seq(Packets) /\ Len(Append(ring, current)) = Len(ring) + 1
        /\ \A i \in 1 .. Len(ring) + 1 :
              Append(ring, current)[i] = IF i = Len(ring) + 1 THEN current ELSE ring[i]
    BY <1>3, <1>5
  <2> QED
    BY <1>2, <1>4, <1>5, <2>1, SMT
<1>7. TypeOK'
  <2>1. toServer' \in Seq(Packets)
    BY <1>4
  <2>2. current <= current
    BY <1>5, SMT
  <2> QED
    BY <1>1, <1>6, <2>1, <2>2 DEF IInv, TypeOK
<1>8. RingPart'
  <2>1. \A i \in 1 .. Len(ring) : ring[i] = i
    BY DEF IInv, RingPart
  <2>2. \A i \in 1 .. current : ring'[i] = i
    BY <1>2, <1>5, <1>6, <2>1, SMT
  <2> QED
    BY <1>6, <2>2 DEF RingPart
<1>9. ReplyPart' /\ StartedPart'
  BY <1>1, <1>2 DEF IInv, ReplyPart, StartedPart
<1>10. ResultPart'
  <2>1. \A k \in Packets : k <= Len(ring) => k <= current
    BY <1>2, <1>5, SMT DEF Packets
  <2> QED
    BY <1>1, <1>6, <2>1 DEF IInv, ResultPart
<1>11. OpenPart'
  BY <1>1, <1>2, <1>4, <1>6 DEF OpenPart
<1> QED
  BY <1>2, <1>4, <1>7, <1>8, <1>9, <1>10, <1>11 DEF IInv

(* The reply is for the packet stored last: the one being written. *)
LEMMA ReplyInv ==
    ASSUME IInv, Reply
    PROVE  IInv'
<1>1. UNCHANGED <<client, current, result, answered, socket, ring, toServer>>
      /\ server = "replying" /\ server' = "open" /\ toClient' = Append(toClient, OK(ring[Len(ring)]))
  BY DEF Reply, clientVars
<1>2. /\ client = "receive" /\ toServer = << >> /\ toClient = << >> /\ Len(ring) = current
      /\ socket = "ok" /\ \A k \in Packets : result[k] # "fail"
  BY <1>1 DEF IInv, TypeOK, OpenPart
<1>3. current \in Packets
  BY <1>2, LinkAssumption, SMT DEF IInv, TypeOK, StartedPart, Packets
<1>4. ring[Len(ring)] = current
  <2>1. current \in 1 .. Len(ring)
    BY <1>2, <1>3, SMT DEF Packets
  <2> QED
    BY <1>2, <2>1 DEF IInv, RingPart
<1>5. toClient' = <<OK(current)>>
  BY <1>1, <1>2, <1>4
<1>6. toClient' \in Seq([status : {"OK", "ERROR"}, packet : Packets])
  <2>1. OK(current) \in [status : {"OK", "ERROR"}, packet : Packets]
    BY <1>3 DEF OK
  <2> HIDE DEF OK
  <2> QED
    BY <1>5, <2>1, OneElement
<1>7. TypeOK'
  BY <1>1, <1>6 DEF IInv, TypeOK
<1>8. RingPart' /\ StartedPart' /\ ResultPart'
  BY <1>1 DEF IInv, RingPart, StartedPart, ResultPart
<1>9. ReplyPart' /\ OpenPart'
  BY <1>1, <1>2, <1>5 DEF ReplyPart, OpenPart
<1> QED
  BY <1>7, <1>8, <1>9 DEF IInv

(* Closing discards what was not read; nothing else is asked of a closed   *)
(* connection.                                                             *)
LEMMA CloseInv ==
    ASSUME IInv, NEW unread, Close(unread),
           UNCHANGED <<client, current, result, answered, ring>>,
           toClient' \in Seq([status : {"OK", "ERROR"}, packet : Packets]), ReplyPart'
    PROVE  IInv'
<1>1. server' = "closed" /\ toServer' = << >>
  BY DEF Close
<1>2. socket' \in {"ok", "probed", "aborted", "error", "broken"}
  BY DEF Close, IInv, TypeOK
<1>3. toServer' \in Seq(Packets)
  BY <1>1
<1>4. TypeOK'
  BY <1>1, <1>2, <1>3 DEF IInv, TypeOK
<1>5. RingPart' /\ ResultPart' /\ StartedPart' /\ OpenPart'
  BY <1>1 DEF IInv, RingPart, ResultPart, StartedPart, OpenPart
<1> QED
  BY <1>4, <1>5 DEF IInv

(* A refused packet is answered with an error, for the record being written. *)
LEMMA RefuseInv ==
    ASSUME IInv, Refuse
    PROVE  IInv'
<1>1. UNCHANGED <<client, current, result, answered, ring>> /\ Close(Tail(toServer))
      /\ server = "open" /\ toServer # << >> /\ toClient' = Append(toClient, ERROR(Head(toServer)))
  BY DEF Refuse, clientVars
<1>2. client = "receive" /\ toServer = <<current>> /\ toClient = << >>
  BY <1>1 DEF IInv, TypeOK, OpenPart
<1>3. current \in Packets
  BY <1>2, LinkAssumption, SMT DEF IInv, TypeOK, StartedPart, Packets
<1>4. toClient' = <<ERROR(current)>>
  <2>1. Head(toServer) = current
    BY <1>2, <1>3, OneElement
  <2> QED
    BY <1>1, <1>2, <2>1
<1>5. toClient' \in Seq([status : {"OK", "ERROR"}, packet : Packets])
  <2>1. ERROR(current) \in [status : {"OK", "ERROR"}, packet : Packets]
    BY <1>3 DEF ERROR
  <2> HIDE DEF ERROR
  <2> QED
    BY <1>4, <2>1, OneElement
<1>6. ReplyPart'
  BY <1>1, <1>2, <1>4 DEF ReplyPart
<1> QED
  BY <1>1, <1>5, <1>6, CloseInv

(* The server may be restarted at any moment. *)
LEMMA CloseConnectionInv ==
    ASSUME IInv, CloseConnection
    PROVE  IInv'
<1>1. UNCHANGED <<client, current, result, answered, ring, toClient>> /\ Close(toServer)
  BY DEF CloseConnection, clientVars
<1>2. toClient' \in Seq([status : {"OK", "ERROR"}, packet : Packets]) /\ ReplyPart'
  BY <1>1 DEF IInv, TypeOK, ReplyPart
<1> QED
  BY <1>1, <1>2, CloseInv

(* A reset only comes from a closed connection. *)
LEMMA ResetInv ==
    ASSUME IInv, Reset
    PROVE  IInv'
<1>1. UNCHANGED <<client, current, result, answered, server, ring, toServer, toClient>>
      /\ socket \in {"probed", "aborted"} /\ socket' \in {"broken", "error"}
  BY DEF Reset, clientVars, serverVars
<1>2. server = "closed"
  BY <1>1 DEF IInv, OpenPart
<1>3. TypeOK'
  BY <1>1 DEF IInv, TypeOK
<1>4. RingPart' /\ ResultPart' /\ ReplyPart' /\ StartedPart' /\ OpenPart'
  BY <1>1, <1>2 DEF IInv, RingPart, ResultPart, ReplyPart, StartedPart, OpenPart
<1> QED
  BY <1>3, <1>4 DEF IInv

(* Nor does standing still. *)
LEMMA StutterInv ==
    ASSUME IInv, UNCHANGED vars
    PROVE  IInv'
<1>1. UNCHANGED <<client, current, result, answered, socket, server, ring, toServer, toClient>>
  BY DEF vars, clientVars, serverVars
<1>2. TypeOK' /\ RingPart' /\ ReplyPart'
  BY <1>1 DEF IInv, TypeOK, RingPart, ReplyPart
<1>3. ResultPart' /\ StartedPart' /\ OpenPart'
  BY <1>1 DEF IInv, ResultPart, StartedPart, OpenPart
<1> QED
  BY <1>2, <1>3 DEF IInv

-----------------------------------------------------------------------------
(* With a server that answers in time, IInv always holds.                  *)
THEOREM Invariant ==
    ASSUME Timely
    PROVE  Spec => []IInv
<1>1. IInv /\ [Next]_vars => IInv'
  <2> SUFFICES ASSUME IInv, [Next]_vars
               PROVE  IInv'
    OBVIOUS
  <2>1. ~ReceiveTimeout
    BY DEF ReceiveTimeout
  <2>2. CASE Client
    BY <2>1, <2>2, WriteInv, SendPacketInv, SendFailsInv, SendKillsInv, ReceiveReplyInv, ReceiveClosedInv DEF Client
  <2>3. CASE Server
    BY <2>3, StoreInv, ReplyInv, RefuseInv DEF Server
  <2>4. CASE CloseConnection
    BY <2>4, CloseConnectionInv
  <2>5. CASE Reset
    BY <2>5, ResetInv
  <2>6. CASE Ended \/ UNCHANGED vars
    BY <2>6, StutterInv DEF Ended
  <2> QED
    BY <2>2, <2>3, <2>4, <2>5, <2>6 DEF Next
<1> QED
  BY InitInv, <1>1, PTL DEF Spec

(* A record dl_write reports stored is in the ring.                        *)
THEOREM AcknowledgedIsStored ==
    ASSUME Timely
    PROVE  Spec => []AckMeansStored
<1>1. IInv => AckMeansStored
  <2> SUFFICES ASSUME IInv
               PROVE  AckMeansStored
    OBVIOUS
  <2>1. \A k \in Packets : result[k] = "ok" => k <= Len(ring)
    BY DEF IInv, ResultPart
  <2>2. \A k \in Packets : k \in Stored <=> k <= Len(ring)
    BY StoredIsPrefix DEF IInv
  <2> QED
    BY <2>1, <2>2 DEF AckMeansStored
<1> QED
  BY <1>1, Invariant, PTL


-----------------------------------------------------------------------------
(* The record being written is the log's current one. *)
LEMMA CurrentIsCurrent ==
    ASSUME IInv, client \in {"send", "receive"}
    PROVE  current \in Packets /\ Log!Current(current)
<1>1. current \in Packets
  BY LinkAssumption, SMT DEF IInv, TypeOK, StartedPart, Packets
<1>2. result[current] = "none" /\ \A j \in Packets : j < current => result[j] # "none"
  BY <1>1 DEF IInv, ResultPart
<1> QED
  BY <1>1, <1>2 DEF Log!Current, Log!Packets, Packets

(* A failed write is the log's Fail. *)
LEMMA FailMaps ==
    ASSUME IInv, client \in {"send", "receive"}, Return("fail"), UNCHANGED ring
    PROVE  Log!Next
<1>1. current \in Log!Packets /\ Log!Current(current)
  BY CurrentIsCurrent DEF Log!Packets, Packets
<1>2. Log!Fail(current)
  BY <1>1 DEF Return, Log!Fail
<1> QED
  BY <1>1, <1>2 DEF Log!Next

(* Taking a reply is the log's Confirm or Fail. *)
LEMMA ReceiveReplyMaps ==
    ASSUME IInv, ReceiveReply
    PROVE  Log!Next
<1>1. client = "receive" /\ toClient # << >> /\ UNCHANGED ring
      /\ Return(IF Head(toClient).status = "OK" THEN "ok" ELSE "fail")
  BY DEF ReceiveReply, serverVars
<1>2. CASE Head(toClient).status = "OK"
  <2>1. current \in Packets /\ Log!Current(current)
    BY <1>1, CurrentIsCurrent
  <2>2. toClient # <<ERROR(current)>>
    BY <1>2, OneElement DEF ERROR
  <2>3. Len(ring) = current
    BY <1>1, <2>2 DEF IInv, ReplyPart
  <2>4. current \in Stored
    <3>1. current <= Len(ring)
      BY <2>1, <2>3, SMT DEF Packets
    <3> QED
      BY <2>1, <3>1, StoredIsPrefix DEF IInv
  <2>5. Log!Confirm(current)
    BY <1>1, <1>2, <2>1, <2>4 DEF Return, Log!Confirm, Log!Stored, Stored
  <2> QED
    BY <2>1, <2>5 DEF Log!Next, Log!Packets, Packets
<1>3. CASE Head(toClient).status # "OK"
  <2>1. Return("fail")
    BY <1>1, <1>3
  <2> QED
    BY <1>1, <2>1, FailMaps
<1> QED
  BY <1>2, <1>3

(* RingWrite is the log's Store: of the record being written, not yet       *)
(* stored, all before it acknowledged.                                      *)
LEMMA StoreMaps ==
    ASSUME IInv, Store
    PROVE  Log!Next
<1>1. client = "receive" /\ Head(toServer) = current /\ Len(ring) = current - 1
      /\ \A k \in Packets : result[k] # "fail"
  BY StoreInv
<1>2. UNCHANGED result /\ ring' = Append(ring, current)
  BY <1>1 DEF Store, clientVars
<1>3. current \in Packets /\ Log!Current(current)
  BY <1>1, CurrentIsCurrent
<1>4. current \notin Stored
  <2>1. ~(current <= Len(ring))
    BY <1>1, <1>3, SMT DEF Packets
  <2> QED
    BY <1>3, <2>1, StoredIsPrefix DEF IInv
<1>5. \A j \in Packets : j < current => result[j] = "ok"
  <2> SUFFICES ASSUME NEW j \in Packets, j < current
               PROVE  result[j] = "ok"
    OBVIOUS
  <2>1. result[j] \in {"none", "ok", "fail"} /\ result[j] # "none"
    BY DEF IInv, TypeOK, ResultPart
  <2> QED
    BY <1>1, <2>1
<1>6. Log!Store(current)
  BY <1>2, <1>3, <1>4, <1>5 DEF Log!Store, Log!Stored, Stored, Log!Packets, Packets
<1> QED
  BY <1>3, <1>6 DEF Log!Next, Log!Packets, Packets

(* The other steps are none of the log's.                                  *)
LEMMA OthersStutter ==
    ASSUME Write \/ SendPacket \/ SendKills \/ Reply \/ Refuse \/ CloseConnection \/ Reset \/ UNCHANGED vars
    PROVE  UNCHANGED Log!vars
BY DEF Write, SendPacket, SendKills, Reply, Refuse, CloseConnection, Reset, vars, clientVars, serverVars, Log!vars

(* dl_write with acknowledgements, against a server that answers in time,  *)
(* implements the log: nothing is stored twice or out of order, an         *)
(* acknowledged record is stored, and nothing follows a failed one.        *)
THEOREM LogRefinement ==
    ASSUME Timely
    PROVE  Spec => ImplementsLog
<1>1. Init => Log!Init
  BY DEF Init, Log!Init, Log!Packets, Packets
<1>2. IInv /\ [Next]_vars => [Log!Next]_(Log!vars)
  <2> SUFFICES ASSUME IInv, [Next]_vars
               PROVE  Log!Next \/ UNCHANGED Log!vars
    OBVIOUS
  <2>1. CASE SendFails
    BY <2>1, FailMaps DEF SendFails, serverVars
  <2>2. CASE ReceiveClosed
    BY <2>2, FailMaps DEF ReceiveClosed, serverVars
  <2>3. CASE ReceiveReply
    BY <2>3, ReceiveReplyMaps
  <2>4. CASE Store
    BY <2>4, StoreMaps
  <2>5. CASE Write \/ SendPacket \/ SendKills \/ Reply \/ Refuse \/ CloseConnection \/ Reset \/ UNCHANGED vars
    BY <2>5, OthersStutter
  <2>6. ~ReceiveTimeout
    BY DEF ReceiveTimeout
  <2> QED
    BY <2>1, <2>2, <2>3, <2>4, <2>5, <2>6 DEF Next, Client, Server, Ended
<1> QED
  BY <1>1, <1>2, Invariant, PTL DEF Spec, ImplementsLog, Log!Spec

-----------------------------------------------------------------------------
(* The order of what is stored does not depend on the server's timing: the *)
(* invariant below assumes nothing of Timely.                              *)

Rising(s) == \A i, j \in 1 .. Len(s) : i < j => s[i] < s[j]

(* The last record that may have been sent. *)
Sent == IF client = "send" THEN current - 1 ELSE current

(* The ring, and behind it what is under way, in the order it was written. *)
InOrder ==
    /\ ring \in Seq(Packets) /\ toServer \in Seq(Packets)
    /\ client \in {"ready", "send", "receive", "killed"}
    /\ current \in 0 .. MaxPackets
    /\ client = "send" => current >= 1
    /\ Rising(ring) /\ Rising(toServer)
    /\ \A i \in 1 .. Len(ring), j \in 1 .. Len(toServer) : ring[i] < toServer[j]
    /\ \A i \in 1 .. Len(ring) : ring[i] <= Sent
    /\ \A j \in 1 .. Len(toServer) : toServer[j] <= Sent

LEMMA InitInOrder == Init => InOrder
<1> SUFFICES ASSUME Init PROVE InOrder
  OBVIOUS
<1>1. ring = << >> /\ toServer = << >> /\ Len(ring) = 0 /\ Len(toServer) = 0
  BY DEF Init
<1>2. /\ \A i \in 1 .. Len(ring) : FALSE
      /\ \A j \in 1 .. Len(toServer) : FALSE
  BY <1>1
<1>3. client = "ready" /\ current \in 0 .. MaxPackets
  BY LinkAssumption DEF Init
<1> QED
  BY <1>1, <1>2, <1>3 DEF InOrder, Rising

(* One more at the end, larger than all before it. *)
LEMMA RisingOn ==
    ASSUME NEW s \in Seq(Packets), NEW e \in Packets, Rising(s),
           \A i \in 1 .. Len(s) : s[i] < e
    PROVE  /\ Append(s, e) \in Seq(Packets) /\ Len(Append(s, e)) = Len(s) + 1
           /\ Append(s, e)[Len(s) + 1] = e
           /\ \A i \in 1 .. Len(s) : Append(s, e)[i] = s[i]
           /\ Rising(Append(s, e))
<1>1. Len(s) \in Nat /\ Append(s, e) \in Seq(Packets) /\ Len(Append(s, e)) = Len(s) + 1
  OBVIOUS
<1>2. /\ Append(s, e)[Len(s) + 1] = e
      /\ \A i \in 1 .. Len(s) : Append(s, e)[i] = s[i]
  BY <1>1
<1>3. ASSUME NEW i \in 1 .. Len(Append(s, e)), NEW j \in 1 .. Len(Append(s, e)), i < j
      PROVE  Append(s, e)[i] < Append(s, e)[j]
  <2>1. i \in 1 .. Len(s) /\ (j \in 1 .. Len(s) \/ j = Len(s) + 1)
    BY <1>1, <1>3
  <2>2. CASE j \in 1 .. Len(s)
    BY <1>2, <1>3, <2>1, <2>2 DEF Rising
  <2>3. CASE j = Len(s) + 1
    BY <1>2, <2>1, <2>3
  <2> QED
    BY <2>1, <2>2, <2>3
<1> QED
  BY <1>1, <1>2, <1>3 DEF Rising

(* The first taken away. *)
LEMMA RisingTail ==
    ASSUME NEW s \in Seq(Packets), s # << >>, Rising(s)
    PROVE  /\ Len(s) \in Nat /\ Len(s) >= 1 /\ Head(s) = s[1] /\ s[1] \in Packets
           /\ Tail(s) \in Seq(Packets) /\ Len(Tail(s)) = Len(s) - 1
           /\ \A i \in 1 .. Len(Tail(s)) : i + 1 \in 1 .. Len(s) /\ Tail(s)[i] = s[i + 1]
           /\ \A i \in 1 .. Len(Tail(s)) : s[1] < Tail(s)[i]
           /\ Rising(Tail(s))
<1>1. /\ Len(s) \in Nat /\ Len(s) >= 1 /\ Head(s) = s[1] /\ s[1] \in Packets
      /\ Tail(s) \in Seq(Packets) /\ Len(Tail(s)) = Len(s) - 1
  OBVIOUS
<1>2. \A i \in 1 .. Len(Tail(s)) : i + 1 \in 1 .. Len(s) /\ Tail(s)[i] = s[i + 1]
  BY <1>1
<1>3. \A i \in 1 .. Len(Tail(s)) : s[1] < Tail(s)[i]
  <2>1. 1 \in 1 .. Len(s) /\ \A i \in 1 .. Len(Tail(s)) : 1 < i + 1
    BY <1>1
  <2> QED
    BY <1>2, <2>1 DEF Rising
<1>4. Rising(Tail(s))
  <2>1. \A i, j \in 1 .. Len(Tail(s)) : i < j => i + 1 < j + 1
    BY <1>1
  <2> QED
    BY <1>2, <2>1 DEF Rising
<1> QED
  BY <1>1, <1>2, <1>3, <1>4

LEMMA RecordsAreNumbers ==
    ASSUME NEW s \in Seq(Packets)
    PROVE  \A i \in 1 .. Len(s) : s[i] \in Nat
<1>1. \A i \in 1 .. Len(s) : s[i] \in Packets
  OBVIOUS
<1>2. Packets \subseteq Nat
  BY DEF Packets
<1> QED
  BY <1>1, <1>2

LEMMA StepInOrder == InOrder /\ [Next]_vars => InOrder'
<1> SUFFICES ASSUME InOrder, [Next]_vars PROVE InOrder'
  OBVIOUS
<1> USE DEF clientVars, serverVars, vars
<1>1. CASE Write
  <2>1. /\ UNCHANGED <<ring, toServer>> /\ client = "ready" /\ client' = "send"
        /\ current' = current + 1 /\ current' \in 0 .. MaxPackets /\ current' >= 1
    BY <1>1, LinkAssumption DEF Write, InOrder
  <2>2. Sent' = Sent
    BY <2>1 DEF Sent, InOrder
  <2> QED
    BY <2>1, <2>2 DEF InOrder, Rising
<1>2. CASE SendPacket
  <2>1. /\ UNCHANGED <<ring, current>> /\ client = "send" /\ client' = "receive"
        /\ current \in Packets /\ current \in Nat /\ Sent = current - 1 /\ Sent' = current
    BY <1>2, LinkAssumption DEF SendPacket, InOrder, Sent, Packets
  <2>2. \A i \in 1 .. Len(ring) : ring[i] \in Nat /\ ring[i] <= Sent' /\ ring[i] < current
    BY <2>1, RecordsAreNumbers DEF InOrder
  <2>3. \A j \in 1 .. Len(toServer) : toServer[j] \in Nat /\ toServer[j] <= Sent' /\ toServer[j] < current
    BY <2>1, RecordsAreNumbers DEF InOrder
  <2>4. CASE server = "closed"
    <3>1. toServer' = toServer
      BY <1>2, <2>4 DEF SendPacket
    <3> QED
      BY <2>1, <2>2, <2>3, <3>1 DEF InOrder, Rising
  <2>5. CASE server # "closed"
    <3>1. toServer' = Append(toServer, current)
      BY <1>2, <2>5 DEF SendPacket
    <3>2. /\ toServer' \in Seq(Packets) /\ Len(toServer') = Len(toServer) + 1
          /\ toServer'[Len(toServer) + 1] = current
          /\ \A i \in 1 .. Len(toServer) : toServer'[i] = toServer[i]
          /\ Rising(toServer') /\ Len(toServer) \in Nat
      BY <2>1, <2>3, <3>1, RisingOn DEF InOrder
    <3>3. \A j \in 1 .. Len(toServer') : j \in 1 .. Len(toServer) \/ j = Len(toServer) + 1
      BY <3>2
    <3>4. \A i \in 1 .. Len(ring'), j \in 1 .. Len(toServer') : ring'[i] < toServer'[j]
      BY <2>1, <2>2, <3>2, <3>3 DEF InOrder
    <3>5. \A j \in 1 .. Len(toServer') : toServer'[j] <= Sent'
      BY <2>1, <2>3, <3>2, <3>3
    <3> QED
      BY <2>1, <2>2, <3>2, <3>4, <3>5 DEF InOrder, Rising
  <2> QED
    BY <2>4, <2>5
<1>3. CASE Store
  <2>1. /\ UNCHANGED <<client, current>> /\ Sent' = Sent /\ toServer # << >>
        /\ ring' = Append(ring, Head(toServer)) /\ toServer' = Tail(toServer)
    BY <1>3 DEF Store, Sent
  <2>2. /\ Len(toServer) >= 1 /\ Len(toServer) \in Nat /\ Head(toServer) = toServer[1]
        /\ toServer[1] \in Packets /\ toServer' \in Seq(Packets) /\ Rising(toServer')
        /\ \A i \in 1 .. Len(toServer') : i + 1 \in 1 .. Len(toServer) /\ toServer'[i] = toServer[i + 1]
        /\ \A i \in 1 .. Len(toServer') : toServer[1] < toServer'[i]
    BY <2>1, RisingTail DEF InOrder
  <2>3. 1 \in 1 .. Len(toServer) /\ toServer[1] <= Sent
    BY <2>2 DEF InOrder
  <2>4. \A i \in 1 .. Len(ring) : ring[i] < toServer[1]
    BY <2>3 DEF InOrder
  <2>5. /\ ring' \in Seq(Packets) /\ Len(ring') = Len(ring) + 1 /\ Len(ring) \in Nat
        /\ ring'[Len(ring) + 1] = toServer[1]
        /\ \A i \in 1 .. Len(ring) : ring'[i] = ring[i]
        /\ Rising(ring')
    BY <2>1, <2>2, <2>4, RisingOn DEF InOrder
  <2>6. \A i \in 1 .. Len(ring') : i \in 1 .. Len(ring) \/ i = Len(ring) + 1
    BY <2>5
  <2>7. \A i \in 1 .. Len(ring'), j \in 1 .. Len(toServer') : ring'[i] < toServer'[j]
    BY <2>2, <2>5, <2>6 DEF InOrder
  <2>8. \A i \in 1 .. Len(ring') : ring'[i] <= Sent'
    BY <2>1, <2>3, <2>5, <2>6 DEF InOrder
  <2>9. \A j \in 1 .. Len(toServer') : toServer'[j] <= Sent'
    BY <2>1, <2>2 DEF InOrder
  <2> QED
    BY <2>1, <2>2, <2>5, <2>7, <2>8, <2>9 DEF InOrder
<1>4. CASE Refuse \/ CloseConnection
  <2>1. /\ UNCHANGED <<client, current, ring>> /\ Sent' = Sent
        /\ toServer' = << >> /\ Len(toServer') = 0
    BY <1>4 DEF Refuse, CloseConnection, Close, Sent
  <2>2. toServer' \in Seq(Packets) /\ \A j \in 1 .. Len(toServer') : FALSE
    BY <2>1
  <2> QED
    BY <2>1, <2>2 DEF InOrder, Rising
<1>5. CASE \/ SendFails \/ SendKills \/ ReceiveReply \/ ReceiveTimeout \/ ReceiveClosed
           \/ Reply \/ Reset \/ Ended \/ UNCHANGED vars
  <2>1. /\ UNCHANGED <<current, ring, toServer>>
        /\ client' = client \/ client' \in {"ready", "killed"}
    BY <1>5 DEF SendFails, SendKills, ReceiveReply, ReceiveTimeout, ReceiveClosed, Return,
                Reply, Reset, Ended
  <2>2. Sent' \in Int /\ Sent \in Int /\ Sent <= Sent'
    BY <2>1 DEF InOrder, Sent
  <2>3. \A i \in 1 .. Len(ring) : ring[i] \in Int /\ ring[i] <= Sent'
    BY <2>2, RecordsAreNumbers DEF InOrder
  <2>4. \A j \in 1 .. Len(toServer) : toServer[j] \in Int /\ toServer[j] <= Sent'
    BY <2>2, RecordsAreNumbers DEF InOrder
  <2> QED
    BY <2>1, <2>3, <2>4 DEF InOrder, Rising
<1> QED
  BY <1>1, <1>2, <1>3, <1>4, <1>5 DEF Next, Client, Server

(* Whatever comes late, is refused or is cut off (Timely or not), the ring *)
(* holds no record twice and none before an earlier one: dl_write never    *)
(* sends a record again (pack.c: ms_record_2_dlserver).                    *)
THEOREM NeverTwice == Spec => []StoredOnceInOrder
<1>1. InOrder => StoredOnceInOrder
  <2> SUFFICES ASSUME InOrder PROVE StoredOnceInOrder
    OBVIOUS
  <2>1. DOMAIN ring = 1 .. Len(ring)
    BY DEF InOrder
  <2> QED
    BY <2>1 DEF InOrder, Rising, StoredOnceInOrder
<1> QED
  BY <1>1, InitInOrder, StepInOrder, PTL DEF Spec

-----------------------------------------------------------------------------
(* Whose reply comes next, whether the server is timely or not.            *)

(* The record whose reply is taken next. *)
Turn == IF client = "ready" THEN current + 1 ELSE current

(* The record the next reply at hand is for. *)
First == Turn - FailedBefore(Turn)

(* No reply will be taken any more: the next send raises SIGPIPE. *)
Hopeless == socket = "broken" /\ client # "receive"

(* No result and no reply before its turn. *)
ToCome == \A k \in Packets : k >= Turn => result[k] = "none" /\ answered[k] = 0

(* An ERROR is the last a server says. *)
LastWord ==
    \A i \in 1 .. Len(toClient) :
        toClient[i].status = "ERROR" => i = Len(toClient) /\ server = "closed"

(* Replies come for one record after the other. *)
RepliesRun == ~Hopeless => \A i \in 1 .. Len(toClient) : toClient[i].packet = First + i - 1

(* While the connection is open, every record sent is in the ring or under *)
(* way to it, and every record in the ring is answered.                    *)
NoneMissing ==
    server # "closed" =>
        /\ socket = "ok"
        /\ Len(ring) + Len(toServer) = Sent
        /\ \A i \in 1 .. Len(ring) : ring[i] = i
        /\ \A i \in 1 .. Len(toServer) : toServer[i] = Len(ring) + i
        /\ First + Len(toClient) = (IF server = "open" THEN Len(ring) + 1 ELSE Len(ring))
        /\ server = "replying" => Len(ring) >= 1

Skew == TypeOK /\ (client # "ready" => current >= 1)
          /\ ToCome /\ LastWord /\ RepliesRun /\ NoneMissing /\ AckSkew

Failures(r, k) == {j \in Packets : j < k /\ r[j] = "fail"}

LEMMA FailuresAreNat ==
    ASSUME NEW r, NEW k
    PROVE  IsFiniteSet(Failures(r, k)) /\ Cardinality(Failures(r, k)) \in Nat
<1>1. IsFiniteSet(Packets)
  BY FS_Interval, LinkAssumption DEF Packets
<1>2. Failures(r, k) \in SUBSET Packets
  BY DEF Failures
<1> QED
  BY <1>1, <1>2, FS_Subset, FS_CardinalityType

LEMMA FailuresCount ==
    ASSUME NEW r, NEW k \in Packets
    PROVE  Cardinality(Failures(r, k + 1)) =
             (IF r[k] = "fail" THEN Cardinality(Failures(r, k)) + 1 ELSE Cardinality(Failures(r, k)))
<1>1. k \in Nat /\ \A j \in Packets : j \in Nat
  BY DEF Packets
<1>2. \A j \in Packets : j < k + 1 <=> j < k \/ j = k
  BY <1>1
<1>3. CASE r[k] = "fail"
  <2>1. k \notin Failures(r, k)
    BY <1>1 DEF Failures
  <2>2. \A j : j \in Failures(r, k + 1) <=> j \in Failures(r, k) \/ j = k
    BY <1>2, <1>3 DEF Failures
  <2>3. Failures(r, k + 1) = Failures(r, k) \cup {k}
    BY <2>2
  <2> QED
    BY <1>3, <2>1, <2>3, FailuresAreNat, FS_AddElement
<1>4. CASE r[k] # "fail"
  <2>1. Failures(r, k + 1) = Failures(r, k)
    BY <1>2, <1>4 DEF Failures
  <2> QED
    BY <1>4, <2>1
<1> QED
  BY <1>3, <1>4

LEMMA SameFailures ==
    ASSUME NEW k \in Nat, \A j \in Packets : j < k => result'[j] = result[j]
    PROVE  FailedBefore(k)' = FailedBefore(k) /\ FailedBefore(k) \in Nat
<1>1. Failures(result', k) = Failures(result, k)
  BY DEF Failures
<1>2. /\ FailedBefore(k) = Cardinality(Failures(result, k))
      /\ FailedBefore(k)' = Cardinality(Failures(result', k))
  BY DEF FailedBefore, Failures
<1> QED
  BY <1>1, <1>2, FailuresAreNat

(* What a step means for the count when it changes no result... *)
LEMMA SameFirst ==
    ASSUME TypeOK, UNCHANGED <<Turn, result>>
    PROVE  First' = First /\ First \in Int /\ \A k \in Packets : FailedBefore(k)' = FailedBefore(k)
<1>1. PICK t \in Nat : t = Turn
  BY LinkAssumption DEF TypeOK, Turn
<1>2. FailedBefore(t)' = FailedBefore(t) /\ FailedBefore(t) \in Nat
  BY SameFailures
<1>3. First = t - FailedBefore(t) /\ First' = t - FailedBefore(t)'
  BY <1>1 DEF First
<1>4. \A k \in Packets : FailedBefore(k)' = FailedBefore(k)
  BY SameFailures DEF Packets
<1> QED
  BY <1>1, <1>2, <1>3, <1>4

(* ... and when the record at hand gets its result. *)
LEMMA NextFirst ==
    ASSUME TypeOK, current \in Packets, client # "ready", client' = "ready", current' = current,
           NEW value \in {"ok", "fail"}, result' = [result EXCEPT ![current] = value]
    PROVE  /\ First \in Int /\ Turn = current /\ Turn' = current + 1
           /\ First = current - FailedBefore(current)
           /\ First' = (IF value = "fail" THEN First ELSE First + 1)
           /\ \A k \in Packets : k <= current => FailedBefore(k)' = FailedBefore(k)
<1>1. PICK c \in Packets : c = current
  OBVIOUS
<1>2. c \in Nat /\ \A k \in Packets : k \in Nat
  BY DEF Packets
<1>3. Turn = c /\ Turn' = c + 1
  BY <1>1 DEF Turn
<1>4. First = c - FailedBefore(c)
  BY <1>3 DEF First
<1>5. First' = (c + 1) - FailedBefore(c + 1)'
  BY <1>3 DEF First
<1>6. result'[c] = value /\ \A j \in Packets : j # c => result'[j] = result[j]
  BY <1>1 DEF TypeOK
<1>7. ASSUME NEW k \in Packets, k <= c
      PROVE  FailedBefore(k)' = FailedBefore(k) /\ FailedBefore(k) \in Nat
  <2>1. \A j \in Packets : j < k => result'[j] = result[j]
    BY <1>2, <1>6, <1>7
  <2> QED
    BY <1>2, <2>1, SameFailures
<1>8. FailedBefore(c) \in Nat /\ FailedBefore(c)' = FailedBefore(c)
  BY <1>2, <1>7
<1>9. FailedBefore(c + 1)' = (IF result'[c] = "fail" THEN FailedBefore(c)' + 1 ELSE FailedBefore(c)')
  <2>1. /\ FailedBefore(c)' = Cardinality(Failures(result', c))
        /\ FailedBefore(c + 1)' = Cardinality(Failures(result', c + 1))
    BY DEF FailedBefore, Failures
  <2> QED
    BY <2>1, FailuresCount
<1>10. First' = (IF value = "fail" THEN First ELSE First + 1)
  BY <1>2, <1>4, <1>5, <1>6, <1>8, <1>9
<1> QED
  BY <1>1, <1>2, <1>3, <1>4, <1>7, <1>8, <1>10

LEMMA InitSkew == Init => Skew
<1> SUFFICES ASSUME Init PROVE Skew
  OBVIOUS
<1>1. TypeOK
  BY LinkAssumption, SMT DEF Init, TypeOK
<1>2. /\ client = "ready" /\ current = 0 /\ server = "open" /\ socket = "ok" /\ ring = << >>
      /\ toServer = << >> /\ toClient = << >> /\ Len(ring) = 0 /\ Len(toServer) = 0 /\ Len(toClient) = 0
      /\ \A k \in Packets : result[k] = "none" /\ answered[k] = 0
  BY DEF Init
<1>3. Turn = 1 /\ Sent = 0
  BY <1>2 DEF Turn, Sent
<1>4. FailedBefore(1) = 0
  <2>1. Failures(result, 1) = {}
    BY <1>2 DEF Failures
  <2> QED
    BY <2>1, FS_EmptySet DEF FailedBefore, Failures
<1>5. First = 1
  BY <1>3, <1>4 DEF First
<1>6. \A i \in 1 .. 0 : FALSE
  OBVIOUS
<1>7. ToCome /\ LastWord /\ RepliesRun /\ NoneMissing /\ AckSkew
  BY <1>2, <1>3, <1>5, <1>6 DEF ToCome, LastWord, RepliesRun, NoneMissing, AckSkew
<1> QED
  BY <1>1, <1>2, <1>7 DEF Skew

(* Steps that take no reply and give no result. *)
LEMMA QuietSkew ==
    ASSUME Skew, UNCHANGED <<Turn, result, answered>>
    PROVE  ToCome' /\ AckSkew' /\ First' = First /\ First \in Int
<1>1. First' = First /\ First \in Int /\ \A k \in Packets : FailedBefore(k)' = FailedBefore(k)
  BY SameFirst DEF Skew
<1>2. ToCome'
  BY DEF Skew, ToCome
<1>3. AckSkew'
  BY <1>1 DEF Skew, AckSkew
<1> QED
  BY <1>1, <1>2, <1>3

LEMMA LinkTypes ==
    ASSUME TypeOK
    PROVE  /\ current \in Nat /\ Len(ring) \in Nat /\ Len(toServer) \in Nat /\ Len(toClient) \in Nat
           /\ Sent \in Int /\ Sent <= current /\ Turn \in Nat
           /\ client # "ready" /\ current >= 1 => current \in Packets
BY LinkAssumption, SMT DEF TypeOK, Sent, Turn, Packets

LEMMA WriteSkew ==
    ASSUME Skew, Write
    PROVE  Skew'
<1>1. /\ UNCHANGED <<result, answered, socket, server, ring, toServer, toClient>>
      /\ client = "ready" /\ client' = "send" /\ current' = current + 1 /\ current' \in 0 .. MaxPackets
      /\ current' >= 1 /\ Len(ring) <= current'
  BY LinkTypes, LinkAssumption DEF Write, serverVars, Skew, TypeOK
<1>2. Turn' = Turn /\ Sent' = Sent
  BY <1>1, LinkTypes DEF Turn, Sent, Skew
<1>3. ToCome' /\ AckSkew' /\ First' = First
  BY <1>1, <1>2, QuietSkew
<1>4. TypeOK'
  BY <1>1 DEF Skew, TypeOK
<1> QED
  BY <1>1, <1>2, <1>3, <1>4 DEF Skew, LastWord, RepliesRun, NoneMissing, Hopeless

LEMMA SendPacketSkew ==
    ASSUME Skew, SendPacket
    PROVE  Skew'
<1>1. /\ UNCHANGED <<current, result, answered, server, ring, toClient>>
      /\ client = "send" /\ client' = "receive" /\ socket # "broken" /\ socket' # "broken"
      /\ server # "closed" => socket' = socket
      /\ socket' \in {"ok", "probed", "aborted"}
  BY DEF SendPacket, serverVars
<1>2. Turn' = Turn /\ Sent = current - 1 /\ Sent' = current /\ current \in Packets /\ current \in Nat
  BY <1>1, LinkTypes DEF Turn, Sent, Skew
<1>3. ToCome' /\ AckSkew' /\ First' = First
  BY <1>1, <1>2, QuietSkew
<1>4. toServer' \in Seq(Packets)
  BY <1>2 DEF SendPacket, Skew, TypeOK
<1>5. TypeOK' /\ LastWord' /\ RepliesRun'
  BY <1>1, <1>3, <1>4 DEF Skew, TypeOK, LastWord, RepliesRun, Hopeless
<1>6. NoneMissing'
  <2> SUFFICES ASSUME server # "closed" PROVE NoneMissing'
    BY <1>1 DEF NoneMissing
  <2>1. /\ Len(ring) + Len(toServer) = current - 1 /\ socket' = "ok"
        /\ \A i \in 1 .. Len(toServer) : toServer[i] = Len(ring) + i
    BY <1>1, <1>2 DEF Skew, NoneMissing
  <2>2. toServer' = Append(toServer, current) /\ toServer \in Seq(Packets)
    BY DEF SendPacket, Skew, TypeOK
  <2>3. /\ Len(toServer') = Len(toServer) + 1 /\ toServer'[Len(toServer) + 1] = current
        /\ \A i \in 1 .. Len(toServer) : toServer'[i] = toServer[i]
        /\ Len(toServer) \in Nat /\ Len(ring) \in Nat
    BY <1>2, <2>2, LinkTypes DEF Skew
  <2>4. \A i \in 1 .. Len(toServer') : i \in 1 .. Len(toServer) \/ i = Len(toServer) + 1
    BY <2>3
  <2>5. \A i \in 1 .. Len(toServer') : toServer'[i] = Len(ring) + i
    BY <1>2, <2>1, <2>3, <2>4
  <2>6. Len(ring) + Len(toServer') = current
    BY <1>2, <2>1, <2>3
  <2> QED
    BY <1>1, <1>2, <1>3, <2>1, <2>5, <2>6 DEF Skew, NoneMissing
<1> QED
  BY <1>1, <1>2, <1>3, <1>5, <1>6 DEF Skew

(* Steps of the server, the reset and the client's end. *)
LEMMA KilledSkew ==
    ASSUME Skew, SendKills \/ Ended \/ UNCHANGED vars
    PROVE  Skew'
<1> USE DEF vars, clientVars, serverVars
<1>1. CASE SendKills
  <2>1. /\ UNCHANGED <<current, result, answered, socket, server, ring, toServer, toClient>>
        /\ client = "send" /\ client' = "killed" /\ socket = "broken"
    BY <1>1 DEF SendKills
  <2>2. Turn' = Turn
    BY <2>1 DEF Turn
  <2>3. ToCome' /\ AckSkew'
    BY <2>1, <2>2, QuietSkew
  <2>4. server = "closed"
    BY <2>1 DEF Skew, NoneMissing
  <2>5. TypeOK' /\ LastWord' /\ RepliesRun' /\ NoneMissing'
    BY <2>1, <2>4 DEF Skew, TypeOK, LastWord, RepliesRun, NoneMissing, Hopeless
  <2> QED
    BY <2>1, <2>3, <2>5 DEF Skew
<1>2. CASE Ended \/ UNCHANGED vars
  <2>1. UNCHANGED vars
    BY <1>2 DEF Ended
  <2>2. UNCHANGED <<Turn, Sent>>
    BY <2>1 DEF Turn, Sent
  <2>3. ToCome' /\ AckSkew' /\ First' = First
    BY <2>1, <2>2, QuietSkew
  <2> QED
    BY <2>1, <2>2, <2>3 DEF Skew, TypeOK, LastWord, RepliesRun, NoneMissing, Hopeless
<1> QED
  BY <1>1, <1>2

LEMMA ServerTurns ==
    ASSUME UNCHANGED clientVars
    PROVE  UNCHANGED <<client, current, result, answered, Turn, Sent>>
BY DEF clientVars, Turn, Sent

LEMMA StoreSkew ==
    ASSUME Skew, Store
    PROVE  Skew'
<1>1. /\ UNCHANGED <<client, current, result, answered, Turn, Sent, socket, toClient>>
      /\ server = "open" /\ server' = "replying" /\ toServer # << >>
      /\ ring' = Append(ring, Head(toServer)) /\ toServer' = Tail(toServer)
  BY ServerTurns DEF Store
<1>2. ToCome' /\ AckSkew' /\ First' = First /\ First \in Int
  BY <1>1, QuietSkew
<1>3. /\ Len(toServer) \in Nat /\ Len(toServer) >= 1 /\ Head(toServer) = toServer[1]
      /\ toServer[1] \in Packets /\ Len(toServer') = Len(toServer) - 1 /\ toServer' \in Seq(Packets)
      /\ \A i \in 1 .. Len(toServer') : i + 1 \in 1 .. Len(toServer) /\ toServer'[i] = toServer[i + 1]
  <2>1. toServer \in Seq(Packets)
    BY DEF Skew, TypeOK
  <2>2. /\ Len(toServer) \in Nat /\ Len(toServer) >= 1 /\ Head(toServer) = toServer[1]
        /\ toServer[1] \in Packets /\ Len(toServer') = Len(toServer) - 1 /\ toServer' \in Seq(Packets)
    BY <1>1, <2>1
  <2> QED
    BY <1>1, <2>1, <2>2
<1>4. /\ Len(ring') = Len(ring) + 1 /\ ring'[Len(ring) + 1] = toServer[1] /\ ring' \in Seq(Packets)
      /\ \A i \in 1 .. Len(ring) : ring'[i] = ring[i]
      /\ Len(ring) \in Nat
  BY <1>1, <1>3 DEF Skew, TypeOK
<1>5. /\ socket = "ok" /\ Len(ring) + Len(toServer) = Sent /\ toServer[1] = Len(ring) + 1
      /\ First + Len(toClient) = Len(ring) + 1
  BY <1>1, <1>3 DEF Skew, NoneMissing
<1>6. Sent \in Int /\ Sent <= current /\ current \in Nat
  BY LinkTypes DEF Skew
<1>7. Len(ring') <= current
  BY <1>3, <1>4, <1>5, <1>6
<1>8. TypeOK'
  BY <1>1, <1>3, <1>4, <1>7 DEF Skew, TypeOK
<1>9. LastWord' /\ RepliesRun'
  BY <1>1, <1>2 DEF Skew, LastWord, RepliesRun, Hopeless
<1>10. NoneMissing'
  <2>1. \A i \in 1 .. Len(ring') : i \in 1 .. Len(ring) \/ i = Len(ring) + 1
    BY <1>4
  <2>2. \A i \in 1 .. Len(ring') : ring'[i] = i
    BY <1>1, <1>4, <1>5, <2>1 DEF Skew, NoneMissing
  <2>3. \A i \in 1 .. Len(toServer') : toServer'[i] = Len(ring) + (i + 1)
    BY <1>1, <1>3 DEF Skew, NoneMissing
  <2>4. \A i \in 1 .. Len(toServer') : toServer'[i] = Len(ring') + i
    BY <1>4, <2>3
  <2>5. Len(ring') + Len(toServer') = Sent /\ First + Len(toClient) = Len(ring') /\ Len(ring') >= 1
    BY <1>3, <1>4, <1>5
  <2> QED
    BY <1>1, <1>2, <1>5, <2>2, <2>4, <2>5 DEF NoneMissing
<1> QED
  BY <1>1, <1>2, <1>8, <1>9, <1>10 DEF Skew

(* A reply joins those at hand. *)
LEMMA OneMoreReply ==
    ASSUME Skew, UNCHANGED <<Turn, result, answered>>, NEW status \in {"OK", "ERROR"}, NEW k \in Packets,
           toClient' = Append(toClient, [status |-> status, packet |-> k]),
           k = First + Len(toClient), server # "closed",
           status = "ERROR" => server' = "closed", socket' # "broken"
    PROVE  /\ toClient' \in Seq([status : {"OK", "ERROR"}, packet : Packets])
           /\ Len(toClient') = Len(toClient) + 1
           /\ LastWord' /\ RepliesRun'
<1>1. First' = First /\ First \in Int
  BY QuietSkew
<1>2. /\ toClient' \in Seq([status : {"OK", "ERROR"}, packet : Packets])
      /\ Len(toClient') = Len(toClient) + 1 /\ Len(toClient) \in Nat
      /\ toClient'[Len(toClient) + 1] = [status |-> status, packet |-> k]
      /\ \A i \in 1 .. Len(toClient) : toClient'[i] = toClient[i]
  BY DEF Skew, TypeOK
<1>3. \A i \in 1 .. Len(toClient') : i \in 1 .. Len(toClient) \/ i = Len(toClient) + 1
  BY <1>2
<1>4. \A i \in 1 .. Len(toClient) : toClient[i].status # "ERROR"
  BY DEF Skew, LastWord
<1>5. LastWord'
  BY <1>2, <1>3, <1>4 DEF LastWord
<1>6. ~Hopeless
  BY DEF Skew, NoneMissing, Hopeless
<1>7. \A i \in 1 .. Len(toClient) : toClient'[i].packet = First + i - 1
  BY <1>2, <1>6 DEF Skew, RepliesRun
<1>8. toClient'[Len(toClient) + 1].packet = First + (Len(toClient) + 1) - 1
  BY <1>1, <1>2
<1>9. RepliesRun'
  BY <1>1, <1>3, <1>7, <1>8 DEF RepliesRun
<1> QED
  BY <1>2, <1>5, <1>9

LEMMA ReplySkew ==
    ASSUME Skew, Reply
    PROVE  Skew'
<1>1. /\ UNCHANGED <<client, current, result, answered, Turn, Sent, socket, ring, toServer>>
      /\ server = "replying" /\ server' = "open"
      /\ toClient' = Append(toClient, [status |-> "OK", packet |-> ring[Len(ring)]])
  BY ServerTurns DEF Reply, OK
<1>2. ToCome' /\ AckSkew' /\ First' = First /\ First \in Int
  BY <1>1, QuietSkew
<1>3. /\ socket = "ok" /\ Len(ring) + Len(toServer) = Sent /\ Len(ring) >= 1
      /\ \A i \in 1 .. Len(ring) : ring[i] = i
      /\ \A i \in 1 .. Len(toServer) : toServer[i] = Len(ring) + i
      /\ First + Len(toClient) = Len(ring)
  BY <1>1 DEF Skew, NoneMissing
<1>4. Len(ring) \in Nat /\ Len(ring) \in 1 .. Len(ring) /\ Len(toClient) \in Nat
  BY <1>3, LinkTypes DEF Skew
<1>5. ring[Len(ring)] = Len(ring) /\ ring[Len(ring)] \in Packets
  BY <1>3, <1>4 DEF Skew, TypeOK
<1>6. /\ toClient' \in Seq([status : {"OK", "ERROR"}, packet : Packets])
      /\ Len(toClient') = Len(toClient) + 1
      /\ LastWord' /\ RepliesRun'
  BY <1>1, <1>3, <1>5, OneMoreReply
<1>7. TypeOK'
  BY <1>1, <1>6 DEF Skew, TypeOK
<1>8. First + Len(toClient') = Len(ring) + 1
  BY <1>2, <1>3, <1>4, <1>6
<1>9. NoneMissing'
  BY <1>1, <1>2, <1>3, <1>8 DEF NoneMissing
<1> QED
  BY <1>1, <1>2, <1>6, <1>7, <1>9 DEF Skew

LEMMA RefuseSkew ==
    ASSUME Skew, Refuse
    PROVE  Skew'
<1>1. /\ UNCHANGED <<client, current, result, answered, Turn, Sent, ring>>
      /\ server = "open" /\ server' = "closed" /\ toServer # << >> /\ toServer' = << >>
      /\ toClient' = Append(toClient, [status |-> "ERROR", packet |-> Head(toServer)])
      /\ socket' = socket \/ socket' \in {"probed", "aborted"}
  BY ServerTurns DEF Refuse, ERROR, Close
<1>2. ToCome' /\ AckSkew' /\ First' = First /\ First \in Int
  BY <1>1, QuietSkew
<1>3. toServer \in Seq(Packets) /\ Head(toServer) = toServer[1] /\ toServer[1] \in Packets /\ 1 \in 1 .. Len(toServer)
  BY <1>1 DEF Skew, TypeOK
<1>4. socket = "ok" /\ toServer[1] = Len(ring) + 1 /\ First + Len(toClient) = Len(ring) + 1
  BY <1>1, <1>3 DEF Skew, NoneMissing
<1>5. /\ toClient' \in Seq([status : {"OK", "ERROR"}, packet : Packets])
      /\ LastWord' /\ RepliesRun'
  BY <1>1, <1>3, <1>4, OneMoreReply
<1>6. TypeOK'
  BY <1>1, <1>5 DEF Skew, TypeOK
<1>7. NoneMissing'
  BY <1>1 DEF NoneMissing
<1> QED
  BY <1>1, <1>2, <1>5, <1>6, <1>7 DEF Skew

LEMMA CloseSkew ==
    ASSUME Skew, CloseConnection
    PROVE  Skew'
<1>1. /\ UNCHANGED <<client, current, result, answered, Turn, Sent, ring, toClient>>
      /\ server # "closed" /\ server' = "closed" /\ toServer' = << >>
      /\ socket' = socket \/ socket' \in {"probed", "aborted"}
  BY ServerTurns DEF CloseConnection, Close
<1>2. ToCome' /\ AckSkew' /\ First' = First
  BY <1>1, QuietSkew
<1>3. TypeOK'
  BY <1>1 DEF Skew, TypeOK
<1>4. LastWord' /\ NoneMissing'
  BY <1>1 DEF Skew, LastWord, NoneMissing
<1>5. ~Hopeless
  BY <1>1 DEF Skew, NoneMissing, Hopeless
<1>6. RepliesRun'
  BY <1>1, <1>2, <1>5 DEF Skew, RepliesRun
<1> QED
  BY <1>1, <1>2, <1>3, <1>4, <1>6 DEF Skew

LEMMA ResetSkew ==
    ASSUME Skew, Reset
    PROVE  Skew'
<1>1. /\ UNCHANGED <<client, current, result, answered, Turn, Sent, server, ring, toServer, toClient>>
      /\ socket \in {"probed", "aborted"} /\ socket' \in {"broken", "error"}
  BY ServerTurns DEF Reset, serverVars
<1>2. ToCome' /\ AckSkew' /\ First' = First
  BY <1>1, QuietSkew
<1>3. server = "closed"
  BY <1>1 DEF Skew, NoneMissing
<1>4. TypeOK' /\ LastWord' /\ NoneMissing'
  BY <1>1, <1>3 DEF Skew, TypeOK, LastWord, NoneMissing
<1>5. ~Hopeless
  BY <1>1 DEF Hopeless
<1>6. RepliesRun'
  BY <1>1, <1>2, <1>5 DEF Skew, RepliesRun
<1> QED
  BY <1>1, <1>2, <1>4, <1>6 DEF Skew

LEMMA TakeFirst ==
    ASSUME NEW S, NEW s \in Seq(S), s # << >>
    PROVE  /\ Len(s) \in Nat /\ Len(s) >= 1 /\ Head(s) = s[1] /\ 1 \in 1 .. Len(s) /\ s[1] \in S
           /\ Tail(s) \in Seq(S) /\ Len(Tail(s)) = Len(s) - 1
           /\ \A i \in 1 .. Len(Tail(s)) : i + 1 \in 1 .. Len(s) /\ Tail(s)[i] = s[i + 1]
<1>1. /\ Len(s) \in Nat /\ Len(s) >= 1 /\ Head(s) = s[1] /\ 1 \in 1 .. Len(s) /\ s[1] \in S
      /\ Tail(s) \in Seq(S) /\ Len(Tail(s)) = Len(s) - 1
  OBVIOUS
<1>2. \A i \in 1 .. Len(Tail(s)) : i + 1 \in 1 .. Len(s) /\ Tail(s)[i] = s[i + 1]
  BY <1>1
<1> QED
  BY <1>1, <1>2

(* A call that fails without a reply: the replies stay one behind. *)
LEMMA FailSkew ==
    ASSUME Skew, client \in {"send", "receive"}, Return("fail"),
           UNCHANGED <<answered, server, ring, toServer>>,
           \/ UNCHANGED toClient /\ client = "receive"
           \/ socket' = "broken" /\ toClient' \in {<< >>, Tail(toClient)} /\ (toClient = << >> => toClient' = << >>)
                /\ server = "closed",
           socket' \in {"ok", "probed", "aborted", "error", "broken"},
           client = "send" => socket' = "broken",
           server # "closed" => socket' = socket
    PROVE  Skew'
<1>1. /\ current' = current /\ client' = "ready" /\ client # "ready"
      /\ result' = [result EXCEPT ![current] = "fail"]
  BY DEF Return
<1>2. current \in Packets /\ current \in Nat /\ current >= 1 /\ \A k \in Packets : k \in Nat
  BY <1>1, LinkTypes DEF Skew, Packets
<1>3. /\ First \in Int /\ Turn = current /\ Turn' = current + 1 /\ First' = First
      /\ \A k \in Packets : k <= current => FailedBefore(k)' = FailedBefore(k)
  BY <1>1, <1>2, NextFirst DEF Skew
<1>4. \A k \in Packets : k # current => result'[k] = result[k]
  BY <1>1 DEF Skew, TypeOK
<1>5. ToCome'
  BY <1>2, <1>3, <1>4 DEF Skew, ToCome
<1>6. AckSkew'
  <2>1. SUFFICES ASSUME NEW k \in Packets, answered[k] # 0
                 PROVE  answered[k] = k - FailedBefore(k)'
    BY DEF AckSkew
  <2>2. k <= current
    BY <1>2, <1>3, <2>1 DEF Skew, ToCome
  <2> QED
    BY <1>3, <2>1, <2>2 DEF Skew, AckSkew
<1>7. toClient' \in Seq([status : {"OK", "ERROR"}, packet : Packets])
  <2>1. toClient \in Seq([status : {"OK", "ERROR"}, packet : Packets])
    BY DEF Skew, TypeOK
  <2>2. CASE toClient = << >>
    BY <2>1, <2>2
  <2>3. CASE toClient # << >>
    <3>1. Tail(toClient) \in Seq([status : {"OK", "ERROR"}, packet : Packets])
      BY <2>1, <2>3, TakeFirst
    <3>2. toClient' = toClient \/ toClient' = << >> \/ toClient' = Tail(toClient)
      OBVIOUS
    <3>3. << >> \in Seq([status : {"OK", "ERROR"}, packet : Packets])
      OBVIOUS
    <3> QED
      BY <2>1, <3>1, <3>2, <3>3, Zenon
  <2> QED
    BY <2>2, <2>3
<1>8. TypeOK'
  BY <1>1, <1>7 DEF Skew, TypeOK
<1>9. CASE UNCHANGED toClient /\ client = "receive"
  <2>1. Sent' = Sent
    BY <1>1, <1>9 DEF Sent
  <2>2. LastWord' /\ NoneMissing'
    BY <1>3, <1>9, <2>1 DEF Skew, LastWord, NoneMissing
  <2>3. RepliesRun'
    BY <1>3, <1>9 DEF Skew, RepliesRun, Hopeless
  <2> QED
    BY <1>1, <1>5, <1>6, <1>8, <2>2, <2>3 DEF Skew
<1>10. CASE socket' = "broken" /\ server = "closed" /\ toClient' \in {<< >>, Tail(toClient)}
              /\ (toClient = << >> => toClient' = << >>)
  <2>1. Hopeless'
    BY <1>1, <1>10 DEF Hopeless
  <2>2. LastWord'
    <3>1. CASE toClient' = << >>
      BY <3>1 DEF LastWord
    <3>2. CASE toClient' # << >>
      <4>1. /\ toClient' = Tail(toClient) /\ toClient # << >>
            /\ toClient \in Seq([status : {"OK", "ERROR"}, packet : Packets])
        BY <1>10, <3>2 DEF Skew, TypeOK
      <4>2. Len(toClient) \in Nat /\ Len(toClient) >= 1 /\ Len(toClient') = Len(toClient) - 1
        BY <4>1, TakeFirst
      <4>3. \A i \in 1 .. Len(toClient') : i + 1 \in 1 .. Len(toClient) /\ toClient'[i] = toClient[i + 1]
        BY <4>1, TakeFirst
      <4>4. \A i \in 1 .. Len(toClient') : i + 1 = Len(toClient) => i = Len(toClient')
        BY <4>2
      <4> QED
        BY <1>10, <4>3, <4>4 DEF Skew, LastWord
    <3> QED
      BY <3>1, <3>2
  <2>3. RepliesRun' /\ NoneMissing'
    BY <1>10, <2>1 DEF RepliesRun, NoneMissing
  <2> QED
    BY <1>1, <1>5, <1>6, <1>8, <2>2, <2>3 DEF Skew
<1> QED
  BY <1>9, <1>10

LEMMA FailsSkew ==
    ASSUME Skew, SendFails \/ ReceiveTimeout \/ ReceiveClosed
    PROVE  Skew'
<1>1. CASE SendFails
  <2>1. server = "closed"
    BY <1>1 DEF SendFails, Skew, NoneMissing
  <2> QED
    BY <1>1, <2>1, FailSkew DEF SendFails, serverVars
<1>2. CASE ReceiveTimeout
  <2>1. socket \in {"ok", "probed", "aborted", "error", "broken"}
    BY DEF Skew, TypeOK
  <2> QED
    BY <1>2, <2>1, FailSkew DEF ReceiveTimeout, serverVars
<1>3. CASE ReceiveClosed
  <2>1. socket \in {"ok", "probed", "aborted", "error", "broken"}
    BY DEF Skew, TypeOK
  <2> QED
    BY <1>3, <2>1, FailSkew DEF ReceiveClosed, serverVars
<1> QED
  BY <1>1, <1>2, <1>3

(* The call takes the reply at hand for its own. *)
LEMMA ReceiveReplySkew ==
    ASSUME Skew, ReceiveReply
    PROVE  Skew'
<1> DEFINE reply == Head(toClient)
           value == IF reply.status = "OK" THEN "ok" ELSE "fail"
<1>1. /\ UNCHANGED <<current, socket, server, ring, toServer>>
      /\ client = "receive" /\ client' = "ready" /\ toClient # << >> /\ toClient' = Tail(toClient)
      /\ result' = [result EXCEPT ![current] = value]
      /\ answered' = [answered EXCEPT ![current] = reply.packet]
      /\ value \in {"ok", "fail"}
  BY DEF ReceiveReply, Return, serverVars
<1>2. current \in Packets /\ current \in Nat /\ \A k \in Packets : k \in Nat
  BY <1>1, LinkTypes DEF Skew, Packets
<1>3. /\ First \in Int /\ Turn = current /\ Turn' = current + 1
      /\ First = current - FailedBefore(current)
      /\ First' = (IF value = "fail" THEN First ELSE First + 1)
      /\ \A k \in Packets : k <= current => FailedBefore(k)' = FailedBefore(k)
  BY <1>1, <1>2, NextFirst DEF Skew
<1>4. /\ Len(toClient) \in Nat /\ Len(toClient) >= 1 /\ reply = toClient[1] /\ 1 \in 1 .. Len(toClient)
      /\ reply \in [status : {"OK", "ERROR"}, packet : Packets]
      /\ toClient' \in Seq([status : {"OK", "ERROR"}, packet : Packets])
      /\ Len(toClient') = Len(toClient) - 1
      /\ \A i \in 1 .. Len(toClient') : i + 1 \in 1 .. Len(toClient) /\ toClient'[i] = toClient[i + 1]
  <2>1. toClient \in Seq([status : {"OK", "ERROR"}, packet : Packets])
    BY DEF Skew, TypeOK
  <2> QED
    BY <1>1, <2>1, TakeFirst
<1>5. \A i \in 1 .. Len(toClient') : i + 1 \in 1 .. Len(toClient) /\ toClient'[i] = toClient[i + 1]
  BY <1>4
<1>6. ~Hopeless
  BY <1>1 DEF Hopeless
<1>7. reply.packet = First /\ reply.packet \in Packets
  BY <1>3, <1>4, <1>6 DEF Skew, RepliesRun
<1>8. /\ result'[current] = value /\ answered'[current] = reply.packet
      /\ \A k \in Packets : k # current => result'[k] = result[k] /\ answered'[k] = answered[k]
  BY <1>1, <1>2 DEF Skew, TypeOK
<1>9. ToCome'
  BY <1>2, <1>3, <1>8 DEF Skew, ToCome
<1>10. AckSkew'
  <2>1. SUFFICES ASSUME NEW k \in Packets, answered'[k] # 0
                 PROVE  answered'[k] = k - FailedBefore(k)'
    BY DEF AckSkew
  <2>2. CASE k = current
    BY <1>2, <1>3, <1>7, <1>8, <2>2
  <2>3. CASE k # current
    <3>1. answered'[k] = answered[k] /\ k <= current
      BY <1>2, <1>3, <1>8, <2>1, <2>3 DEF Skew, ToCome
    <3> QED
      BY <1>3, <2>1, <3>1 DEF Skew, AckSkew
  <2> QED
    BY <2>2, <2>3
<1>11. TypeOK'
  <2>1. reply.packet \in 0 .. MaxPackets
    BY <1>7 DEF Packets
  <2> QED
    BY <1>1, <1>4, <2>1 DEF Skew, TypeOK
<1>12. LastWord'
  <2>1. \A i \in 1 .. Len(toClient') : i + 1 = Len(toClient) => i = Len(toClient')
    BY <1>4
  <2> QED
    BY <1>1, <1>5, <2>1 DEF Skew, LastWord
<1>13. CASE value = "fail"
  <2>1. reply.status = "ERROR"
    BY <1>4, <1>13
  <2>2. Len(toClient) = 1 /\ server = "closed"
    BY <1>4, <2>1 DEF Skew, LastWord
  <2>3. \A i \in 1 .. Len(toClient') : FALSE
    BY <1>4, <2>2
  <2>4. RepliesRun' /\ NoneMissing'
    BY <1>1, <2>2, <2>3 DEF RepliesRun, NoneMissing
  <2> QED
    BY <1>1, <1>9, <1>10, <1>11, <1>12, <2>4 DEF Skew
<1>14. CASE value = "ok"
  <2>1. First' = First + 1 /\ Sent' = Sent
    BY <1>1, <1>3, <1>14 DEF Sent
  <2>2. \A i \in 1 .. Len(toClient') : toClient'[i].packet = First + (i + 1) - 1
    BY <1>5, <1>6 DEF Skew, RepliesRun
  <2>3. RepliesRun'
    BY <1>3, <2>1, <2>2 DEF RepliesRun
  <2>4. First' + Len(toClient') = First + Len(toClient)
    BY <1>3, <1>4, <2>1
  <2>5. NoneMissing'
    BY <1>1, <2>1, <2>4 DEF Skew, NoneMissing
  <2> QED
    BY <1>1, <1>9, <1>10, <1>11, <1>12, <2>3, <2>5 DEF Skew
<1> QED
  BY <1>13, <1>14

LEMMA SkewHolds == Spec => []Skew
<1>1. Skew /\ [Next]_vars => Skew'
  BY WriteSkew, SendPacketSkew, FailsSkew, KilledSkew, ReceiveReplySkew, StoreSkew, ReplySkew,
     RefuseSkew, CloseSkew, ResetSkew DEF Next, Client, Server
<1> QED
  BY <1>1, InitSkew, PTL DEF Spec

(* Every acknowledgement is for the record as many places earlier as       *)
(* writes failed before, whenever the server answers: dl_write (connection *)
(* .c) takes the next reply for its own and never drops a late one.        *)
THEOREM RepliesLagByFailures == Spec => []AckSkew
<1>1. Skew => AckSkew
  BY DEF Skew
<1> QED
  BY <1>1, SkewHolds, PTL

(* The variables keep their types; the ring never holds more than was      *)
(* written.                                                                *)
THEOREM TypeCorrect == Spec => []TypeOK
<1>1. Skew => TypeOK
  BY DEF Skew
<1> QED
  BY <1>1, SkewHolds, PTL
=============================================================================
