------------------------------ MODULE DataLink ------------------------------
(***************************************************************************)
(* Handing records to the ringserver: dl_write of libdali (with the sends  *)
(* and receives it is made of) on one side, ClientThread and HandleWrite   *)
(* of ringserver on the other, one TCP connection between them.            *)
(*                                                                         *)
(* The program connects once, at start.  It writes record after record,    *)
(* each with a request for an acknowledgement; a failed one is logged and  *)
(* never repeated (pack.c: ms_record_2_dlserver).  A reply does not say    *)
(* which record it is for: dl_write takes the next one that comes.         *)
(*                                                                         *)
(* The socket behaves as on Linux.  Data sent to a peer that has closed is *)
(* answered with a reset, and so is closing with unread data.  A reset     *)
(* that comes without the end of the stream (the server's process died)    *)
(* shows as an error of the next call.  After that, or when the reset came *)
(* behind the end of the stream, send raises SIGPIPE, for which the        *)
(* program has no handler.                                                 *)
(*                                                                         *)
(* Not modelled: sends that block.  The client has one small packet under  *)
(* way per minute at worst, so a server would have to stand still for      *)
(* hours to fill the socket's buffers.  Replies are read whole.            *)
(***************************************************************************)
EXTENDS Integers, Sequences, FiniteSets

CONSTANTS
    MaxPackets,     \* bound: records written
    Timely          \* the server answers within iotimeout, 60 s

ASSUME LinkAssumption ==
    /\ MaxPackets \in Nat
    /\ Timely \in BOOLEAN

Packets == 1 .. MaxPackets
OK(k) == [status |-> "OK", packet |-> k]
ERROR(k) == [status |-> "ERROR", packet |-> k]

VARIABLES
    client,         \* "ready", "send", "receive", "killed" by SIGPIPE
    current,        \* the record being written, or written last
    result,         \* what dl_write returned for each record
    answered,       \* history: the record whose reply it took, 0 for none
    socket,         \* the client's: "ok"; a reset is on its way behind the end
                    \* of the stream ("probed") or without one ("aborted");
                    \* an error is pending ("error"); send raises SIGPIPE ("broken")
    server,         \* its connection: "open", "replying", "closed"
    toServer,       \* packets sent and not yet read
    toClient,       \* replies sent and not yet read
    ring            \* the packets in the ring, in order

clientVars == <<client, current, result, answered>>
serverVars == <<server, ring>>
vars == <<clientVars, socket, serverVars, toServer, toClient>>

Stored == {ring[i] : i \in DOMAIN ring}

Init ==
    /\ client = "ready"
    /\ current = 0
    /\ result = [k \in Packets |-> "none"]
    /\ answered = [k \in Packets |-> 0]
    /\ socket = "ok"
    /\ server = "open"
    /\ toServer = << >>
    /\ toClient = << >>
    /\ ring = << >>

-----------------------------------------------------------------------------
(* The client *)

Write ==
    /\ client = "ready"
    /\ current < MaxPackets
    /\ current' = current + 1
    /\ client' = "send"
    /\ UNCHANGED <<result, answered, socket, serverVars, toServer, toClient>>

Return(value) ==
    /\ result' = [result EXCEPT ![current] = value]
    /\ client' = "ready"
    /\ UNCHANGED current

SendPacket ==
    /\ client = "send"
    /\ socket \in {"ok", "probed", "aborted"}
    /\ IF server = "closed"
       THEN socket' = (IF socket = "ok" THEN "probed" ELSE socket) /\ UNCHANGED toServer
       ELSE toServer' = Append(toServer, current) /\ UNCHANGED socket
    /\ client' = "receive"
    /\ UNCHANGED <<current, result, answered, serverVars, toClient>>

(* send reports the reset; a message that was still received is logged. *)
SendFails ==
    /\ client = "send"
    /\ socket = "error"
    /\ socket' = "broken"
    /\ toClient' = IF toClient = << >> THEN << >> ELSE Tail(toClient)
    /\ Return("fail")
    /\ UNCHANGED <<answered, serverVars, toServer>>

SendKills ==
    /\ client = "send"
    /\ socket = "broken"
    /\ client' = "killed"
    /\ UNCHANGED <<current, result, answered, socket, serverVars, toServer, toClient>>

(* Mutant: the status word is not looked at. *)
ReceiveReply_AnyStatus ==
    /\ client = "receive"
    /\ toClient # << >>
    /\ toClient' = Tail(toClient)
    /\ answered' = [answered EXCEPT ![current] = Head(toClient).packet]
    /\ Return("ok")
    /\ UNCHANGED <<socket, serverVars, toServer>>

(* dl_recvheader and dl_handlereply: the reply at hand decides. *)
ReceiveReply ==
    /\ client = "receive"
    /\ toClient # << >>
    /\ toClient' = Tail(toClient)
    /\ answered' = [answered EXCEPT ![current] = Head(toClient).packet]
    /\ Return(IF Head(toClient).status = "OK" THEN "ok" ELSE "fail")
    /\ UNCHANGED <<socket, serverVars, toServer>>

(* Mutant: the packet is sent once more after a timeout. *)
ReceiveTimeout_SendsAgain ==
    /\ ~Timely
    /\ client = "receive"
    /\ toClient = << >>
    /\ server # "closed"
    /\ client' = "send"
    /\ UNCHANGED <<current, result, answered, socket, serverVars, toServer, toClient>>

(* Nothing came for iotimeout seconds. *)
ReceiveTimeout ==
    /\ ~Timely
    /\ client = "receive"
    /\ toClient = << >>
    /\ server # "closed"
    /\ Return("fail")
    /\ UNCHANGED <<answered, socket, serverVars, toServer, toClient>>

(* Mutant: recv returning 0 is taken for "nothing yet". *)
ReceiveClosed_TriesAgain ==
    /\ client = "receive"
    /\ toClient = << >>
    /\ server = "closed"
    /\ UNCHANGED vars

(* recv returns 0, the peer has closed, or an error, the peer has reset. *)
ReceiveClosed ==
    /\ client = "receive"
    /\ toClient = << >>
    /\ server = "closed"
    /\ socket # "aborted"
    /\ socket' = IF socket = "error" THEN "broken" ELSE socket
    /\ Return("fail")
    /\ UNCHANGED <<answered, serverVars, toServer, toClient>>

-----------------------------------------------------------------------------
(* The server's thread for this connection *)

(* HandleWrite up to RingWrite. *)
Store ==
    /\ server = "open"
    /\ toServer # << >>
    /\ ring' = Append(ring, Head(toServer))
    /\ toServer' = Tail(toServer)
    /\ server' = "replying"
    /\ UNCHANGED <<clientVars, socket, toClient>>

Reply ==
    /\ server = "replying"
    /\ toClient' = Append(toClient, OK(ring[Len(ring)]))
    /\ server' = "open"
    /\ UNCHANGED <<clientVars, socket, ring, toServer>>

(* The connection goes; whatever was not read is answered with a reset. *)
Close(unread) ==
    /\ server' = "closed"
    /\ toServer' = << >>
    /\ IF unread = << >> THEN UNCHANGED socket ELSE socket' \in {"probed", "aborted"}

(* Mutant: the connection stays open after an error. *)
Refuse_StaysOpen ==
    /\ server = "open"
    /\ toServer # << >>
    /\ toClient' = Append(toClient, ERROR(Head(toServer)))
    /\ toServer' = Tail(toServer)
    /\ UNCHANGED <<clientVars, socket, serverVars>>

(* HandleWrite fails before the packet is in the ring: reply, disconnect.  *)
Refuse ==
    /\ server = "open"
    /\ toServer # << >>
    /\ toClient' = Append(toClient, ERROR(Head(toServer)))
    /\ Close(Tail(toServer))
    /\ UNCHANGED <<clientVars, ring>>

(* The server is restarted, or cannot send its reply. *)
CloseConnection ==
    /\ server \in {"open", "replying"}
    /\ Close(toServer)
    /\ UNCHANGED <<clientVars, ring, toClient>>

-----------------------------------------------------------------------------
(* The reset arrives. *)
Reset ==
    /\ socket \in {"probed", "aborted"}
    /\ socket' = IF socket = "probed" THEN "broken" ELSE "error"
    /\ UNCHANGED <<clientVars, serverVars, toServer, toClient>>

Ended ==
    /\ client = "killed" \/ (client = "ready" /\ current = MaxPackets)
    /\ UNCHANGED vars

Client ==
    \/ Write \/ SendPacket \/ SendFails \/ SendKills
    \/ ReceiveReply \/ ReceiveTimeout \/ ReceiveClosed
Server == Store \/ Reply \/ Refuse

Next == Client \/ Server \/ CloseConnection \/ Reset \/ Ended

Spec == Init /\ [][Next]_vars

(* The client's calls return when they can; the server works on what it    *)
(* has read.  The connection need never close.                             *)
FairSpec == Spec /\ WF_vars(Client) /\ WF_vars(Server) /\ WF_vars(Reset)

-----------------------------------------------------------------------------
TypeOK ==
    /\ client \in {"ready", "send", "receive", "killed"}
    /\ current \in 0 .. MaxPackets
    /\ result \in [Packets -> {"none", "ok", "fail"}]
    /\ answered \in [Packets -> 0 .. MaxPackets]
    /\ socket \in {"ok", "probed", "aborted", "error", "broken"}
    /\ server \in {"open", "replying", "closed"}
    /\ toServer \in Seq(Packets)
    /\ toClient \in Seq([status : {"OK", "ERROR"}, packet : Packets])
    /\ ring \in Seq(Packets) /\ Len(ring) <= current

(* connection.c:523-525: dl_write returns "a positive packet ID on success *)
(* when acknowledgement is requested", the ID this packet got in the ring. *)
AckMeansStored == \A k \in Packets : result[k] = "ok" => k \in Stored

(* As long as the server answers in time, writing record by record with    *)
(* acknowledgements is the log of module RecordLog.                        *)
Log == INSTANCE RecordLog WITH log <- ring
ImplementsLog == Log!Spec

(* Every call of dl_write returns or ends the program: process_data is not *)
(* held up by a server that is slow, refuses, closes or is reset.          *)
EveryWriteEnds == client \in {"send", "receive"} ~> client \in {"ready", "killed"}

(* Failures before k that left a reply behind for someone else. *)
FailedBefore(k) == Cardinality({j \in Packets : j < k /\ result[j] = "fail"})

(* Replies are taken in order and never dropped, so each failed write puts *)
(* all later acknowledgements one record further behind.                   *)
AckSkew == \A k \in Packets : answered[k] # 0 => answered[k] = k - FailedBefore(k)

(* Late or failed, no record is stored twice or out of order.              *)
StoredOnceInOrder == \A i, j \in DOMAIN ring : i < j => ring[i] < ring[j]

(* network.c:193-194: dl_senddata returns "0 on success", "-1 on error".   *)
SendReturns == client # "killed"
=============================================================================
