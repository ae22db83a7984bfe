----------------------------- MODULE RecordLog -----------------------------
(***************************************************************************)
(* What process_data may rely on when it hands records to dl_write over    *)
(* one connection: they are stored at most once and in order, a record     *)
(* reported stored is stored, and once one was reported failed no later    *)
(* one is stored.                                                          *)
(***************************************************************************)
EXTENDS Naturals, Sequences

CONSTANT MaxPackets     \* bound: records written

VARIABLES
    log,        \* the records stored, in order
    result      \* what dl_write returned for each: "none" yet, "ok", "fail"

vars == <<log, result>>

Packets == 1 .. MaxPackets
Stored == {log[i] : i \in DOMAIN log}

Init == log = << >> /\ result = [k \in Packets |-> "none"]

(* k is being written: it is the first without a result. *)
Current(k) == result[k] = "none" /\ \A j \in Packets : j < k => result[j] # "none"

Store(k) ==
    /\ Current(k)
    /\ k \notin Stored
    /\ \A j \in Packets : j < k => result[j] = "ok"
    /\ log' = Append(log, k)
    /\ UNCHANGED result

Confirm(k) ==
    /\ Current(k)
    /\ k \in Stored
    /\ result' = [result EXCEPT ![k] = "ok"]
    /\ UNCHANGED log

Fail(k) ==
    /\ Current(k)
    /\ result' = [result EXCEPT ![k] = "fail"]
    /\ UNCHANGED log

Next == \E k \in Packets : Store(k) \/ Confirm(k) \/ Fail(k)

Spec == Init /\ [][Next]_vars
=============================================================================
