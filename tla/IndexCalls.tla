----------------------------- MODULE IndexCalls -----------------------------
(***************************************************************************)
(* The index as its caller sees it: one call at a time, which takes effect *)
(* at some moment before it returns, once, or fails because its key is     *)
(* lost.  Nothing else changes what the index holds, but a crash.          *)
(***************************************************************************)
EXTENDS IndexMap

VARIABLE request   \* the call in progress

callVars == <<entries, lost, request>>

NoRequest == [op |-> "none"]
InsertRequest(k, v) == [op |-> "insert", key |-> k, val |-> v]
RemoveRequest(k)    == [op |-> "remove", key |-> k]

Request ==
  /\ request = NoRequest
  /\ \E k \in Key :
       \/ request' = RemoveRequest(k)
       \/ ~Holds(k) /\ \E v \in Value : request' = InsertRequest(k, v)
  /\ UNCHANGED <<entries, lost>>

DoInsert ==
  /\ request.op = "insert"
  /\ Put(request.key, request.val)
  /\ request' = NoRequest

DoRemove ==
  /\ request.op = "remove"
  /\ Delete(request.key)
  /\ request' = NoRequest

(* The call throws, and has done nothing. *)
Fail ==
  /\ request # NoRequest
  /\ request.key \in lost
  /\ request' = NoRequest
  /\ UNCHANGED <<entries, lost>>

(* The process stops: the call is gone, and some keys may be. *)
Stop ==
  /\ lost \subseteq lost' /\ lost' \subseteq Key
  /\ Lose(lost' \ lost)
  /\ request' = NoRequest

IndexNext == Request \/ DoInsert \/ DoRemove \/ Fail

(* The promise while no process dies, and the weaker one that survives     *)
(* crashes: entries may be lost, but none is ever invented or altered.     *)
IndexSpec == IndexInit /\ request = NoRequest /\ [][IndexNext]_callVars

LossyIndexSpec == IndexInit /\ request = NoRequest /\ [][Stop \/ IndexNext]_callVars
=============================================================================
