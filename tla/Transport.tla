----------------------------- MODULE Transport -----------------------------
(***************************************************************************)
(* What MQSSClient relies on from an MQSSBaseClient (get, post and del in  *)
(* include/mqss/client.h): a call either brings back the service's answer  *)
(* to that very call, or says nothing about whether the call was carried   *)
(* out.  A call is carried out at most once, perhaps after its caller has  *)
(* given up.                                                               *)
(***************************************************************************)
EXTENDS Naturals

CONSTANTS
  Client,      \* transport objects
  MaxCalls     \* bound: calls of one transport object

VARIABLES
  busy,        \* is the object inside a call?
  calls,       \* calls begun so far: the last one has this number
  carried,     \* how often each call was carried out by the service
  heard        \* which call's answer the last call brought back, 0 for none

vars == <<busy, calls, carried, heard>>

Init ==
  /\ busy = [c \in Client |-> FALSE]
  /\ calls = [c \in Client |-> 0]
  /\ carried = [c \in Client |-> [k \in 1..MaxCalls |-> 0]]
  /\ heard = [c \in Client |-> 0]

Begin(c) ==
  /\ ~busy[c]
  /\ calls[c] < MaxCalls
  /\ busy' = [busy EXCEPT ![c] = TRUE]
  /\ calls' = [calls EXCEPT ![c] = @ + 1]
  /\ heard' = [heard EXCEPT ![c] = 0]
  /\ UNCHANGED carried

CarryOut(c, k) ==
  /\ k \in 1..calls[c]
  /\ carried[c][k] = 0
  /\ carried' = [carried EXCEPT ![c][k] = 1]
  /\ UNCHANGED <<busy, calls, heard>>

Answered(c) ==
  /\ busy[c]
  /\ carried[c][calls[c]] = 1
  /\ busy' = [busy EXCEPT ![c] = FALSE]
  /\ heard' = [heard EXCEPT ![c] = calls[c]]
  /\ UNCHANGED <<calls, carried>>

NotAnswered(c) ==
  /\ busy[c]
  /\ busy' = [busy EXCEPT ![c] = FALSE]
  /\ UNCHANGED <<calls, carried, heard>>

Next ==
  \E c \in Client :
    \/ Begin(c)
    \/ \E k \in 1..MaxCalls : CarryOut(c, k)
    \/ Answered(c)
    \/ NotAnswered(c)

Spec == Init /\ [][Next]_vars
=============================================================================
