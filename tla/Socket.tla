------------------------------- MODULE Socket -------------------------------
(***************************************************************************)
(* What a page may rely on of one connection object, whoever provides it:  *)
(* it opens at most once, it closes for good, and its handler of the close *)
(* event is called once, when it has closed.  SockJS implements this, and  *)
(* the sockets Transfer reckons with are of this kind.                     *)
(***************************************************************************)
EXTENDS Naturals

VARIABLES
    readyState,     \* as in the WebSocket interface
    told            \* calls of the page's onclose

vars == <<readyState, told>>

Init == readyState = "connecting" /\ told = 0

Opens ==
    /\ readyState = "connecting"
    /\ readyState' = "open"
    /\ UNCHANGED told

Closes ==
    /\ readyState \in {"connecting", "open"}
    /\ readyState' = "closing"
    /\ UNCHANGED told

IsClosed ==
    /\ readyState = "closing"
    /\ readyState' = "closed"
    /\ told' = told + 1

Next == Opens \/ Closes \/ IsClosed

Spec == Init /\ [][Next]_vars
=============================================================================
