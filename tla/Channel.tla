------------------------------ MODULE Channel -------------------------------
(***************************************************************************)
(* What SockJS relies on of a transport: frames are heard in the order in  *)
(* which the server made them, each once, none is left out, and nothing is *)
(* heard any more when the channel is over.  SockJSTransports and          *)
(* SockJSIframe implement it.                                              *)
(***************************************************************************)
EXTENDS Naturals, Sequences

VARIABLES
    made,           \* the number of frames the server has made
    heard,          \* the frames heard so far, by their numbers
    over

vars == <<made, heard, over>>

FirstFrames(n) == [i \in 1 .. n |-> i]

Init == made = 0 /\ heard = <<>> /\ over = FALSE

Makes ==
    /\ made' = made + 1
    /\ UNCHANGED <<heard, over>>

\* Several frames may be heard at once, and the last may be what ends it.
Hears ==
    /\ ~over
    /\ \E n \in Len(heard) .. made : heard' = FirstFrames(n)
    /\ over' \in BOOLEAN
    /\ UNCHANGED made

Next == Makes \/ Hears

Spec == Init /\ [][Next]_vars
=============================================================================
