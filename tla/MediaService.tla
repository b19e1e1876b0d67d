---------------------------- MODULE MediaService ----------------------------
(***************************************************************************)
(* What the server promises the platforms that call for video, whatever    *)
(* threads, queues and tables it is made of: an INVITE is answered once; a *)
(* stream goes to a platform only after the platform accepted the answer,  *)
(* and ends only because that platform hung up.                            *)
(***************************************************************************)
CONSTANT Leg

VARIABLES
    phase,      \* the platform's view of each call
    stream      \* the calls the server is forwarding media to

vars == <<phase, stream>>

Phase == {"idle", "calling", "confirmed", "refused", "closing", "closed"}

Init == phase = [l \in Leg |-> "idle"] /\ stream = {}

Goes(l, from, p) ==
    /\ phase[l] \in from
    /\ phase' = [phase EXCEPT ![l] = p]
    /\ UNCHANGED stream

Call(l)   == Goes(l, {"idle"}, "calling")
Accept(l) == Goes(l, {"calling"}, "confirmed")
Refuse(l) == Goes(l, {"calling"}, "refused")
HangUp(l) == Goes(l, {"confirmed"}, "closing")
Close(l)  == Goes(l, {"closing"}, "closed")

Start(l) ==
    /\ l \notin stream
    /\ phase[l] \in {"confirmed", "closing", "closed"}
    /\ stream' = stream \cup {l}
    /\ UNCHANGED phase

Stop(l) ==
    /\ l \in stream
    /\ phase[l] \in {"closing", "closed"}
    /\ stream' = stream \ {l}
    /\ UNCHANGED phase

Next == \E l \in Leg :
    \/ Call(l) \/ Accept(l) \/ Refuse(l) \/ HangUp(l) \/ Close(l)
    \/ Start(l) \/ Stop(l)

\* Every call gets an answer and a call that was hung up ends with no stream.
Promises ==
    \A l \in Leg : /\ phase[l] = "calling" ~> phase[l] # "calling"
                   /\ phase[l] = "closing" ~> [](l \notin stream)

Spec == Init /\ [][Next]_vars /\ Promises
=============================================================================
