------------------------------ MODULE Container ------------------------------
(***************************************************************************)
(* What a context promises to its user: it is "the container for all       *)
(* sockets in a single process", and ending it releases every one of them. *)
(* Only the sockets that hold libzmq resources are visible here; pointers, *)
(* cell arrays and endpoints belong to the detailed module ContextSocket.  *)
(***************************************************************************)

CONSTANT Socket     \* the sockets a context may contain

VARIABLES
    phase,          \* "none", "live", "ending" (the call has not returned), "halted"
    open            \* the sockets that hold libzmq resources

vars == <<phase, open>>

Init == phase = "none" /\ open = {}

Create ==
    /\ phase = "none" /\ phase' = "live"
    /\ open' \in {{}} \cup {{s} : s \in Socket}

Open(s) == phase = "live" /\ s \notin open /\ open' = open \cup {s} /\ UNCHANGED phase

Close == phase = "live" /\ open' \in SUBSET open /\ UNCHANGED phase

\* Ending closes all sockets at once, as the destructor of zmq.Context promises: from
\* here on nothing is open or opened.
End == phase \in {"live", "halted"} /\ phase' = "ending" /\ open' = {}

Release == phase = "ending" /\ phase' = "none" /\ UNCHANGED open

\* A signal may interrupt the ending; the context is then only good for ending again.
Interrupt == phase = "ending" /\ phase' = "halted" /\ UNCHANGED open

Next == Create \/ (\E s \in Socket : Open(s)) \/ Close \/ End \/ Release \/ Interrupt

Spec == Init /\ [][Next]_vars /\ WF_vars(Release)
=============================================================================
