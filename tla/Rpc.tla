--------------------------------- MODULE Rpc ---------------------------------
(***************************************************************************)
(* What a CommandSocket server promises to its clients: a command is       *)
(* served, once, and then the call that sent it returns.                   *)
(***************************************************************************)

CONSTANT Client

VARIABLE call       \* per client: "idle", "asked", "served"

Init == call = [c \in Client |-> "idle"]

Move(c, from, to) == call[c] = from /\ call' = [call EXCEPT ![c] = to]

Ask(c) == Move(c, "idle", "asked")
Serve(c) == Move(c, "asked", "served")
Return(c) == Move(c, "served", "idle")

Next == \E c \in Client : Ask(c) \/ Serve(c) \/ Return(c)

Spec ==
    /\ Init /\ [][Next]_call
    /\ \A c \in Client : WF_call(Serve(c)) /\ WF_call(Return(c))
=============================================================================
