------------------------------- MODULE Channel -------------------------------
(***************************************************************************)
(* What the multipart methods of zmq.Socket promise between them: messages *)
(* travel whole.  A message is handed over in one step, whatever the       *)
(* number of sends it took, and taken in one step, the oldest first.  A    *)
(* reader of strings takes the whole message and keeps its first part.     *)
(***************************************************************************)
EXTENDS Naturals, Sequences

CONSTANT Capacity   \* the messages that may wait: the high-water mark

VARIABLES
    queue,          \* the messages that wait, each a sequence of parts
    out             \* what the last take or miss returned

vars == <<queue, out>>

Init == queue = <<>> /\ out = <<>>

Put ==
    /\ Len(queue) < Capacity
    /\ Len(queue') = Len(queue) + 1
    /\ SubSeq(queue', 1, Len(queue)) = queue
    /\ queue'[Len(queue')] # <<>>
    /\ UNCHANGED out

Take ==
    /\ queue # <<>>
    /\ queue' = Tail(queue)
    /\ out' \in {Head(queue), <<Head(queue)[1]>>}

\* A wait in vain: there was no message.
Miss == queue = <<>> /\ out' = <<>> /\ UNCHANGED queue

Next == Put \/ Take \/ Miss

Spec == Init /\ [][Next]_vars /\ WF_vars(Take)
=============================================================================
