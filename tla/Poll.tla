-------------------------------- MODULE Poll --------------------------------
(***************************************************************************)
(* zmq.core.poll and the program the comment at the head of                *)
(* src/src/core/poll.c shows: fill an array of items, poll it, receive     *)
(* from what is ready for reading, send to what is ready for writing, and  *)
(* again.                                                                  *)
(* Socket.poll is the case of one item.                                    *)
(*                                                                         *)
(* inbox and outbox count the messages that wait in libzmq's pipes; the    *)
(* I/O threads fill the one and empty the other at any time.               *)
(***************************************************************************)
EXTENDS Naturals, Sequences

CONSTANTS
    Socket,         \* the sockets of the program
    Limit,          \* the messages a pipe holds
    Items,          \* the items it polls: sequences of [socket, events]
    Shapes          \* how the struct array lies: "column" (N x 1), "row" (1 x N)

Events == {"in", "out"}     \* ZMQ_POLLIN, ZMQ_POLLOUT
Item == [socket : Socket, events : SUBSET Events]
Result == [socket : Socket, revents : SUBSET Events]

\* No socket occurs twice: what the first item receives, the second would wait for.
Distinct(array) == \A i, j \in 1..Len(array) : array[i].socket = array[j].socket => i = j

ASSUME LimitAssumption == Limit \in Nat \ {0}
ASSUME ItemsAssumption ==
    Items \subseteq Seq(Item) /\ \A array \in Items : array # <<>> /\ Distinct(array)
ASSUME ShapesAssumption == Shapes \subseteq {"column", "row"}

VARIABLES
    inbox, outbox,  \* libzmq
    items, shape,   \* the program: the array it polls
    place,          \* "filled", "polling", "looking"
    patient,        \* the timeout of the call is -1
    results,        \* what poll returned: sequence of [socket, revents]
    i               \* the result the program looks at

pipes == <<inbox, outbox>>
program == <<items, shape, place, patient, results, i>>
vars == <<pipes, program>>

Init ==
    /\ inbox = [s \in Socket |-> 0] /\ outbox = [s \in Socket |-> 0]
    /\ items \in Items /\ shape \in Shapes
    /\ place = "filled" /\ patient = FALSE /\ results = <<>> /\ i = 1

\* Mutant: the columns.
nitemsColumns == IF shape = "row" THEN Len(items) ELSE 1

\* poll.c takes the number of rows for the number of items.
nitems == IF shape = "column" THEN Len(items) ELSE 1

TypeOK ==
    /\ inbox \in [Socket -> 0..Limit] /\ outbox \in [Socket -> 0..Limit]
    /\ items \in Items /\ shape \in Shapes
    /\ place \in {"filled", "polling", "looking"} /\ patient \in BOOLEAN
    /\ results \in Seq(Result)
    /\ place = "looking" => Len(results) = nitems /\ i \in 1..nitems

-----------------------------------------------------------------------------
Deliver(s) == inbox[s] < Limit /\ inbox' = [inbox EXCEPT ![s] = @ + 1] /\ UNCHANGED <<outbox, program>>

Drain(s) == outbox[s] > 0 /\ outbox' = [outbox EXCEPT ![s] = @ - 1] /\ UNCHANGED <<inbox, program>>

Poll ==
    /\ place = "filled"
    /\ place' = "polling" /\ patient' \in BOOLEAN
    /\ UNCHANGED <<pipes, items, shape, results, i>>

Ready(s) ==
    {e \in Events : (e = "in" /\ inbox[s] > 0) \/ (e = "out" /\ outbox[s] < Limit)}

\* Mutant: the events asked for, not the ones that occurred.
AnswerAsked == [n \in 1..nitems |->
    [socket |-> items[n].socket, revents |-> items[n].events]]

\* What create_output makes of zmq_poll's answer: one result per polled item, in order.
Answer == [n \in 1..nitems |->
    [socket |-> items[n].socket, revents |-> items[n].events \cap Ready(items[n].socket)]]

\* zmq_poll returns: something is ready, or the timeout has passed.
PollReturns ==
    /\ place = "polling"
    /\ patient => \E n \in 1..nitems : Answer[n].revents # {}
    /\ results' = Answer /\ i' = 1 /\ place' = "looking"
    /\ UNCHANGED <<pipes, items, shape, patient>>

\* poll throws (EINTR); the program polls again.
PollThrows ==
    /\ place = "polling"
    /\ place' = "filled"
    /\ UNCHANGED <<pipes, items, shape, patient, results, i>>

Moved(e, step) == IF e \in results[i].revents THEN step ELSE 0

\* Mutant: the loop does not end where the results do.
LookBeyond ==
    LET s == results[i].socket
    IN  /\ place = "looking"
        /\ "in" \in results[i].revents => inbox[s] > 0
        /\ "out" \in results[i].revents => outbox[s] < Limit
        /\ inbox' = [inbox EXCEPT ![s] = @ - Moved("in", 1)]
        /\ outbox' = [outbox EXCEPT ![s] = @ + Moved("out", 1)]
        /\ i' = i + 1
        /\ place' = IF i > Len(results) THEN "filled" ELSE "looking"
        /\ UNCHANGED <<items, shape, patient, results>>

\* The program handles a result: recv and send block where there is nothing, or no room.
Look ==
    LET s == results[i].socket
    IN  /\ place = "looking"
        /\ "in" \in results[i].revents => inbox[s] > 0
        /\ "out" \in results[i].revents => outbox[s] < Limit
        /\ inbox' = [inbox EXCEPT ![s] = @ - Moved("in", 1)]
        /\ outbox' = [outbox EXCEPT ![s] = @ + Moved("out", 1)]
        /\ i' = i + 1
        /\ place' = IF i = Len(results) THEN "filled" ELSE "looking"
        /\ UNCHANGED <<items, shape, patient, results>>

Next ==
    \/ \E s \in Socket : Deliver(s) \/ Drain(s)
    \/ Poll \/ PollReturns \/ PollThrows \/ Look

\* The program runs on, and signals do not interrupt it for ever.
Fairness == WF_vars(Poll) /\ SF_vars(PollReturns) /\ WF_vars(Look)

Spec == Init /\ [][Next]_vars /\ Fairness

-----------------------------------------------------------------------------
(* Properties *)

\* A result is acted upon later than it was taken, after other receives and sends and
\* whatever the I/O threads did: what it promised still holds, no recv or send waits.
ReadyMeansNoWait ==
    place = "looking" =>
        /\ "in" \in results[i].revents => inbox[results[i].socket] > 0
        /\ "out" \in results[i].revents => outbox[results[i].socket] < Limit

Receiving(s) ==
    place = "looking" /\ results[i].socket = s /\ "in" \in results[i].revents

\* Every item is polled: "Check results for i = 1:length(results)" (poll.c:20-21) comes to
\* every socket with a message to read, however busy the others are.
NoneStarves ==
    \A s \in Socket :
        (\E n \in 1..Len(items) : items[n].socket = s /\ "in" \in items[n].events) /\ inbox[s] > 0
            ~> Receiving(s)
=============================================================================
