------------------------------ MODULE Multipart ------------------------------
(***************************************************************************)
(* The message methods of zmq.Socket (send, send_multipart, send_string,   *)
(* recv, recv_multipart, recv_string) over send.c and recv.c: one MATLAB   *)
(* that sends, one that receives, and the pipe of libzmq between them.     *)
(*                                                                         *)
(* libzmq takes a message part by part but lets it into the pipe whole:    *)
(* parts sent with SNDMORE are staged until the last one.  Once the first  *)
(* part of a message is accepted, or delivered, the others are too.        *)
(*                                                                         *)
(* The pipe is the part of sent that is not taken yet; a message counts    *)
(* against the high-water mark until its last part has been received.      *)
(***************************************************************************)
EXTENDS Naturals, Sequences, SequencesExt

CONSTANTS
    Cells,          \* the cell arrays users send: sequences of Pieces
    Lengths,        \* the lengths of the uint8 arrays (or strings) users send
    SendBuffers,    \* the buffer lengths given to send_multipart
    RecvBuffers,    \* the buffer lengths given to the receiving methods
    Hwm,            \* the messages the pipe holds
    MaxCalls        \* bound on the messages sent

\* What a user puts into a cell: row is FALSE if it is not a uint8 row vector.
Pieces == [len : Nat, row : BOOLEAN]

ASSUME CellsAssumption == Cells \subseteq Seq(Pieces)
ASSUME LengthsAssumption == Lengths \subseteq Nat
\* A buffer length of 0 makes no message that ends: send_multipart of an array then loops
\* over 1:Inf, sending empty parts with SNDMORE.
ASSUME BuffersAssumption == SendBuffers \subseteq Nat \ {0} /\ RecvBuffers \subseteq Nat \ {0}
ASSUME HwmAssumption == Hwm \in Nat \ {0}
ASSUME MaxCallsAssumption == MaxCalls \in Nat

VARIABLES
    (* sender *)
    calls,          \* the sends so far: what was asked, nbytes, and how the call ended
    next,           \* the part the loop of the last call has come to
    staged,         \* libzmq: parts of the message that is not complete yet
    (* pipe *)
    sent,           \* libzmq: the messages accepted so far, each a sequence of parts
    taken,          \* libzmq: how many of them were received to the last part
    read,           \* libzmq: parts received of the message after those
    (* receiver *)
    receiving,      \* the method in progress: "none", "multipart", "string"
    buf,            \* its buffer length
    got,            \* its variable message
    received,       \* the messages they returned so far
    answer          \* what the one that returned last returned: <<>> is the {} of a wait in vain

senderVars == <<calls, next, staged>>
receiverVars == <<taken, read, receiving, buf, got, received, answer>>
vars == <<senderVars, sent, receiverVars>>

\* A part of a message on its way: the nr-th of what the call-th send was asked for.
Part == [call : 1..MaxCalls, nr : Nat \ {0}, len : Nat]

Call == [guarded : BOOLEAN, asked : Seq(Pieces), state : {"sending", "returned", "threw"},
         nbytes : Nat]

Result == [method : {"multipart", "string"}, buf : RecvBuffers, parts : Seq(Part)]

Current == calls[Len(calls)]

Sending == calls # <<>> /\ Current.state = "sending"

TypeOK ==
    /\ calls \in Seq(Call) /\ Len(calls) <= MaxCalls
    /\ Sending => next \in 1..Len(Current.asked)
    /\ staged \in Seq(Part)
    /\ sent \in Seq(Seq(Part))
    /\ taken \in 0..Len(sent)
    /\ read \in IF taken < Len(sent) THEN 0..(Len(sent[taken + 1]) - 1) ELSE {0}
    /\ receiving \in {"none", "multipart", "string"}
    /\ buf \in RecvBuffers
    /\ got \in Seq(Part)
    /\ received \in Seq(Result)
    /\ answer \in Seq(Part)

Init ==
    /\ calls = <<>> /\ next = 1 /\ staged = <<>>
    /\ sent = <<>> /\ taken = 0 /\ read = 0
    /\ receiving = "none" /\ buf \in RecvBuffers /\ got = <<>> /\ received = <<>> /\ answer = <<>>

-----------------------------------------------------------------------------
(* Sending *)

\* send_multipart on an array: parts of the buffer length, then what remains, which is empty
\* when the length is a multiple of the buffer length.  A single element is a row always.
ChunkLength(length, bufLen, i) == IF i <= length \div bufLen THEN bufLen ELSE length % bufLen

Chunks(length, bufLen, shape) ==
    [i \in 1..(length \div bufLen + 1) |->
        [len |-> ChunkLength(length, bufLen, i),
         row |-> shape = "row" \/ (shape = "column" /\ ChunkLength(length, bufLen, i) = 1)]]

\* A method begins; message{end} of an empty cell throws at once.
Begin(guarded, asked) ==
    /\ ~Sending /\ Len(calls) < MaxCalls
    /\ calls' = Append(calls, [guarded |-> guarded, asked |-> asked, nbytes |-> 0,
                               state |-> IF asked = <<>> THEN "threw" ELSE "sending"])
    /\ next' = 1
    /\ UNCHANGED <<staged, sent, receiverVars>>

\* send_multipart of a cell: a try around every part but the last.
SendCell == \E cell \in Cells : Begin(TRUE, cell)

\* The user's own sequence of sends, 'sndmore' on each but the last; an error ends it.
SendParts == \E cell \in Cells \ {<<>>} : Begin(FALSE, cell)

\* send_multipart of an array, send_string.
SendArray ==
    \E length \in Lengths, bufLen \in SendBuffers, shape \in {"row", "column", "not uint8"} :
        Begin(FALSE, Chunks(length, bufLen, shape))

Piece == Current.asked[next]

\* Mutant: the loop over the parts but the last runs once too often.
IsLastBeyond == next > Len(Current.asked)

IsLast == next = Len(Current.asked)

ThisPart == [call |-> Len(calls), nr |-> next, len |-> Piece.len]

\* libzmq accepts the first part of a message only if there is room in the pipe.
Full == staged = <<>> /\ Len(sent) - taken >= Hwm

\* send.c throws: not a uint8 row; nothing to allocate (mxCalloc(0) may be NULL); or
\* EAGAIN, when the pipe is full and SNDTIMEO has passed.
MayFail == ~Piece.row \/ Piece.len = 0 \/ Full

Ended(state, nbytes) ==
    calls' = [calls EXCEPT ![Len(calls)].state = state, ![Len(calls)].nbytes = nbytes]

\* Mutant: the count goes up before the call that fails.
SendFailsCounted ==
    /\ Sending /\ MayFail
    /\ IF Current.guarded /\ ~IsLast
       THEN next' = next + 1 /\ Ended("sending", Current.nbytes + Piece.len)
       ELSE Ended("threw", Current.nbytes) /\ UNCHANGED next
    /\ UNCHANGED <<staged, sent, receiverVars>>

\* Mutant: the catch tries the same part again.
SendFailsRetried ==
    /\ Sending /\ MayFail
    /\ IF Current.guarded /\ ~IsLast
       THEN UNCHANGED <<next, calls>>
       ELSE Ended("threw", Current.nbytes) /\ UNCHANGED next
    /\ UNCHANGED <<staged, sent, receiverVars>>

\* Mutant: the error of the last part is swallowed as well, and the method returns.
SendFailsReturned ==
    /\ Sending /\ MayFail
    /\ IF Current.guarded
       THEN IF IsLast THEN Ended("returned", Current.nbytes) /\ UNCHANGED next
                      ELSE next' = next + 1 /\ UNCHANGED calls
       ELSE Ended("threw", Current.nbytes) /\ UNCHANGED next
    /\ UNCHANGED <<staged, sent, receiverVars>>

\* Mutant: the error of any part but the last is swallowed, whatever is sent.
SendFailsSwallowed ==
    /\ Sending /\ MayFail
    /\ IF ~IsLast
       THEN next' = next + 1 /\ UNCHANGED calls
       ELSE Ended("threw", Current.nbytes) /\ UNCHANGED next
    /\ UNCHANGED <<staged, sent, receiverVars>>

\* The catch of send_multipart goes on with the next part; elsewhere the method throws.
\* What is staged stays staged.
SendFails ==
    /\ Sending /\ MayFail
    /\ IF Current.guarded /\ ~IsLast
       THEN next' = next + 1 /\ UNCHANGED calls
       ELSE Ended("threw", Current.nbytes) /\ UNCHANGED next
    /\ UNCHANGED <<staged, sent, receiverVars>>

\* zmq_send with SNDMORE.
SendMore ==
    /\ Sending /\ Piece.row /\ ~Full /\ ~IsLast
    /\ staged' = Append(staged, ThisPart)
    /\ Ended("sending", Current.nbytes + Piece.len)
    /\ next' = next + 1
    /\ UNCHANGED <<sent, receiverVars>>

\* zmq_send without SNDMORE: the message is complete and the method returns.
SendLast ==
    /\ Sending /\ Piece.row /\ ~Full /\ IsLast
    /\ sent' = Append(sent, Append(staged, ThisPart))
    /\ staged' = <<>>
    /\ Ended("returned", Current.nbytes + Piece.len)
    /\ UNCHANGED <<next, receiverVars>>

-----------------------------------------------------------------------------
(* Receiving *)

\* recv_multipart or recv_string is called; DONTWAIT only changes how soon RecvFails.
RecvCall ==
    /\ receiving = "none"
    /\ receiving' \in {"multipart", "string"}
    /\ buf' \in RecvBuffers
    /\ got' = <<>>
    /\ UNCHANGED <<senderVars, sent, taken, read, received, answer>>

\* recv.c: what does not fit into the buffer is cut off, with a warning.
Cut(part, bufLen) == [part EXCEPT !.len = IF part.len > bufLen THEN bufLen ELSE part.len]

\* recv_string keeps the first part of what recv_multipart returns.
Returned(method, parts) == IF method = "string" THEN <<parts[1]>> ELSE parts

\* The method in progress returns the parts of a message.
Return(parts) ==
    /\ received' = Append(received, [method |-> receiving, buf |-> buf,
                                     parts |-> Returned(receiving, parts)])
    /\ answer' = Returned(receiving, parts)
    /\ receiving' = "none" /\ got' = <<>>

\* Mutant: the loop ends without a look at RCVMORE.
RecvPartOnce ==
    /\ receiving # "none" /\ taken < Len(sent)
    /\ LET message == sent[taken + 1]
           more == read + 1 < Len(message)
       IN /\ read' = IF more THEN read + 1 ELSE 0
          /\ taken' = IF more THEN taken ELSE taken + 1
          /\ Return(Append(got, Cut(message[read + 1], buf)))
    /\ UNCHANGED <<senderVars, sent, buf>>

\* recv returns a part; RCVMORE tells whether another one follows.
RecvPart ==
    /\ receiving # "none" /\ taken < Len(sent)
    /\ LET message == sent[taken + 1]
           parts == Append(got, Cut(message[read + 1], buf))
       IN IF read + 1 < Len(message)
          THEN read' = read + 1 /\ got' = parts /\ UNCHANGED <<taken, receiving, received, answer>>
          ELSE taken' = taken + 1 /\ read' = 0 /\ Return(parts)
    /\ UNCHANGED <<senderVars, sent, buf>>

\* Nothing is there and the wait ends: on -1 (RCVTIMEO, DONTWAIT) recv_multipart returns {};
\* it throws on EINTR, and recv_string throws on message{1}.
RecvFails ==
    /\ receiving # "none" /\ taken = Len(sent)
    /\ receiving' = "none" /\ got' = <<>>
    /\ \/ receiving = "multipart" /\ answer' = <<>>
       \/ UNCHANGED answer
    /\ UNCHANGED <<senderVars, sent, taken, read, buf, received>>

-----------------------------------------------------------------------------
SendStep == SendFails \/ SendMore \/ SendLast

Next ==
    \/ SendCell \/ SendParts \/ SendArray
    \/ SendStep
    \/ RecvCall \/ RecvPart \/ RecvFails

\* MATLAB executes its statements.  A timeout while the pipe is full is never owed.
Fairness ==
    /\ WF_vars(SendMore \/ SendLast \/ (SendFails /\ ~Piece.row))
    /\ WF_vars(RecvPart)

Spec == Init /\ [][Next]_vars /\ Fairness

\* A receiver that receives in a loop: what a sender without a timeout relies on.
ListeningSpec == Spec /\ WF_vars(RecvCall)

-----------------------------------------------------------------------------
(* Properties *)

\* The length of the first n pieces, for every n.
Sums(asked) ==
    LET sum[n \in 0..Len(asked)] == IF n = 0 THEN 0 ELSE sum[n - 1] + asked[n].len
    IN  sum

Total(asked) == Sums(asked)[Len(asked)]

\* What the first n parts of a message, for every n, hold of a call; empty parts do not count.
Selections(call, message) ==
    LET parts[n \in 0..Len(message)] ==
            IF n = 0 THEN <<>>
            ELSE IF message[n].call = call /\ message[n].len > 0
                 THEN Append(parts[n - 1], message[n]) ELSE parts[n - 1]
    IN  parts

PartsOf(call, message) == Selections(call, message)[Len(message)]

\* The message a call makes if none of the first n pieces fails.
Whole(call, asked, n) == [nr \in 1..n |-> [call |-> call, nr |-> nr, len |-> asked[nr].len]]

\* One message holds every part of a call that is not empty, in order.
InOneMessage(c) ==
    LET whole == Whole(c, calls[c].asked, Len(calls[c].asked))
    IN  \E i \in 1..Len(sent) : PartsOf(c, sent[i]) = PartsOf(c, whole)

\* send_multipart swallows the errors of all parts but the last (Socket.m:287-294), yet its
\* result tells: a call that returned the length of all it was asked to send has put every
\* non-empty part, in order, into one message.
CountTells ==
    \A c \in 1..Len(calls) :
        calls[c].state = "returned" /\ calls[c].nbytes = Total(calls[c].asked) => InOneMessage(c)

\* Where nothing is swallowed (send_multipart of an array, Socket.m:297-307; send_string; a
\* user's own sends) no look at the result is needed: what returns has sent everything, and
\* whatever earlier calls left staged, into one message.
ReturnedIsWhole ==
    \A c \in 1..Len(calls) :
        calls[c].state = "returned" /\ ~calls[c].guarded =>
            calls[c].nbytes = Total(calls[c].asked) /\ InOneMessage(c)

\* The order in which the calls were made to send them.
Before(p, q) == p.call < q.call \/ (p.call = q.call /\ p.nr < q.nr)

\* Parts that a failed send leaves staged in libzmq join the next message (Socket.m:295, 307):
\* a message mixes the parts of several calls only if all but the last of these threw, and
\* parts never change places, whatever fails.
MixedOnlyAfterThrow ==
    /\ \A m \in 1..Len(sent) : \A j, k \in 1..Len(sent[m]) : j < k =>
           /\ Before(sent[m][j], sent[m][k])
           /\ sent[m][j].call # sent[m][k].call => calls[sent[m][j].call].state = "threw"
    /\ \A m \in 1..Len(sent) - 1 : Before(Last(sent[m]), Head(sent[m + 1]))

\* The first n parts of a message as a buffer shows them.
Shown(message, n, bufLen) == [k \in 1..n |-> Cut(message[k], bufLen)]

\* recv_multipart returns all parts of one message of libzmq and nothing of another, the
\* longer ones cut at its buffer; a wait never ends inside a message.
ReceivedWhole ==
    /\ Len(received) = taken
    /\ \A j \in 1..taken :
           received[j].parts =
               Returned(received[j].method, Shown(sent[j], Len(sent[j]), received[j].buf))
    /\ got = IF taken < Len(sent) THEN Shown(sent[taken + 1], read, buf) ELSE <<>>
    /\ receiving = "none" => read = 0

\* With a receiver in a loop every send ends, the blocking ones included.
SendReturns == Sending ~> ~Sending

Named(message) == [i \in 1..Len(message) |-> <<message[i].call, message[i].nr>>]

\* The methods implement a channel of whole messages, the oldest first; an empty result
\* means that none was waiting, never that one was lost or begun (Channel).
waiting == [m \in 1..Len(sent) - taken |-> Named(sent[taken + m])]

delivered == Named(answer)

Ch == INSTANCE Channel WITH Capacity <- Hwm, queue <- waiting, out <- delivered

ChannelSpec == Ch!Spec

\* The safety part of ChannelSpec, which is proved.
ChannelSafety == Ch!Init /\ [][Ch!Next]_(Ch!vars)

\* "The received message as a string" (Socket.m:253): recv_string returns all of it.
StringsWhole ==
    \A j \in 1..Len(received) :
        received[j].method = "string" => Len(received[j].parts) = Len(sent[j])
=============================================================================
