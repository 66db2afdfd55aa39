--------------------------- MODULE Multipart_proofs ---------------------------
(***************************************************************************)
(* Proofs about Multipart, for any cells, lengths, buffers and high-water  *)
(* mark.                                                                   *)
(*                                                                         *)
(* Inv is inductive, and the ground for the rest.  ReceivedWhole is kept   *)
(* by every step from Inv.  MixedOnlyAfterThrow needs to know of the parts *)
(* that are staged but not sent, and that the call a message ends with     *)
(* returned (Orderly).  The channel never overflows because libzmq keeps   *)
(* the room it found for the first part of a message (RoomIsKept).         *)
(***************************************************************************)
EXTENDS Multipart, SequenceTheorems, TLAPS

\* No message is without parts.
NoEmptyMessage == \A m \in 1..Len(sent) : sent[m] # <<>>

Inv == TypeOK /\ NoEmptyMessage

-----------------------------------------------------------------------------

\* What send_multipart cuts an array into is a sequence of pieces, at least one.
LEMMA ChunksArePieces ==
  ASSUME NEW length \in Nat, NEW bufLen \in Nat \ {0}, NEW shape
  PROVE  Chunks(length, bufLen, shape) \in Seq(Pieces)
<1>1. length \div bufLen \in Nat /\ length % bufLen \in Nat
  OBVIOUS
<1>2. \A n \in 1..(length \div bufLen + 1) : ChunkLength(length, bufLen, n) \in Nat
  BY <1>1 DEF ChunkLength
<1>3. Chunks(length, bufLen, shape) \in [1..(length \div bufLen + 1) -> Pieces]
  BY <1>2 DEF Chunks, Pieces
<1> QED BY <1>1, <1>3

\* The chunks cover the array: full ones, and a last one, shorter than the buffer, that holds
\* what remains; it is empty exactly when the length is a multiple of the buffer length.
THEOREM ChunksCover ==
  ASSUME NEW length \in Nat, NEW bufLen \in Nat \ {0}, NEW shape
  PROVE  LET chunks == Chunks(length, bufLen, shape)
             n == Len(chunks)
         IN  /\ n \in Nat \ {0}
             /\ \A k \in 1..n - 1 : chunks[k].len = bufLen
             /\ chunks[n].len \in 0..bufLen - 1
             /\ (n - 1) * bufLen + chunks[n].len = length
<1> DEFINE q == length \div bufLen
           r == length % bufLen
           chunks == Chunks(length, bufLen, shape)
<1>1. q \in Nat /\ r \in 0..bufLen - 1 /\ q * bufLen + r = length
  OBVIOUS
<1>2. Len(chunks) = q + 1
  BY <1>1 DEF Chunks
<1>3. \A k \in 1..q : chunks[k].len = bufLen
  BY <1>1 DEF Chunks, ChunkLength
<1>4. chunks[q + 1].len = r
  BY <1>1 DEF Chunks, ChunkLength
<1> HIDE DEF q, r, chunks
<1>5. (Len(chunks) - 1) * bufLen + chunks[Len(chunks)].len = length
  BY <1>1, <1>2, <1>4
<1>6. Len(chunks) \in Nat \ {0} /\ chunks[Len(chunks)].len \in 0..bufLen - 1
  BY <1>1, <1>2, <1>4
<1>7. \A k \in 1..Len(chunks) - 1 : chunks[k].len = bufLen
  BY <1>1, <1>2, <1>3
<1> QED BY <1>5, <1>6, <1>7 DEF chunks

-----------------------------------------------------------------------------

\* An element of a sequence.
LEMMA Element ==
  ASSUME NEW S, NEW q \in Seq(S), NEW n \in 1..Len(q)
  PROVE  q[n] \in S
  OBVIOUS

\* While a send is in progress there is a call, a piece, and a part to make of it.
LEMMA InProgress ==
  ASSUME TypeOK, Sending
  PROVE  /\ Len(calls) \in 1..MaxCalls
         /\ Current \in Call /\ Current.asked \in Seq(Pieces)
         /\ next \in 1..Len(Current.asked)
         /\ Piece \in Pieces /\ ThisPart \in Part
<1>1. Len(calls) \in 1..MaxCalls /\ calls \in Seq(Call)
  BY MaxCallsAssumption DEF TypeOK, Sending
<1>2. Current \in Call
  BY <1>1, Element DEF Current
<1>3. Current.asked \in Seq(Pieces)
  BY <1>2 DEF Call
<1>4. next \in 1..Len(Current.asked)
  BY DEF TypeOK
<1>5. Piece \in Pieces
  BY <1>3, <1>4, Element DEF Piece
<1>6. next \in Nat \ {0} /\ Piece.len \in Nat
  BY <1>3, <1>4, <1>5 DEF Pieces
<1>7. ThisPart \in Part
  BY <1>1, <1>6 DEF ThisPart, Part
<1> QED BY <1>1, <1>2, <1>3, <1>4, <1>5, <1>7

\* Only the record of the last call changes, and its state and count alone.
LEMMA EndedChanges ==
  ASSUME TypeOK, Sending, NEW state \in {"sending", "returned", "threw"}, NEW nbytes \in Nat,
         Ended(state, nbytes)
  PROVE  /\ calls' \in Seq(Call) /\ Len(calls') = Len(calls)
         /\ calls' # <<>> /\ Current' \in Call
         /\ Current'.asked = Current.asked /\ Current'.guarded = Current.guarded
         /\ Current'.state = state /\ Current'.nbytes = nbytes
         /\ \A c \in 1..Len(calls) - 1 : calls'[c] = calls[c]
<1>1. Len(calls) \in 1..MaxCalls /\ Current \in Call /\ calls \in Seq(Call)
  BY InProgress DEF TypeOK
<1> DEFINE new == [Current EXCEPT !.state = state, !.nbytes = nbytes]
<1>2. /\ new \in Call /\ new.asked = Current.asked /\ new.guarded = Current.guarded
      /\ new.state = state /\ new.nbytes = nbytes
  BY <1>1 DEF Call
<1>3. calls' = [calls EXCEPT ![Len(calls)] = new]
  BY <1>1 DEF Ended, Current
<1> HIDE DEF new
<1>4. calls' \in Seq(Call) /\ Len(calls') = Len(calls)
  BY <1>1, <1>2, <1>3
<1>5. calls'[Len(calls)] = new /\ \A c \in 1..Len(calls) - 1 : calls'[c] = calls[c]
  BY <1>1, <1>3
<1>6. Current' = new
  BY <1>4, <1>5 DEF Current
<1> QED BY <1>1, <1>2, <1>4, <1>5, <1>6

\* A new call is appended to the calls.
LEMMA BeginChanges ==
  ASSUME TypeOK, NEW guarded \in BOOLEAN, NEW asked \in Seq(Pieces), Begin(guarded, asked)
  PROVE  /\ calls' \in Seq(Call) /\ Len(calls') = Len(calls) + 1 /\ Len(calls') <= MaxCalls
         /\ \A c \in 1..Len(calls) : calls'[c] = calls[c]
         /\ Current'.asked = asked /\ Current'.nbytes = 0 /\ Current'.state # "returned"
         /\ Sending' => asked # <<>>
<1> DEFINE new == [guarded |-> guarded, asked |-> asked, nbytes |-> 0,
                   state |-> IF asked = <<>> THEN "threw" ELSE "sending"]
<1>1. new \in Call
  BY DEF Call
<1>2. calls' = Append(calls, new) /\ calls \in Seq(Call) /\ Len(calls) < MaxCalls
  BY DEF Begin, TypeOK
<1> HIDE DEF new
<1>3. /\ calls' \in Seq(Call) /\ Len(calls') = Len(calls) + 1
      /\ \A c \in 1..Len(calls) : calls'[c] = calls[c]
      /\ calls'[Len(calls) + 1] = new
  BY <1>1, <1>2
<1>4. Current' = new
  BY <1>3 DEF Current
<1>5. Len(calls') <= MaxCalls
  BY <1>2, <1>3, MaxCallsAssumption
<1> QED BY <1>3, <1>4, <1>5 DEF Sending, new

\* A piece that is sent leaves the receiver alone, a failed one the pipe too.
LEMMA ReceiverTypes ==
  ASSUME TypeOK, UNCHANGED <<sent, receiverVars>>
  PROVE  /\ sent' \in Seq(Seq(Part)) /\ taken' \in 0..Len(sent')
         /\ read' \in IF taken' < Len(sent') THEN 0..(Len(sent'[taken' + 1]) - 1) ELSE {0}
         /\ receiving' \in {"none", "multipart", "string"} /\ buf' \in RecvBuffers
         /\ got' \in Seq(Part) /\ received' \in Seq(Result) /\ answer' \in Seq(Part)
  BY DEF TypeOK, receiverVars

\* What a part becomes in the buffer, and what the methods make of the parts.
LEMMA CutIsPart ==
  ASSUME NEW part \in Part, NEW bufLen \in Nat
  PROVE  Cut(part, bufLen) \in Part
  BY DEF Cut, Part

\* What a method returns are parts again.
LEMMA ReturnedIsParts ==
  ASSUME NEW parts \in Seq(Part), parts # <<>>, NEW method
  PROVE  Returned(method, parts) \in Seq(Part)
<1>1. parts[1] \in Part
  BY Element
<1>2. <<parts[1]>> \in Seq(Part)
  BY <1>1
<1> QED BY <1>2 DEF Returned

-----------------------------------------------------------------------------

\* At first every pipe and every record is empty.
LEMMA InitInv == Init => Inv
<1> SUFFICES ASSUME Init PROVE Inv
  OBVIOUS
<1>1. calls \in Seq(Call) /\ Len(calls) <= MaxCalls /\ ~Sending
  BY MaxCallsAssumption DEF Init, Sending
<1>2. staged \in Seq(Part) /\ sent \in Seq(Seq(Part)) /\ Len(sent) = 0
  BY DEF Init
<1>3. got \in Seq(Part) /\ received \in Seq(Result) /\ answer \in Seq(Part)
  BY DEF Init
<1> QED BY <1>1, <1>2, <1>3 DEF Init, Inv, TypeOK, NoEmptyMessage

\* Every step of the sender keeps the invariant.
LEMMA BeginInv ==
  ASSUME Inv, NEW guarded \in BOOLEAN, NEW asked \in Seq(Pieces), Begin(guarded, asked)
  PROVE  Inv'
<1>1. TypeOK /\ NoEmptyMessage
  BY DEF Inv
<1>2. calls' \in Seq(Call) /\ Len(calls') <= MaxCalls
  BY <1>1, BeginChanges
<1>3. Sending' => next' \in 1..Len(Current'.asked)
  BY <1>1, BeginChanges DEF Begin
<1>4. staged' = staged /\ UNCHANGED <<sent, receiverVars>>
  BY DEF Begin
<1>5. TypeOK'
  BY <1>1, <1>2, <1>3, <1>4, ReceiverTypes DEF TypeOK
<1> QED BY <1>1, <1>4, <1>5 DEF Inv, NoEmptyMessage

\* A failed piece stays where it is; the loop goes on or the call ends.
LEMMA SendFailsInv == Inv /\ SendFails => Inv'
<1> SUFFICES ASSUME Inv, SendFails PROVE Inv'
  OBVIOUS
<1>1. TypeOK /\ NoEmptyMessage /\ Sending
  BY DEF Inv, SendFails
<1>2. staged' = staged /\ UNCHANGED <<sent, receiverVars>>
  BY DEF SendFails
<1>3. CASE Current.guarded /\ ~IsLast
  <2>1. next' = next + 1 /\ calls' = calls
    BY <1>3 DEF SendFails
  <2>2. next' \in 1..Len(Current.asked)
    BY <1>1, <1>3, <2>1, InProgress DEF IsLast
  <2>3. calls' \in Seq(Call) /\ Len(calls') <= MaxCalls /\ (Sending' => next' \in 1..Len(Current'.asked))
    BY <1>1, <2>1, <2>2 DEF TypeOK, Current
  <2>4. TypeOK'
    BY <1>1, <1>2, <2>3, ReceiverTypes DEF TypeOK
  <2> QED BY <1>1, <1>2, <2>4 DEF Inv, NoEmptyMessage
<1>4. CASE ~(Current.guarded /\ ~IsLast)
  <2>1. Ended("threw", Current.nbytes)
    BY <1>4 DEF SendFails
  <2>2. Current.nbytes \in Nat
    BY <1>1, InProgress DEF Call
  <2>3. calls' \in Seq(Call) /\ Len(calls') <= MaxCalls /\ ~Sending'
    BY <1>1, <2>1, <2>2, EndedChanges DEF TypeOK, Sending
  <2>4. TypeOK'
    BY <1>1, <1>2, <2>3, ReceiverTypes DEF TypeOK
  <2> QED BY <1>1, <1>2, <2>4 DEF Inv, NoEmptyMessage
<1> QED BY <1>3, <1>4

\* A part that is staged is a part.
LEMMA SendMoreInv == Inv /\ SendMore => Inv'
<1> SUFFICES ASSUME Inv, SendMore PROVE Inv'
  OBVIOUS
<1>1. TypeOK /\ NoEmptyMessage /\ Sending
  BY DEF Inv, SendMore
<1>2. UNCHANGED <<sent, receiverVars>> /\ ~IsLast /\ next' = next + 1
  BY DEF SendMore
<1>3. Ended("sending", Current.nbytes + Piece.len) /\ Current.nbytes + Piece.len \in Nat
  BY <1>1, InProgress DEF SendMore, Call, Pieces
<1>4. calls' \in Seq(Call) /\ Len(calls') <= MaxCalls /\ Current'.asked = Current.asked
  BY <1>1, <1>3, EndedChanges DEF TypeOK
<1>5. next' \in 1..Len(Current'.asked)
  BY <1>1, <1>2, <1>4, InProgress DEF IsLast
<1>6. staged' \in Seq(Part)
  BY <1>1, InProgress DEF SendMore, TypeOK
<1>7. TypeOK'
  BY <1>1, <1>2, <1>4, <1>5, <1>6, ReceiverTypes DEF TypeOK
<1> QED BY <1>1, <1>2, <1>7 DEF Inv, NoEmptyMessage

\* What SendLast puts into the pipe.
LEMMA SendLastSends ==
  ASSUME TypeOK, SendLast
  PROVE  LET message == Append(staged, ThisPart)
         IN  /\ message \in Seq(Part) /\ Len(message) = Len(staged) + 1
             /\ sent' \in Seq(Seq(Part)) /\ Len(sent') = Len(sent) + 1
             /\ sent'[Len(sent) + 1] = message
             /\ \A m \in 1..Len(sent) : sent'[m] = sent[m]
             /\ calls' \in Seq(Call) /\ Len(calls') = Len(calls) /\ calls' # <<>>
             /\ Current'.state = "returned"
             /\ \A c \in 1..Len(calls) - 1 : calls'[c] = calls[c]
             /\ taken' = taken /\ read' = read /\ receiving' = receiving
             /\ buf' = buf /\ got' = got /\ received' = received /\ answer' = answer
<1> DEFINE message == Append(staged, ThisPart)
<1>1. Sending /\ staged \in Seq(Part) /\ sent \in Seq(Seq(Part))
  BY DEF SendLast, TypeOK
<1>2. message \in Seq(Part) /\ Len(message) = Len(staged) + 1
  BY <1>1, InProgress
<1>3. sent' = Append(sent, message)
  BY DEF SendLast
<1> HIDE DEF message
<1>4. /\ sent' \in Seq(Seq(Part)) /\ Len(sent') = Len(sent) + 1
      /\ sent'[Len(sent) + 1] = message
      /\ \A m \in 1..Len(sent) : sent'[m] = sent[m]
  BY <1>1, <1>2, <1>3
<1>5. Ended("returned", Current.nbytes + Piece.len) /\ Current.nbytes + Piece.len \in Nat
  BY <1>1, InProgress DEF SendLast, Call, Pieces
<1>6. /\ calls' \in Seq(Call) /\ Len(calls') = Len(calls) /\ calls' # <<>>
      /\ Current'.state = "returned"
      /\ \A c \in 1..Len(calls) - 1 : calls'[c] = calls[c]
  BY <1>1, <1>5, EndedChanges
<1>7. /\ taken' = taken /\ read' = read /\ receiving' = receiving
      /\ buf' = buf /\ got' = got /\ received' = received /\ answer' = answer
  BY DEF SendLast, receiverVars
<1> QED BY <1>2, <1>4, <1>6, <1>7 DEF message

\* The message that enters the pipe has at least the last part.
LEMMA SendLastInv == Inv /\ SendLast => Inv'
<1> SUFFICES ASSUME Inv, SendLast PROVE Inv'
  OBVIOUS
<1>1. TypeOK /\ NoEmptyMessage
  BY DEF Inv
<1> DEFINE message == Append(staged, ThisPart)
<1>2. /\ message \in Seq(Part) /\ Len(message) = Len(staged) + 1
      /\ sent' \in Seq(Seq(Part)) /\ Len(sent') = Len(sent) + 1
      /\ sent'[Len(sent) + 1] = message
      /\ \A m \in 1..Len(sent) : sent'[m] = sent[m]
      /\ taken' = taken /\ read' = read /\ receiving' = receiving
      /\ buf' = buf /\ got' = got /\ received' = received /\ answer' = answer
  BY <1>1, SendLastSends
<1>3. calls' \in Seq(Call) /\ Len(calls') <= MaxCalls /\ ~Sending'
  BY <1>1, SendLastSends DEF TypeOK, Sending
<1>4. staged \in Seq(Part) /\ staged' \in Seq(Part) /\ answer \in Seq(Part)
  BY <1>1 DEF TypeOK, SendLast
<1>m. message \in Seq(Part) /\ Len(message) = Len(staged) + 1 /\ Len(staged) \in Nat
  BY <1>2, <1>4
<1> HIDE DEF message
<1>n. Len(message) \in Nat \ {0} /\ message # <<>>
  BY <1>m
<1>r. /\ sent \in Seq(Seq(Part)) /\ taken \in 0..Len(sent)
      /\ read \in IF taken < Len(sent) THEN 0..(Len(sent[taken + 1]) - 1) ELSE {0}
  BY <1>1 DEF TypeOK
<1>s. Len(sent) \in Nat
  BY <1>r
<1>a. /\ Len(sent) \in Nat /\ Len(message) \in Nat \ {0} /\ message # <<>>
      /\ taken \in 0..Len(sent)
      /\ read \in IF taken < Len(sent) THEN 0..(Len(sent[taken + 1]) - 1) ELSE {0}
  BY <1>n, <1>r, <1>s
<1>5. ASSUME NEW m \in 1..Len(sent') PROVE sent'[m] # <<>>
  <2>1. CASE m = Len(sent) + 1
    BY <2>1, <1>2, <1>a
  <2>2. CASE m \in 1..Len(sent)
    BY <2>2, <1>1, <1>2 DEF NoEmptyMessage
  <2> QED BY <2>1, <2>2, <1>2, <1>a
<1>6. /\ taken' \in 0..Len(sent')
      /\ read' \in IF taken' < Len(sent') THEN 0..(Len(sent'[taken' + 1]) - 1) ELSE {0}
  <2>1. CASE taken = Len(sent)
    BY <2>1, <1>2, <1>a
  <2>2. CASE taken < Len(sent)
    <3>1. taken + 1 \in 1..Len(sent) /\ sent'[taken + 1] = sent[taken + 1]
      BY <2>2, <1>2, <1>a
    <3> QED BY <2>2, <3>1, <1>2, <1>a
  <2> QED BY <2>1, <2>2, <1>a
<1>7. TypeOK'
  BY <1>1, <1>2, <1>3, <1>4, <1>6 DEF TypeOK
<1> QED BY <1>5, <1>7 DEF Inv, NoEmptyMessage

\* The receiver leaves the sender and the accepted messages alone.
LEMMA SenderTypes ==
  ASSUME TypeOK, UNCHANGED <<senderVars, sent>>
  PROVE  /\ calls' \in Seq(Call) /\ Len(calls') <= MaxCalls
         /\ Sending' => next' \in 1..Len(Current'.asked)
         /\ staged' \in Seq(Part) /\ sent' \in Seq(Seq(Part))
  BY DEF TypeOK, senderVars, Sending, Current

\* A part is there to be received, and what it makes of the parts before it.
LEMMA RecvPartTakes ==
  ASSUME TypeOK, RecvPart
  PROVE  LET message == sent[taken + 1]
             parts == Append(got, Cut(message[read + 1], buf))
         IN  /\ taken \in Nat /\ taken < Len(sent) /\ message \in Seq(Part)
             /\ read + 1 \in 1..Len(message)
             /\ message[read + 1] \in Part
             /\ parts \in Seq(Part) /\ parts # <<>>
<1> DEFINE message == sent[taken + 1]
<1>1. taken < Len(sent) /\ taken + 1 \in 1..Len(sent) /\ sent \in Seq(Seq(Part))
  BY DEF RecvPart, TypeOK
<1>2. message \in Seq(Part)
  BY <1>1, Element
<1>3. read + 1 \in 1..Len(message)
  BY <1>1, <1>2 DEF TypeOK
<1>4. message[read + 1] \in Part
  BY <1>2, <1>3, Element
<1>5. buf \in Nat /\ got \in Seq(Part) /\ taken \in Nat
  BY BuffersAssumption DEF TypeOK
<1>6. Cut(message[read + 1], buf) \in Part
  BY <1>4, <1>5, CutIsPart
<1> HIDE DEF message
<1>7. /\ Append(got, Cut(message[read + 1], buf)) \in Seq(Part)
      /\ Append(got, Cut(message[read + 1], buf)) # <<>>
  BY <1>5, <1>6
<1> QED BY <1>1, <1>2, <1>3, <1>4, <1>5, <1>7 DEF message

\* The position stays within the message, and starts anew with the next.
LEMMA RecvPartInv == Inv /\ RecvPart => Inv'
<1> SUFFICES ASSUME Inv, RecvPart PROVE Inv'
  OBVIOUS
<1> DEFINE message == sent[taken + 1]
           parts == Append(got, Cut(message[read + 1], buf))
           result == [method |-> receiving, buf |-> buf, parts |-> Returned(receiving, parts)]
<1>1. TypeOK /\ NoEmptyMessage /\ UNCHANGED <<senderVars, sent>> /\ buf' = buf /\ sent' = sent
  BY DEF Inv, RecvPart
<1>2. /\ taken \in Nat /\ taken < Len(sent) /\ message \in Seq(Part)
      /\ read + 1 \in 1..Len(message)
      /\ parts \in Seq(Part) /\ parts # <<>>
  BY <1>1, RecvPartTakes
<1>3. CASE read + 1 < Len(message)
  <2>1. read' = read + 1 /\ got' = parts /\ UNCHANGED <<taken, receiving, received, answer>>
    BY <1>3 DEF RecvPart
  <2> HIDE DEF parts
  <2>2. read' \in 0..(Len(sent'[taken' + 1]) - 1)
    BY <2>1, <1>1, <1>2, <1>3
  <2>3. TypeOK'
    BY <1>1, <1>2, <2>1, <2>2, SenderTypes DEF TypeOK
  <2> QED BY <1>1, <2>3 DEF Inv, NoEmptyMessage
<1>4. CASE ~(read + 1 < Len(message))
  <2>1. /\ taken' = taken + 1 /\ read' = 0 /\ received' = Append(received, result)
        /\ receiving' = "none" /\ got' = <<>> /\ answer' = Returned(receiving, parts)
    BY <1>4 DEF RecvPart, Return
  <2>2. Returned(receiving, parts) \in Seq(Part)
    BY <1>2, ReturnedIsParts
  <2> HIDE DEF parts
  <2>3. receiving \in {"multipart", "string"} /\ buf \in RecvBuffers /\ received \in Seq(Result)
    BY DEF Inv, TypeOK, RecvPart
  <2>4. result \in Result
    BY <2>2, <2>3 DEF Result
  <2> HIDE DEF result
  <2>5. received' \in Seq(Result)
    BY <2>1, <2>3, <2>4
  <2>6. taken' \in 0..Len(sent') /\ sent \in Seq(Seq(Part)) /\ Len(sent) \in Nat
    BY <1>1, <1>2, <2>1 DEF TypeOK
  <2>7. ASSUME taken' < Len(sent') PROVE read' \in 0..(Len(sent'[taken' + 1]) - 1)
    <3>1. taken' + 1 \in 1..Len(sent)
      BY <1>1, <1>2, <2>1, <2>6, <2>7
    <3>2. sent[taken' + 1] \in Seq(Part) /\ sent[taken' + 1] # <<>>
      BY <1>1, <2>6, <3>1, Element DEF NoEmptyMessage
    <3> QED BY <1>1, <2>1, <3>2
  <2>8. read' \in IF taken' < Len(sent') THEN 0..(Len(sent'[taken' + 1]) - 1) ELSE {0}
    BY <2>1, <2>7
  <2>9. answer' \in Seq(Part)
    BY <2>1, <2>2
  <2>10. TypeOK'
    BY <1>1, <2>1, <2>3, <2>5, <2>6, <2>8, <2>9, SenderTypes DEF TypeOK
  <2> QED BY <1>1, <2>10 DEF Inv, NoEmptyMessage
<1> QED BY <1>3, <1>4

\* A receive that begins, or ends with nothing, is at the start of a message.
LEMMA RecvCallFailsInv == Inv /\ (RecvCall \/ RecvFails) => Inv'
<1> SUFFICES ASSUME Inv, RecvCall \/ RecvFails PROVE Inv'
  OBVIOUS
<1>1. /\ TypeOK /\ NoEmptyMessage /\ UNCHANGED <<senderVars, sent>>
      /\ sent' = sent /\ taken' = taken /\ read' = read /\ received' = received
      /\ got' = <<>> /\ receiving' \in {"none", "multipart", "string"} /\ buf' \in RecvBuffers
      /\ answer' = answer \/ answer' = <<>>
  BY DEF Inv, RecvCall, RecvFails, TypeOK
<1>a. answer' \in Seq(Part)
  <2>1. answer \in Seq(Part) /\ <<>> \in Seq(Part)
    BY <1>1 DEF TypeOK
  <2>2. CASE answer' = answer
    BY <2>1, <2>2
  <2>3. CASE answer' = <<>>
    BY <2>1, <2>3
  <2> QED BY <1>1, <2>2, <2>3
<1>2. TypeOK'
  BY <1>1, <1>a, SenderTypes DEF TypeOK
<1> QED BY <1>1, <1>2 DEF Inv, NoEmptyMessage

\* The cells users send are pieces, and so are the chunks of an array.
LEMMA CallsBegin ==
  ASSUME SendCell \/ SendParts \/ SendArray
  PROVE  \E guarded \in BOOLEAN, asked \in Seq(Pieces) : Begin(guarded, asked)
<1>1. CASE SendCell
  BY <1>1, CellsAssumption DEF SendCell
<1>2. CASE SendParts
  BY <1>2, CellsAssumption DEF SendParts
<1>3. CASE SendArray
  <2>1. PICK length \in Lengths, bufLen \in SendBuffers, shape \in {"row", "column", "not uint8"} :
            Begin(FALSE, Chunks(length, bufLen, shape))
    BY <1>3 DEF SendArray
  <2>2. Chunks(length, bufLen, shape) \in Seq(Pieces)
    BY ChunksArePieces, LengthsAssumption, BuffersAssumption
  <2> QED BY <2>1, <2>2
<1> QED BY <1>1, <1>2, <1>3

\* What changes no variable keeps the invariant.
LEMMA StutterInv == Inv /\ UNCHANGED vars => Inv'
  BY DEF vars, senderVars, receiverVars, Inv, NoEmptyMessage, TypeOK, Sending, Current

\* Every step keeps the invariant.
LEMMA NextInv == Inv /\ [Next]_vars => Inv'
<1> SUFFICES ASSUME Inv, [Next]_vars PROVE Inv'
  OBVIOUS
<1>1. CASE SendCell \/ SendParts \/ SendArray
  BY <1>1, CallsBegin, BeginInv
<1>2. CASE SendStep
  BY <1>2, SendFailsInv, SendMoreInv, SendLastInv DEF SendStep
<1>3. CASE RecvCall \/ RecvPart \/ RecvFails
  BY <1>3, RecvCallFailsInv, RecvPartInv
<1>4. CASE UNCHANGED vars
  BY <1>4, StutterInv
<1> QED BY <1>1, <1>2, <1>3, <1>4 DEF Next

\* The invariant holds for good.
LEMMA SpecInv == Spec => []Inv
  BY InitInv, NextInv, PTL DEF Spec

\* Every variable keeps its type; above all, the position in a message is within it.
THEOREM TypeCorrect == Spec => []TypeOK
<1>1. Inv => TypeOK
  BY DEF Inv
<1> QED BY SpecInv, <1>1, PTL

-----------------------------------------------------------------------------
(* What is received                                                        *)

\* Nothing is received at first.
LEMMA WholeInit == Init => ReceivedWhole
  BY DEF Init, ReceivedWhole

\* Nothing the sender does changes what was received, or what is being received.
LEMMA WholeSender ==
  ASSUME Inv, ReceivedWhole,
         Len(sent') >= Len(sent), Len(sent') \in Nat,
         \A m \in 1..Len(sent) : sent'[m] = sent[m],
         UNCHANGED receiverVars
  PROVE  ReceivedWhole'
<1>1. /\ taken' = taken /\ read' = read /\ receiving' = receiving
      /\ buf' = buf /\ got' = got /\ received' = received /\ answer' = answer
      /\ Len(sent) \in Nat /\ taken \in 0..Len(sent)
      /\ taken = Len(sent) => read = 0
  BY DEF receiverVars, Inv, TypeOK
<1>2. \A j \in 1..taken : sent'[j] = sent[j]
  BY <1>1
<1>3. \A j \in 1..taken' : received'[j].parts =
          Returned(received'[j].method, Shown(sent'[j], Len(sent'[j]), received'[j].buf))
  BY <1>1, <1>2 DEF ReceivedWhole
<1>4. got' = IF taken' < Len(sent') THEN Shown(sent'[taken' + 1], read', buf') ELSE <<>>
  <2>1. CASE taken = Len(sent)
    <3>1. got = <<>> /\ read = 0
      BY <1>1, <2>1 DEF ReceivedWhole
    <3>2. Shown(sent'[taken' + 1], 0, buf') = <<>>
      BY DEF Shown
    <3> QED BY <1>1, <3>1, <3>2
  <2>2. CASE taken < Len(sent)
    <3>1. sent'[taken + 1] = sent[taken + 1]
      BY <1>1, <2>2
    <3> QED BY <1>1, <2>2, <3>1 DEF ReceivedWhole
  <2> QED BY <2>1, <2>2, <1>1
<1> QED BY <1>1, <1>3, <1>4 DEF ReceivedWhole

\* One part more of the message that is being received.
LEMMA ShownGrows ==
  ASSUME NEW S, NEW message \in Seq(S), NEW n \in Nat, n + 1 \in 1..Len(message), NEW bufLen
  PROVE  Append(Shown(message, n, bufLen), Cut(message[n + 1], bufLen)) = Shown(message, n + 1, bufLen)
<1> DEFINE old == Shown(message, n, bufLen)
           new == Shown(message, n + 1, bufLen)
           more == Append(old, Cut(message[n + 1], bufLen))
<1>1. /\ old = [k \in 1..n |-> Cut(message[k], bufLen)]
      /\ new = [k \in 1..n + 1 |-> Cut(message[k], bufLen)]
  BY DEF Shown
<1>2. Len(old) = n /\ DOMAIN old = 1..n
  BY <1>1
<1>3. more = [k \in 1..n + 1 |-> IF k = n + 1 THEN Cut(message[n + 1], bufLen) ELSE old[k]]
  BY <1>1, <1>2
<1>4. \A k \in 1..n + 1 : more[k] = new[k]
  BY <1>1, <1>2, <1>3
<1> QED BY <1>1, <1>3, <1>4

\* A part received extends what is received of its message, or completes it.
LEMMA WholeRecvPart == Inv /\ ReceivedWhole /\ RecvPart => ReceivedWhole'
<1> SUFFICES ASSUME Inv, ReceivedWhole, RecvPart PROVE ReceivedWhole'
  OBVIOUS
<1> DEFINE message == sent[taken + 1]
           parts == Append(got, Cut(message[read + 1], buf))
           result == [method |-> receiving, buf |-> buf, parts |-> Returned(receiving, parts)]
<1>1. TypeOK /\ sent' = sent /\ buf' = buf /\ receiving # "none" /\ received \in Seq(Result)
  BY DEF Inv, RecvPart, TypeOK
<1>2. /\ taken \in Nat /\ taken < Len(sent) /\ message \in Seq(Part)
      /\ read + 1 \in 1..Len(message) /\ read \in Nat /\ Len(sent) \in Nat
  BY <1>1, RecvPartTakes DEF TypeOK
<1>3. parts = Shown(message, read + 1, buf)
  <2>1. got = Shown(message, read, buf)
    BY <1>2 DEF ReceivedWhole
  <2> QED BY <1>2, <2>1, ShownGrows
<1>4. CASE read + 1 < Len(message)
  <2>1. read' = read + 1 /\ got' = parts /\ UNCHANGED <<taken, receiving, received, answer>>
    BY <1>4 DEF RecvPart
  <2> QED BY <1>1, <1>2, <1>3, <2>1 DEF ReceivedWhole
<1>5. CASE ~(read + 1 < Len(message))
  <2>1. /\ taken' = taken + 1 /\ read' = 0 /\ received' = Append(received, result)
        /\ receiving' = "none" /\ got' = <<>>
    BY <1>5 DEF RecvPart, Return
  <2>2. read + 1 = Len(message)
    BY <1>2, <1>5
  <2>3. result.parts = Returned(receiving, Shown(message, Len(message), buf))
        /\ result.method = receiving /\ result.buf = buf
    BY <1>3, <2>2
  <2>4. Len(received) = taken
    BY DEF ReceivedWhole
  <2> HIDE DEF result
  <2>5. /\ Len(received') = taken' /\ received'[taken + 1] = result
        /\ \A j \in 1..taken : received'[j] = received[j]
    BY <1>1, <1>2, <2>1, <2>4
  <2>6. ASSUME NEW j \in 1..taken'
        PROVE  received'[j].parts =
                   Returned(received'[j].method, Shown(sent'[j], Len(sent'[j]), received'[j].buf))
    <3>1. CASE j = taken + 1
      BY <3>1, <1>1, <2>3, <2>5
    <3>2. CASE j \in 1..taken
      BY <3>2, <1>1, <2>5 DEF ReceivedWhole
    <3>3. j = taken + 1 \/ j \in 1..taken
      BY <1>2, <2>1
    <3> QED BY <3>1, <3>2, <3>3
  <2>7. \A whole, bufLen : Shown(whole, 0, bufLen) = <<>>
    BY DEF Shown
  <2>8. got' = IF taken' < Len(sent') THEN Shown(sent'[taken' + 1], read', buf') ELSE <<>>
    BY <2>1, <2>7
  <2> QED BY <2>1, <2>5, <2>6, <2>8 DEF ReceivedWhole
<1> QED BY <1>4, <1>5

\* Every step keeps received messages whole.
LEMMA WholeNext == Inv /\ ReceivedWhole /\ [Next]_vars => ReceivedWhole'
<1> SUFFICES ASSUME Inv, ReceivedWhole, [Next]_vars PROVE ReceivedWhole'
  OBVIOUS
<1>0. sent \in Seq(Seq(Part)) /\ Len(sent) \in Nat /\ TypeOK
  BY DEF Inv, TypeOK
<1>1. CASE SendCell \/ SendParts \/ SendArray \/ SendFails \/ SendMore
  <2>1. sent' = sent /\ UNCHANGED receiverVars
    BY <1>1, CallsBegin DEF Begin, SendFails, SendMore
  <2> QED BY <1>0, <2>1, WholeSender
<1>2. CASE SendLast
  <2>1. UNCHANGED receiverVars
    BY <1>2 DEF SendLast
  <2>2. Len(sent') = Len(sent) + 1 /\ \A m \in 1..Len(sent) : sent'[m] = sent[m]
    BY <1>0, <1>2, SendLastSends
  <2> QED BY <1>0, <2>1, <2>2, WholeSender
<1>3. CASE RecvPart
  BY <1>3, WholeRecvPart
<1>4. CASE RecvCall \/ RecvFails
  <2>1. /\ sent' = sent /\ taken' = taken /\ read' = read /\ received' = received
        /\ got' = <<>>
    BY <1>4 DEF RecvCall, RecvFails
  <2>2. read = 0
    BY <1>4, <1>0 DEF RecvCall, RecvFails, ReceivedWhole, TypeOK
  <2>3. \A whole, bufLen : Shown(whole, 0, bufLen) = <<>>
    BY DEF Shown
  <2> QED BY <2>1, <2>2, <2>3 DEF ReceivedWhole
<1>5. CASE UNCHANGED vars
  BY <1>5 DEF vars, receiverVars, ReceivedWhole
<1> QED BY <1>1, <1>2, <1>3, <1>4, <1>5 DEF Next, SendStep

\* recv_multipart returns one message of libzmq, whole, up to what its buffer cuts off.
THEOREM MessagesWhole == Spec => []ReceivedWhole
  BY WholeInit, WholeNext, SpecInv, PTL DEF Spec

-----------------------------------------------------------------------------
(* What is mixed                                                           *)

\* The parts on their way stem from calls that were made; a message in the pipe ends with
\* one of a call that returned.
SentIsSettled ==
    \A m \in 1..Len(sent) :
        /\ \A k \in 1..Len(sent[m]) : sent[m][k].call \in 1..Len(calls)
        /\ calls[Last(sent[m]).call].state = "returned"

\* What is staged was sent after the last message, in order, by calls that threw or by the
\* one in progress.
StagedInOrder ==
    /\ \A k \in 1..Len(staged) :
           /\ staged[k].call \in 1..Len(calls)
           /\ \/ calls[staged[k].call].state = "threw"
              \/ Sending /\ staged[k].call = Len(calls) /\ staged[k].nr < next
           /\ sent # <<>> => Last(sent[Len(sent)]).call < staged[k].call
    /\ \A j, k \in 1..Len(staged) : j < k => Before(staged[j], staged[k])

Orderly == SentIsSettled /\ StagedInOrder /\ MixedOnlyAfterThrow

\* A call that has ended stays as it is, and no call is forgotten.
EndedStay ==
    /\ Len(calls) \in Nat /\ Len(calls') \in Nat /\ Len(calls') >= Len(calls)
    /\ \A c \in 1..Len(calls) : calls[c].state # "sending" => calls'[c] = calls[c]

\* A step that appends to the calls, or changes the last one, leaves the ended ones.
LEMMA EndedStayEnded ==
  ASSUME TypeOK, Sending, NEW state \in {"sending", "returned", "threw"}, NEW nbytes \in Nat,
         Ended(state, nbytes)
  PROVE  EndedStay
<1>1. /\ Len(calls') = Len(calls) /\ Len(calls) \in Nat
      /\ \A c \in 1..Len(calls) - 1 : calls'[c] = calls[c]
  BY InProgress, EndedChanges
<1>2. calls[Len(calls)].state = "sending"
  BY DEF Sending, Current
<1> QED BY <1>1, <1>2 DEF EndedStay

\* The last part of a message in the pipe, and the call it comes from.
LEMMA LastOfSent ==
  ASSUME Inv, SentIsSettled, NEW m \in 1..Len(sent)
  PROVE  /\ sent[m] \in Seq(Part) /\ Len(sent[m]) \in Nat \ {0}
         /\ Last(sent[m]) = sent[m][Len(sent[m])]
         /\ Last(sent[m]).call \in 1..Len(calls)
<1>1. sent \in Seq(Seq(Part)) /\ sent[m] # <<>>
  BY DEF Inv, TypeOK, NoEmptyMessage
<1>2. sent[m] \in Seq(Part)
  BY <1>1, Element
<1>3. Len(sent[m]) \in Nat \ {0}
  BY <1>1, <1>2
<1>4. sent[m][Len(sent[m])].call \in 1..Len(calls)
  BY <1>3 DEF SentIsSettled
<1> QED BY <1>2, <1>3, <1>4 DEF Last

\* What is in the pipe keeps its order while nothing is added to it.
LEMMA PipeStays ==
  ASSUME Inv, Orderly, EndedStay, sent' = sent
  PROVE  SentIsSettled' /\ MixedOnlyAfterThrow'
<1>1. SentIsSettled /\ MixedOnlyAfterThrow
  BY DEF Orderly
<1>2. \A m \in 1..Len(sent) : \A k \in 1..Len(sent[m]) :
          /\ sent[m][k].call \in 1..Len(calls) /\ sent[m][k].call \in 1..Len(calls')
  BY <1>1 DEF SentIsSettled, EndedStay
<1>3. \A m \in 1..Len(sent) : calls'[Last(sent[m]).call].state = "returned"
  BY <1>1, LastOfSent DEF SentIsSettled, EndedStay
<1>4. SentIsSettled'
  BY <1>2, <1>3 DEF SentIsSettled
<1>5. ASSUME NEW m \in 1..Len(sent), NEW j \in 1..Len(sent[m]), NEW k \in 1..Len(sent[m]), j < k
      PROVE  /\ Before(sent[m][j], sent[m][k])
             /\ sent[m][j].call # sent[m][k].call => calls'[sent[m][j].call].state = "threw"
  BY <1>1, <1>2, <1>5 DEF MixedOnlyAfterThrow, EndedStay
<1>6. \A m \in 1..Len(sent) - 1 : Before(Last(sent[m]), Head(sent[m + 1]))
  BY <1>1 DEF MixedOnlyAfterThrow
<1>7. MixedOnlyAfterThrow'
  BY <1>5, <1>6 DEF MixedOnlyAfterThrow
<1> QED BY <1>4, <1>7

\* What is staged keeps its order when a call begins, and when one fails.
LEMMA StagedStays ==
  ASSUME Inv, Orderly, EndedStay, sent' = sent, staged' = staged,
         \/ ~Sending
         \/ Sending' /\ Len(calls') = Len(calls) /\ next' = next + 1
         \/ Current'.state = "threw" /\ Len(calls') = Len(calls)
  PROVE  StagedInOrder'
<1>1. StagedInOrder /\ (Sending => next \in Nat /\ calls # <<>>) /\ staged \in Seq(Part)
  BY InProgress DEF Orderly, Inv, TypeOK, Sending
<1>2. ASSUME NEW k \in 1..Len(staged)
      PROVE  /\ staged[k].call \in 1..Len(calls')
             /\ \/ calls'[staged[k].call].state = "threw"
                \/ Sending' /\ staged[k].call = Len(calls') /\ staged[k].nr < next'
  <2>0. staged[k].call \in 1..Len(calls) /\ staged[k].nr \in Nat
    <3>1. staged[k] \in Part
      BY <1>1, Element
    <3> QED BY <1>1, <3>1 DEF StagedInOrder, Part
  <2>1. staged[k].call \in 1..Len(calls')
    BY <2>0 DEF EndedStay
  <2>2. CASE calls[staged[k].call].state = "threw"
    BY <2>0, <2>1, <2>2 DEF EndedStay
  <2>3. CASE Sending /\ staged[k].call = Len(calls) /\ staged[k].nr < next
    <3>1. CASE Sending' /\ Len(calls') = Len(calls) /\ next' = next + 1
      BY <1>1, <2>0, <2>1, <2>3, <3>1
    <3>2. CASE Current'.state = "threw" /\ Len(calls') = Len(calls)
      BY <2>1, <2>3, <3>2 DEF Current
    <3> QED BY <2>3, <3>1, <3>2
  <2> QED BY <2>1, <2>2, <2>3, <1>1 DEF StagedInOrder
<1>3. /\ \A k \in 1..Len(staged') : sent' # <<>> => Last(sent'[Len(sent')]).call < staged'[k].call
      /\ \A j, k \in 1..Len(staged') : j < k => Before(staged'[j], staged'[k])
  BY <1>1 DEF StagedInOrder
<1> QED BY <1>2, <1>3 DEF StagedInOrder

\* A new call comes after all others.
LEMMA OrderlyBegin ==
  ASSUME Inv, Orderly, NEW guarded \in BOOLEAN, NEW asked \in Seq(Pieces), Begin(guarded, asked)
  PROVE  Orderly'
<1>1. TypeOK /\ sent' = sent /\ staged' = staged /\ ~Sending
  <2>1. TypeOK
    BY DEF Inv
  <2>2. sent' = sent /\ staged' = staged /\ ~Sending
    BY DEF Begin
  <2> QED BY <2>1, <2>2
<1>2. Len(calls') = Len(calls) + 1 /\ \A c \in 1..Len(calls) : calls'[c] = calls[c]
  BY <1>1, BeginChanges
<1>3. EndedStay
  <2>1. Len(calls) \in Nat
    BY <1>1 DEF TypeOK
  <2> QED BY <2>1, <1>2 DEF EndedStay
<1>4. SentIsSettled' /\ MixedOnlyAfterThrow'
  BY <1>1, <1>3, PipeStays
<1>5. StagedInOrder'
  BY <1>1, <1>3, StagedStays
<1> QED BY <1>4, <1>5 DEF Orderly

\* A failure leaves parts staged only of a call that threw or goes on.
LEMMA OrderlySendFails == Inv /\ Orderly /\ SendFails => Orderly'
<1> SUFFICES ASSUME Inv, Orderly, SendFails PROVE Orderly'
  OBVIOUS
<1>1. TypeOK /\ sent' = sent /\ staged' = staged /\ Sending
  BY DEF Inv, SendFails
<1>2. CASE Current.guarded /\ ~IsLast
  <2>1. calls' = calls /\ next' = next + 1 /\ Sending'
    BY <1>1, <1>2 DEF SendFails, Sending, Current
  <2>2. EndedStay
    BY <1>1, <2>1 DEF EndedStay, TypeOK
  <2> QED BY <1>1, <2>1, <2>2, PipeStays, StagedStays DEF Orderly
<1>3. CASE ~(Current.guarded /\ ~IsLast)
  <2>1. Ended("threw", Current.nbytes) /\ Current.nbytes \in Nat
    BY <1>1, <1>3, InProgress DEF SendFails, Call
  <2>2. Current'.state = "threw" /\ Len(calls') = Len(calls)
    BY <1>1, <2>1, EndedChanges
  <2>3. EndedStay
    BY <1>1, <2>1, EndedStayEnded
  <2> QED BY <1>1, <2>2, <2>3, PipeStays, StagedStays DEF Orderly
<1> QED BY <1>2, <1>3

\* A part is later than all that is staged, and than the last message.
LEMMA PartIsLatest ==
  ASSUME Inv, Orderly, Sending
  PROVE  /\ ThisPart \in Part /\ ThisPart.call = Len(calls) /\ ThisPart.nr = next
         /\ \A k \in 1..Len(staged) :
                /\ Before(staged[k], ThisPart)
                /\ staged[k].call # ThisPart.call => calls[staged[k].call].state = "threw"
         /\ sent # <<>> => Last(sent[Len(sent)]).call < ThisPart.call
<1>1. TypeOK /\ SentIsSettled /\ StagedInOrder /\ Len(calls) \in Nat
  BY InProgress DEF Inv, Orderly
<1>2. calls[Len(calls)].state = "sending"
  BY DEF Sending, Current
<1>3. ThisPart \in Part /\ ThisPart.call = Len(calls) /\ ThisPart.nr = next
  BY <1>1, InProgress DEF ThisPart
<1>4. ASSUME NEW k \in 1..Len(staged)
      PROVE  /\ Before(staged[k], ThisPart)
             /\ staged[k].call # ThisPart.call => calls[staged[k].call].state = "threw"
  <2>1. /\ staged[k].call \in 1..Len(calls)
        /\ \/ calls[staged[k].call].state = "threw"
           \/ staged[k].call = Len(calls) /\ staged[k].nr < next
    BY <1>1 DEF StagedInOrder
  <2>2. CASE calls[staged[k].call].state = "threw"
    <3>1. staged[k].call < Len(calls)
      BY <1>1, <1>2, <2>1, <2>2
    <3> QED BY <1>3, <2>2, <3>1 DEF Before
  <2>3. CASE staged[k].call = Len(calls) /\ staged[k].nr < next
    BY <1>3, <2>3 DEF Before
  <2> QED BY <2>1, <2>2, <2>3
<1>5. ASSUME sent # <<>> PROVE Last(sent[Len(sent)]).call < ThisPart.call
  <2>1. Len(sent) \in 1..Len(sent)
    BY <1>1, <1>5 DEF TypeOK
  <2>2. Last(sent[Len(sent)]).call \in 1..Len(calls)
    BY <1>1, <2>1, LastOfSent
  <2>3. calls[Last(sent[Len(sent)]).call].state = "returned"
    BY <1>1, <2>1 DEF SentIsSettled
  <2> QED BY <1>1, <1>2, <1>3, <2>2, <2>3
<1> QED BY <1>3, <1>4, <1>5

\* A part staged comes after those staged before.
LEMMA OrderlySendMore == Inv /\ Orderly /\ SendMore => Orderly'
<1> SUFFICES ASSUME Inv, Orderly, SendMore PROVE Orderly'
  OBVIOUS
<1>1. /\ TypeOK /\ Sending /\ StagedInOrder /\ sent' = sent /\ next' = next + 1
      /\ staged \in Seq(Part) /\ staged' = Append(staged, ThisPart)
  BY DEF Inv, Orderly, SendMore, TypeOK
<1>2. Ended("sending", Current.nbytes + Piece.len) /\ Current.nbytes + Piece.len \in Nat
  BY <1>1, InProgress DEF SendMore, Call, Pieces
<1>3. EndedStay
  BY <1>1, <1>2, EndedStayEnded
<1>4. Len(calls') = Len(calls) /\ Sending' /\ Len(calls) \in Nat \ {0} /\ next \in Nat
  BY <1>1, <1>2, EndedChanges, InProgress DEF Sending
<1>5. /\ ThisPart \in Part /\ ThisPart.call = Len(calls) /\ ThisPart.nr = next
      /\ \A k \in 1..Len(staged) : Before(staged[k], ThisPart)
      /\ sent # <<>> => Last(sent[Len(sent)]).call < ThisPart.call
  BY <1>1, PartIsLatest
<1>6. /\ Len(staged') = Len(staged) + 1 /\ staged'[Len(staged) + 1] = ThisPart
      /\ \A k \in 1..Len(staged) : staged'[k] = staged[k]
      /\ Len(staged) \in Nat
  BY <1>1, <1>5
<1>7. ASSUME NEW k \in 1..Len(staged')
      PROVE  /\ staged'[k].call \in 1..Len(calls')
             /\ \/ calls'[staged'[k].call].state = "threw"
                \/ Sending' /\ staged'[k].call = Len(calls') /\ staged'[k].nr < next'
             /\ sent' # <<>> => Last(sent'[Len(sent')]).call < staged'[k].call
  <2>1. CASE k = Len(staged) + 1
    BY <2>1, <1>1, <1>4, <1>5, <1>6
  <2>2. CASE k \in 1..Len(staged)
    <3>1. staged[k] \in Part /\ staged'[k] = staged[k]
      BY <2>2, <1>1, <1>6, Element
    <3>2. /\ staged[k].call \in 1..Len(calls) /\ staged[k].nr \in Nat
          /\ \/ calls[staged[k].call].state = "threw"
             \/ Sending /\ staged[k].call = Len(calls) /\ staged[k].nr < next
          /\ sent # <<>> => Last(sent[Len(sent)]).call < staged[k].call
      BY <2>2, <1>1, <3>1 DEF StagedInOrder, Part
    <3>3. calls[staged[k].call].state = "threw" => calls'[staged[k].call].state = "threw"
      BY <3>2, <1>3 DEF EndedStay
    <3> QED BY <1>1, <1>4, <3>1, <3>2, <3>3
  <2> QED BY <2>1, <2>2, <1>6
<1>8. ASSUME NEW j \in 1..Len(staged'), NEW k \in 1..Len(staged'), j < k
      PROVE  Before(staged'[j], staged'[k])
  <2>1. j \in 1..Len(staged) /\ staged'[j] = staged[j]
    BY <1>6, <1>8
  <2>2. CASE k = Len(staged) + 1
    BY <2>1, <2>2, <1>5, <1>6
  <2>3. CASE k \in 1..Len(staged)
    BY <2>1, <2>3, <1>1, <1>6, <1>8 DEF StagedInOrder
  <2> QED BY <2>2, <2>3, <1>6
<1>9. StagedInOrder'
  BY <1>7, <1>8 DEF StagedInOrder
<1> QED BY <1>1, <1>3, <1>9, PipeStays DEF Orderly

\* A message in the pipe ends with a part of the call that returned.
LEMMA OrderlySendLast == Inv /\ Orderly /\ SendLast => Orderly'
<1> SUFFICES ASSUME Inv, Orderly, SendLast PROVE Orderly'
  OBVIOUS
<1> DEFINE message == Append(staged, ThisPart)
           top == Len(sent)
<1>1. /\ TypeOK /\ Sending /\ staged \in Seq(Part) /\ staged' = <<>>
      /\ SentIsSettled /\ StagedInOrder /\ MixedOnlyAfterThrow
  BY DEF Inv, Orderly, SendLast, TypeOK
<1>2. /\ message \in Seq(Part) /\ Len(message) = Len(staged) + 1
      /\ sent' \in Seq(Seq(Part)) /\ Len(sent') = top + 1 /\ sent'[top + 1] = message
      /\ \A m \in 1..top : sent'[m] = sent[m]
      /\ Len(calls') = Len(calls) /\ calls' # <<>> /\ Current'.state = "returned"
      /\ \A c \in 1..Len(calls) - 1 : calls'[c] = calls[c]
  BY <1>1, SendLastSends
<1>3. /\ ThisPart \in Part /\ ThisPart.call = Len(calls)
      /\ \A k \in 1..Len(staged) :
             /\ Before(staged[k], ThisPart)
             /\ staged[k].call # ThisPart.call => calls[staged[k].call].state = "threw"
      /\ sent # <<>> => Last(sent[top]).call < ThisPart.call
  BY <1>1, PartIsLatest
<1>4. /\ Len(calls) \in Nat \ {0} /\ Len(staged) \in Nat /\ top \in Nat
      /\ calls[Len(calls)].state = "sending"
  BY <1>1, InProgress DEF TypeOK, Sending, Current
<1>c. Len(calls') = Len(calls) /\ \A c \in 1..Len(calls) - 1 : calls'[c] = calls[c]
  BY <1>2
<1>5. EndedStay
  BY <1>c, <1>4 DEF EndedStay
<1>6. /\ message[Len(staged) + 1] = ThisPart
      /\ \A k \in 1..Len(staged) : message[k] = staged[k]
      /\ Last(message) = ThisPart
  BY <1>1, <1>2, <1>3 DEF Last
<1> HIDE DEF message
<1>7. \A k \in 1..Len(staged) : staged[k].call \in 1..Len(calls)
  BY <1>1 DEF StagedInOrder
<1>8. SentIsSettled'
  <2>1. ASSUME NEW m \in 1..top
        PROVE  /\ \A k \in 1..Len(sent'[m]) : sent'[m][k].call \in 1..Len(calls')
               /\ calls'[Last(sent'[m]).call].state = "returned"
    <3>1. sent'[m] = sent[m] /\ Last(sent[m]).call \in 1..Len(calls)
          /\ calls[Last(sent[m]).call].state = "returned"
      BY <1>1, <1>2, LastOfSent DEF SentIsSettled
    <3> QED BY <1>1, <1>2, <1>5, <3>1 DEF SentIsSettled, EndedStay
  <2>2. ASSUME NEW k \in 1..Len(message) PROVE message[k].call \in 1..Len(calls')
    <3>1. Len(message) = Len(staged) + 1 /\ ThisPart.call = Len(calls)
      BY <1>2, <1>3
    <3>2. CASE k = Len(staged) + 1
      <4>1. message[k] = ThisPart
        BY <1>6, <3>2
      <4> QED BY <1>4, <1>c, <3>1, <4>1
    <3>3. CASE k \in 1..Len(staged)
      <4>1. message[k] = staged[k]
        BY <1>6, <3>3
      <4> QED BY <1>c, <1>7, <3>3, <4>1
    <3> QED BY <1>4, <3>1, <3>2, <3>3
  <2>3. calls'[Last(message).call].state = "returned"
    BY <1>2, <1>3, <1>6 DEF Current
  <2>4. \A m \in 1..Len(sent') : m \in 1..top \/ m = top + 1
    BY <1>2, <1>4
  <2> QED BY <1>2, <2>1, <2>2, <2>3, <2>4 DEF SentIsSettled
<1>9. ASSUME NEW j \in 1..Len(message), NEW k \in 1..Len(message), j < k
      PROVE  /\ Before(message[j], message[k])
             /\ message[j].call # message[k].call => calls'[message[j].call].state = "threw"
  <2>1. j \in 1..Len(staged) /\ message[j] = staged[j]
    BY <1>2, <1>4, <1>6, <1>9
  <2>2. CASE k = Len(staged) + 1
    <3>1. message[k] = ThisPart
      BY <1>6, <2>2
    <3>2. calls[staged[j].call].state = "threw" => calls'[staged[j].call].state = "threw"
      BY <1>5, <1>7, <2>1 DEF EndedStay
    <3> QED BY <1>3, <2>1, <3>1, <3>2
  <2>3. CASE k \in 1..Len(staged)
    <3>1. message[k] = staged[k] /\ Before(staged[j], staged[k])
      BY <1>1, <1>6, <1>9, <2>1, <2>3 DEF StagedInOrder
    <3>2. ASSUME staged[j].call # staged[k].call PROVE calls'[staged[j].call].state = "threw"
      <4>1. staged[j].call < Len(calls)
        BY <1>4, <1>7, <2>1, <2>3, <3>1, <3>2 DEF Before
      <4>2. calls[staged[j].call].state = "threw"
        BY <1>3, <2>1, <4>1
      <4> QED BY <1>5, <1>7, <2>1, <4>2 DEF EndedStay
    <3> QED BY <2>1, <3>1, <3>2
  <2> QED BY <2>2, <2>3, <1>2, <1>4
<1>10. ASSUME NEW m \in 1..Len(sent') - 1
       PROVE  Before(Last(sent'[m]), Head(sent'[m + 1]))
  <2>1. m \in 1..top /\ sent'[m] = sent[m]
    BY <1>2, <1>4
  <2>2. CASE m = top
    <3>1. sent # <<>> /\ sent'[m + 1] = message
      BY <1>2, <1>4, <2>1, <2>2
    <3>2. Head(message) = message[1]
      BY <1>2
    <3>3. CASE Len(staged) = 0
      BY <1>3, <1>6, <2>1, <2>2, <3>1, <3>2, <3>3 DEF Before
    <3>4. CASE Len(staged) # 0
      <4>1. message[1] = staged[1] /\ Last(sent[top]).call < staged[1].call
        BY <1>1, <1>4, <1>6, <3>1, <3>4 DEF StagedInOrder
      <4> QED BY <2>1, <2>2, <3>1, <3>2, <4>1 DEF Before
    <3> QED BY <3>3, <3>4
  <2>3. CASE m \in 1..top - 1
    <3>1. m + 1 \in 1..top /\ sent'[m + 1] = sent[m + 1] /\ m \in 1..Len(sent) - 1
      BY <1>2, <1>4, <2>3
    <3>2. Before(Last(sent[m]), Head(sent[m + 1]))
      BY <1>1, <3>1 DEF MixedOnlyAfterThrow
    <3> QED BY <2>1, <3>1, <3>2
  <2> QED BY <1>4, <2>1, <2>2, <2>3
<1>11. ASSUME NEW m \in 1..Len(sent'), NEW j \in 1..Len(sent'[m]), NEW k \in 1..Len(sent'[m]), j < k
       PROVE  /\ Before(sent'[m][j], sent'[m][k])
              /\ sent'[m][j].call # sent'[m][k].call => calls'[sent'[m][j].call].state = "threw"
  <2>1. CASE m = top + 1
    BY <1>2, <1>9, <1>11, <2>1
  <2>2. CASE m \in 1..top
    <3>1. /\ sent'[m] = sent[m] /\ sent[m][j].call \in 1..Len(calls)
          /\ j \in 1..Len(sent[m]) /\ k \in 1..Len(sent[m])
      BY <1>1, <1>2, <1>11, <2>2 DEF SentIsSettled
    <3>2. /\ Before(sent[m][j], sent[m][k])
          /\ sent[m][j].call # sent[m][k].call => calls[sent[m][j].call].state = "threw"
      BY <1>1, <1>11, <2>2, <3>1 DEF MixedOnlyAfterThrow
    <3>3. calls[sent[m][j].call].state = "threw" => calls'[sent[m][j].call].state = "threw"
      BY <1>5, <3>1 DEF EndedStay
    <3> QED BY <3>1, <3>2, <3>3
  <2> QED BY <1>2, <1>4, <2>1, <2>2
<1>12. MixedOnlyAfterThrow'
  BY <1>10, <1>11 DEF MixedOnlyAfterThrow
<1>13. StagedInOrder'
  BY <1>1 DEF StagedInOrder
<1> QED BY <1>8, <1>12, <1>13 DEF Orderly

\* The receiver does not touch the order.
LEMMA OrderlyStays ==
  ASSUME Inv, Orderly, UNCHANGED <<senderVars, sent>>
  PROVE  Orderly'
<1>1. /\ sent' = sent /\ staged' = staged /\ calls' = calls /\ next' = next
      /\ (Sending' <=> Sending)
  BY DEF senderVars, Sending, Current
<1>2. EndedStay
  BY <1>1 DEF EndedStay, Inv, TypeOK
<1>3. StagedInOrder'
  BY <1>1 DEF Orderly, StagedInOrder
<1> QED BY <1>1, <1>2, <1>3, PipeStays DEF Orderly

\* Every step keeps the order.
LEMMA OrderlyNext == Inv /\ Orderly /\ [Next]_vars => Orderly'
<1> SUFFICES ASSUME Inv, Orderly, [Next]_vars PROVE Orderly'
  OBVIOUS
<1>1. CASE SendCell \/ SendParts \/ SendArray
  BY <1>1, CallsBegin, OrderlyBegin
<1>2. CASE SendStep
  BY <1>2, OrderlySendFails, OrderlySendMore, OrderlySendLast DEF SendStep
<1>3. CASE RecvCall \/ RecvPart \/ RecvFails
  <2>1. UNCHANGED <<senderVars, sent>>
    BY <1>3 DEF RecvCall, RecvPart, RecvFails
  <2> QED BY <2>1, OrderlyStays
<1>4. CASE UNCHANGED vars
  BY <1>4, OrderlyStays DEF vars
<1> QED BY <1>1, <1>2, <1>3, <1>4 DEF Next

\* No parts, no disorder.
LEMMA OrderlyInit == Init => Orderly
<1> SUFFICES ASSUME Init PROVE Orderly
  OBVIOUS
<1>1. Len(sent) = 0 /\ Len(staged) = 0
  BY DEF Init
<1> QED BY <1>1 DEF Orderly, SentIsSettled, StagedInOrder, MixedOnlyAfterThrow

\* The parts stay in order for good.
LEMMA SpecOrderly == Spec => []Orderly
  BY OrderlyInit, OrderlyNext, SpecInv, PTL DEF Spec

\* Parts never change places, and only calls that threw leave parts to the next message.
THEOREM PartsInOrder == Spec => []MixedOnlyAfterThrow
<1>1. Orderly => MixedOnlyAfterThrow
  BY DEF Orderly
<1> QED BY SpecOrderly, <1>1, PTL

-----------------------------------------------------------------------------
(* The channel                                                             *)

\* libzmq keeps the room it found for the first part of a message.
RoomIsKept == staged # <<>> => Len(sent) - taken < Hwm

\* Nothing is staged at first.
LEMMA RoomInit == Init => RoomIsKept
  BY DEF Init, RoomIsKept

\* Only the end of a message fills the room kept for it.
LEMMA RoomNext == Inv /\ RoomIsKept /\ [Next]_vars => RoomIsKept'
<1> SUFFICES ASSUME Inv, RoomIsKept, [Next]_vars PROVE RoomIsKept'
  OBVIOUS
<1>0. TypeOK /\ Len(sent) \in Nat /\ taken \in Nat /\ Hwm \in Nat
  BY HwmAssumption DEF Inv, TypeOK
<1>1. CASE SendCell \/ SendParts \/ SendArray \/ SendFails
  BY <1>1, CallsBegin DEF Begin, SendFails, receiverVars, RoomIsKept
<1>2. CASE SendMore
  BY <1>0, <1>2 DEF SendMore, Full, receiverVars, RoomIsKept
<1>3. CASE SendLast
  BY <1>3 DEF SendLast, RoomIsKept
<1>4. CASE RecvPart
  <2>1. staged' = staged /\ sent' = sent /\ taken' \in {taken, taken + 1}
    BY <1>4 DEF RecvPart, senderVars
  <2> QED BY <1>0, <2>1 DEF RoomIsKept
<1>5. CASE RecvCall \/ RecvFails
  BY <1>5 DEF RecvCall, RecvFails, senderVars, RoomIsKept
<1>6. CASE UNCHANGED vars
  BY <1>6 DEF vars, senderVars, receiverVars, RoomIsKept
<1> QED BY <1>1, <1>2, <1>3, <1>4, <1>5, <1>6 DEF Next, SendStep

\* The messages that wait.
LEMMA Waiting ==
  ASSUME TypeOK
  PROVE  /\ Len(waiting) = Len(sent) - taken /\ Len(waiting) \in Nat
         /\ DOMAIN waiting = 1..Len(waiting)
         /\ \A m \in 1..Len(waiting) : waiting[m] = Named(sent[taken + m])
<1>1. Len(sent) - taken \in Nat
  BY DEF TypeOK
<1> QED BY <1>1 DEF waiting

\* A message that is complete is handed over in one step.
LEMMA LastPuts == Inv /\ RoomIsKept /\ SendLast => Ch!Put
<1> SUFFICES ASSUME Inv, RoomIsKept, SendLast PROVE Ch!Put
  OBVIOUS
<1> DEFINE message == Append(staged, ThisPart)
<1>1. TypeOK /\ staged \in Seq(Part) /\ Len(staged) \in Nat
  BY DEF Inv, TypeOK
<1>2. /\ message \in Seq(Part) /\ Len(message) = Len(staged) + 1
      /\ Len(sent') = Len(sent) + 1 /\ sent'[Len(sent) + 1] = message
      /\ \A m \in 1..Len(sent) : sent'[m] = sent[m]
      /\ taken' = taken /\ answer' = answer
  BY <1>1, SendLastSends
<1>3. Len(waiting) < Hwm
  <2>1. Len(sent) - taken < Hwm
    BY <1>1, HwmAssumption DEF SendLast, Full, RoomIsKept, TypeOK
  <2> QED BY <2>1, <1>1, Waiting
<1>4. /\ Len(waiting) = Len(sent) - taken /\ Len(waiting) \in Nat
      /\ DOMAIN waiting = 1..Len(waiting)
      /\ \A m \in 1..Len(waiting) : waiting[m] = Named(sent[taken + m])
      /\ Len(sent) \in Nat /\ taken \in 0..Len(sent)
  BY <1>1, Waiting DEF TypeOK
<1> HIDE DEF message
<1>5. waiting' = [m \in 1..Len(waiting) + 1 |-> Named(sent'[taken + m])]
  BY <1>2, <1>4 DEF waiting
<1>6. Len(waiting') = Len(waiting) + 1
  BY <1>4, <1>5
<1>7. \A m \in 1..Len(waiting) : waiting'[m] = waiting[m]
  <2>1. \A m \in 1..Len(waiting) : taken + m \in 1..Len(sent) /\ sent'[taken + m] = sent[taken + m]
    BY <1>2, <1>4
  <2> QED BY <1>4, <1>5, <2>1
<1>8. SubSeq(waiting', 1, Len(waiting)) = waiting
  <2>1. SubSeq(waiting', 1, Len(waiting)) = [m \in 1..Len(waiting) |-> waiting'[m]]
    BY <1>4, <1>5, <1>6
  <2>2. waiting = [m \in 1..Len(waiting) |-> waiting[m]]
    BY <1>4 DEF waiting
  <2> QED BY <1>7, <2>1, <2>2
<1>9. waiting'[Len(waiting')] # <<>>
  <2>1. waiting'[Len(waiting) + 1] = Named(message)
    BY <1>2, <1>4, <1>5
  <2>2. Len(Named(message)) = Len(staged) + 1
    BY <1>1, <1>2 DEF Named
  <2> QED BY <1>1, <1>6, <2>1, <2>2
<1>10. delivered' = delivered
  BY <1>2 DEF delivered
<1> QED BY <1>3, <1>6, <1>8, <1>9, <1>10 DEF Ch!Put

\* A message that is received to its last part is taken in one step.
LEMMA LastTakes ==
  ASSUME Inv, ReceivedWhole, RecvPart, taken' = taken + 1
  PROVE  Ch!Take
<1> DEFINE message == sent[taken + 1]
           top == received'[taken + 1]
<1>1. /\ TypeOK /\ sent' = sent
      /\ taken \in Nat /\ taken < Len(sent)
      /\ message \in Seq(Part) /\ Len(message) \in Nat \ {0}
      /\ Len(sent) \in Nat
  <2>1. TypeOK /\ sent' = sent /\ taken < Len(sent)
    BY DEF Inv, RecvPart
  <2>2. taken \in Nat /\ Len(sent) \in Nat
    BY <2>1 DEF TypeOK
  <2>3. message \in Seq(Part) /\ Len(message) \in Nat \ {0}
    BY <2>1, RecvPartTakes
  <2> QED BY <2>1, <2>2, <2>3
<1>2. /\ Len(waiting) = Len(sent) - taken /\ Len(waiting) \in Nat \ {0}
      /\ \A m \in 1..Len(waiting) : waiting[m] = Named(sent[taken + m])
      /\ waiting' = [m \in 1..Len(waiting) - 1 |-> Named(sent[taken + 1 + m])]
  BY <1>1, Waiting DEF waiting
<1>3. waiting # <<>> /\ Head(waiting) = Named(message)
  BY <1>2
<1>4. waiting' = Tail(waiting)
  <2> DEFINE S == {Named(sent[m]) : m \in 1..Len(sent)}
  <2>a. \A m \in 1..Len(waiting) : waiting[m] \in S
    <3>1. \A m \in 1..Len(waiting) : taken + m \in 1..Len(sent)
      BY <1>1, <1>2
    <3> QED BY <1>2, <3>1
  <2> HIDE DEF S
  <2>b. waiting = [m \in 1..Len(waiting) |-> waiting[m]]
    BY <1>1, Waiting DEF waiting
  <2>c. waiting \in Seq(S)
    BY <1>2, <2>a, <2>b
  <2>1. Tail(waiting) = [m \in 1..Len(waiting) - 1 |-> waiting[m + 1]]
    <3>1. /\ Tail(waiting) \in Seq(S) /\ Len(Tail(waiting)) = Len(waiting) - 1
          /\ \A m \in 1..Len(Tail(waiting)) : Tail(waiting)[m] = waiting[m + 1]
      BY <1>3, <2>c, HeadTailProperties
    <3>2. \A q \in Seq(S) : q = [m \in 1..Len(q) |-> q[m]]
      OBVIOUS
    <3> QED BY <3>1, <3>2
  <2>2. \A m \in 1..Len(waiting) - 1 : waiting[m + 1] = Named(sent[taken + 1 + m])
    BY <1>1, <1>2
  <2> QED BY <1>2, <2>1, <2>2
<1>5. /\ received' \in Seq(Result) /\ Len(received') = taken + 1
      /\ top.parts = Returned(top.method, Shown(message, Len(message), top.buf))
  <2>1. ReceivedWhole' /\ TypeOK'
    BY WholeRecvPart, RecvPartInv DEF Inv
  <2>2. received' \in Seq(Result) /\ Len(received') = taken + 1
    BY <2>1 DEF ReceivedWhole, TypeOK
  <2>3. taken + 1 \in 1..taken' /\ sent'[taken + 1] = message
    BY <1>1
  <2>4. top.parts = Returned(top.method, Shown(sent'[taken + 1], Len(sent'[taken + 1]), top.buf))
    BY <2>1, <2>3 DEF ReceivedWhole
  <2> QED BY <2>2, <2>3, <2>4
<1>6. delivered' = Named(top.parts)
  <2> DEFINE parts == Append(got, Cut(message[read + 1], buf))
             result == [method |-> receiving, buf |-> buf, parts |-> Returned(receiving, parts)]
  <2>1. taken' # taken
    BY <1>1
  <2>2. received' = Append(received, result) /\ answer' = result.parts
    BY <2>1 DEF RecvPart, Return
  <2>3. received \in Seq(Result) /\ Len(received) = taken
    BY DEF Inv, TypeOK, ReceivedWhole
  <2> HIDE DEF result
  <2>4. received'[taken + 1] = result
    BY <2>2, <2>3
  <2> QED BY <2>2, <2>4 DEF delivered
<1> HIDE DEF message, top
<1>7. \A k \in 1..Len(message) : message[k] \in Part
  BY <1>1, Element
<1>8. \A bufLen : Named(Shown(message, Len(message), bufLen)) = Named(message)
  BY <1>1, <1>7 DEF Named, Shown, Cut, Part
<1>9. \A bufLen : Named(<<Shown(message, Len(message), bufLen)[1]>>) = <<Named(message)[1]>>
  <2>1. Named(message)[1] = <<message[1].call, message[1].nr>> /\ message[1] \in Part
    BY <1>1, <1>7 DEF Named
  <2>2. \A bufLen : Shown(message, Len(message), bufLen)[1] = Cut(message[1], bufLen)
    BY <1>1 DEF Shown
  <2>3. \A bufLen : /\ Cut(message[1], bufLen).call = message[1].call
                   /\ Cut(message[1], bufLen).nr = message[1].nr
    BY <2>1 DEF Cut, Part
  <2>4. ASSUME NEW x PROVE Named(<<x>>) = <<<<x.call, x.nr>>>>
    BY DEF Named
  <2>5. ASSUME NEW bufLen
        PROVE  Named(<<Shown(message, Len(message), bufLen)[1]>>) = <<Named(message)[1]>>
    <3>1. Named(<<Shown(message, Len(message), bufLen)[1]>>) = Named(<<Cut(message[1], bufLen)>>)
      BY <2>2
    <3>2. Named(<<Cut(message[1], bufLen)>>) = <<<<message[1].call, message[1].nr>>>>
      BY <2>3, <2>4
    <3> QED BY <2>1, <3>1, <3>2
  <2> QED BY <2>5
<1> QED BY <1>3, <1>4, <1>5, <1>6, <1>8, <1>9 DEF Ch!Take, Returned

\* Every step of the methods is a step of the channel, or one it does not see.
LEMMA ChannelStep ==
  Inv /\ RoomIsKept /\ ReceivedWhole /\ [Next]_vars => [Ch!Next]_(Ch!vars)
<1> SUFFICES ASSUME Inv, RoomIsKept, ReceivedWhole, [Next]_vars PROVE [Ch!Next]_(Ch!vars)
  OBVIOUS
<1>1. ASSUME UNCHANGED <<sent, taken, answer>> PROVE UNCHANGED Ch!vars
  BY <1>1 DEF Ch!vars, waiting, delivered
<1>2. CASE SendCell \/ SendParts \/ SendArray \/ SendFails \/ SendMore
  <2>1. UNCHANGED <<sent, taken, answer>>
    BY <1>2, CallsBegin DEF Begin, SendFails, SendMore, receiverVars
  <2> QED BY <1>1, <2>1
<1>3. CASE SendLast
  BY <1>3, LastPuts DEF Ch!Next
<1>4. CASE RecvPart
  <2>1. CASE taken' = taken + 1
    BY <1>4, <2>1, LastTakes DEF Ch!Next
  <2>2. CASE taken' # taken + 1
    <3>1. UNCHANGED <<sent, taken, answer>>
      BY <1>4, <2>2 DEF RecvPart
    <3> QED BY <1>1, <3>1
  <2> QED BY <2>1, <2>2
<1>5. CASE RecvCall
  <2>1. UNCHANGED <<sent, taken, answer>>
    BY <1>5 DEF RecvCall
  <2> QED BY <1>1, <2>1
<1>7. CASE RecvFails
  <2>1. /\ sent' = sent /\ taken' = taken /\ taken = Len(sent)
        /\ answer' = <<>> \/ answer' = answer
    BY <1>7 DEF RecvFails
  <2>2. CASE answer' = answer
    BY <1>1, <2>1, <2>2
  <2>3. CASE answer' = <<>>
    <3>1. Len(sent) \in Nat
      BY DEF Inv, TypeOK
    <3>2. waiting = <<>> /\ waiting' = waiting
      BY <2>1, <3>1 DEF waiting
    <3>3. delivered' = <<>>
      BY <2>3 DEF delivered, Named
    <3> QED BY <3>2, <3>3 DEF Ch!Next, Ch!Miss
  <2> QED BY <2>1, <2>2, <2>3
<1>6. CASE UNCHANGED vars
  <2>1. UNCHANGED <<sent, taken, answer>>
    BY <1>6 DEF vars, receiverVars
  <2> QED BY <1>1, <2>1
<1> QED BY <1>2, <1>3, <1>4, <1>5, <1>6, <1>7 DEF Next, SendStep

\* The pipe is empty at first.
LEMMA ChannelInit == Init => Ch!Init
<1> SUFFICES ASSUME Init PROVE Ch!Init
  OBVIOUS
<1>1. waiting = <<>>
  <2>1. Len(sent) - taken = 0
    BY DEF Init
  <2> QED BY <2>1 DEF waiting
<1>2. delivered = <<>>
  BY DEF Init, delivered, Named
<1> QED BY <1>1, <1>2 DEF Ch!Init

\* The methods implement the channel: messages are handed over whole, and taken whole.
THEOREM ImplementsChannel == Spec => ChannelSafety
  BY ChannelInit, ChannelStep, SpecInv, RoomInit, RoomNext, WholeInit, WholeNext, PTL
     DEF Spec, ChannelSafety
=============================================================================
