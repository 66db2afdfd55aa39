----------------------------- MODULE Poll_proofs -----------------------------
(***************************************************************************)
(* Proofs about Poll, for any sockets, items, shapes and limit.            *)
(*                                                                         *)
(* ReadyMeansNoWait speaks of the result the program looks at; it lasts    *)
(* only because the same holds of every result still to come, and because  *)
(* no two of them name one socket.  Ahead says so and is inductive.        *)
(***************************************************************************)
EXTENDS Poll, TLAPS

\* What result n promises about its socket.
Promise(n) ==
    /\ "in" \in results[n].revents => inbox[results[n].socket] > 0
    /\ "out" \in results[n].revents => outbox[results[n].socket] < Limit

\* The results are those of the items, and those not handled yet can be relied upon.
Ahead ==
    place = "looking" =>
        /\ \A n \in 1..nitems : results[n].socket = items[n].socket
        /\ \A n \in i..nitems : Promise(n)

Inv == TypeOK /\ Ahead

-----------------------------------------------------------------------------

\* An element of a sequence.
LEMMA Element ==
  ASSUME NEW S, NEW q \in Seq(S), NEW n \in 1..Len(q)
  PROVE  q[n] \in S
  OBVIOUS

\* A result names one of the sockets.
LEMMA ResultOfSocket ==
  ASSUME TypeOK, NEW n \in 1..Len(results)
  PROVE  results[n].socket \in Socket /\ results[n].revents \in SUBSET Events
<1>1. results \in Seq(Result)
  BY DEF TypeOK
<1>2. results[n] \in Result
  BY <1>1, Element
<1> QED BY <1>2 DEF Result

\* At least one item is polled, and none that is not there.
LEMMA Polled ==
  ASSUME items \in Items, shape \in Shapes
  PROVE  /\ items \in Seq(Item) /\ Distinct(items)
         /\ nitems \in Nat \ {0} /\ nitems <= Len(items)
<1>1. items \in Seq(Item) /\ items # <<>> /\ Distinct(items)
  BY ItemsAssumption
<1>2. Len(items) \in Nat \ {0}
  BY <1>1
<1> QED BY <1>1, <1>2 DEF nitems

\* The answer of poll has one result per polled item, and is true when it is given.
LEMMA Answered ==
  ASSUME items \in Items, shape \in Shapes
  PROVE  /\ Answer \in Seq(Result)
         /\ Len(Answer) = nitems
         /\ \A n \in 1..nitems :
               /\ Answer[n].socket = items[n].socket
               /\ Answer[n].revents \subseteq Ready(items[n].socket)
<1>1. /\ items \in Seq(Item)
      /\ nitems \in Nat \ {0} /\ nitems <= Len(items)
  BY Polled
<1>2. \A n \in 1..nitems : items[n] \in Item
  BY <1>1
<1>3. Answer \in [1..nitems -> Result]
  BY <1>2 DEF Answer, Item, Result
<1> QED BY <1>1, <1>3 DEF Answer

\* The program starts before its first poll.
LEMMA InitInv == Init => Inv
<1> SUFFICES ASSUME Init PROVE TypeOK
  BY DEF Init, Inv, Ahead
<1>1. 0 \in 0..Limit
  BY LimitAssumption
<1>2. <<>> \in Seq(Result)
  OBVIOUS
<1> QED BY <1>1, <1>2 DEF Init, TypeOK

-----------------------------------------------------------------------------

\* Every step keeps the types.
LEMMA TypeNext == TypeOK /\ [Next]_vars => TypeOK'
<1> SUFFICES ASSUME TypeOK, [Next]_vars PROVE TypeOK'
  OBVIOUS
<1> USE DEF TypeOK
<1>n. nitems \in Nat \ {0} /\ nitems <= Len(items) /\ items \in Seq(Item)
  BY Polled
<1>1. ASSUME NEW s \in Socket, Deliver(s) PROVE TypeOK'
  BY <1>1, LimitAssumption DEF Deliver, program, nitems
<1>2. ASSUME NEW s \in Socket, Drain(s) PROVE TypeOK'
  BY <1>2, LimitAssumption DEF Drain, program, nitems
<1>3. CASE Poll
  BY <1>3 DEF Poll, pipes
<1>4. CASE PollReturns
  BY <1>4, <1>n, Answered DEF PollReturns, pipes, nitems
<1>5. CASE PollThrows
  BY <1>5 DEF PollThrows, pipes
<1>6. CASE Look
  <2> DEFINE s == results[i].socket
  <2>0. place = "looking" /\ i \in 1..Len(results)
    BY <1>6, <1>n DEF Look
  <2>2. s \in Socket /\ inbox[s] \in 0..Limit /\ outbox[s] \in 0..Limit
    BY <2>0, ResultOfSocket
  <2>3. inbox' \in [Socket -> 0..Limit]
    BY <1>6, <2>2, LimitAssumption DEF Look, Moved
  <2>4. outbox' \in [Socket -> 0..Limit]
    BY <1>6, <2>2, LimitAssumption DEF Look, Moved
  <2>5. place' = "looking" => Len(results') = nitems' /\ i' \in 1..nitems'
    <3>1. nitems' = nitems /\ results' = results /\ Len(results) = nitems
      BY <1>6, <2>0 DEF Look, nitems
    <3>2. place' = "looking" => i' = i + 1 /\ i # Len(results)
      BY <1>6 DEF Look
    <3>3. i \in 1..nitems
      BY <2>0
    <3> QED BY <3>1, <3>2, <3>3, <1>n
  <2> QED BY <1>6, <2>3, <2>4, <2>5 DEF Look
<1>7. CASE UNCHANGED vars
  BY <1>7 DEF vars, pipes, program, nitems
<1> QED BY <1>1, <1>2, <1>3, <1>4, <1>5, <1>6, <1>7 DEF Next

\* Every step keeps what lies ahead.
LEMMA AheadNext == Inv /\ [Next]_vars => Ahead'
<1> SUFFICES ASSUME TypeOK, Ahead, [Next]_vars, TypeOK', place' = "looking"
             PROVE  /\ \A n \in 1..nitems' : results'[n].socket = items'[n].socket
                    /\ \A n \in i'..nitems' : Promise(n)'
  BY TypeNext DEF Inv, Ahead
<1>n. /\ items \in Seq(Item) /\ Distinct(items)
      /\ nitems \in Nat \ {0} /\ nitems <= Len(items)
  BY Polled DEF TypeOK
<1>1. ASSUME NEW s \in Socket, Deliver(s) \/ Drain(s)
      PROVE  /\ \A n \in 1..nitems' : results'[n].socket = items'[n].socket
             /\ \A n \in i'..nitems' : Promise(n)'
  <2>1. place = "looking" /\ results' = results /\ items' = items /\ i' = i /\ nitems' = nitems
    BY <1>1 DEF Deliver, Drain, program, nitems
  <2>2. \A n \in 1..nitems : results[n].socket \in Socket
    BY <2>1, ResultOfSocket DEF TypeOK
  <2>3. /\ \A t \in Socket : inbox[t] > 0 => inbox'[t] > 0
        /\ \A t \in Socket : outbox[t] < Limit => outbox'[t] < Limit
    <3>1. CASE Deliver(s)
      BY <3>1, LimitAssumption DEF Deliver, TypeOK
    <3>2. CASE Drain(s)
      BY <3>2, LimitAssumption DEF Drain, TypeOK
    <3> QED BY <1>1, <3>1, <3>2
  <2> QED BY <2>1, <2>2, <2>3 DEF Ahead, Promise, TypeOK
<1>2. CASE PollReturns
  <2>1. results' = Answer /\ i' = 1 /\ nitems' = nitems /\ items' = items
        /\ inbox' = inbox /\ outbox' = outbox
    BY <1>2 DEF PollReturns, pipes, nitems
  <2>2. \A n \in 1..nitems :
            /\ Answer[n].socket = items[n].socket
            /\ Answer[n].revents \subseteq Ready(items[n].socket)
    BY Answered DEF TypeOK
  <2> QED BY <2>1, <2>2 DEF Promise, Ready
<1>3. CASE Look
  <2>1. /\ place = "looking" /\ i' = i + 1 /\ results' = results
        /\ items' = items /\ nitems' = nitems
        /\ Len(results) = nitems /\ i \in 1..nitems
    BY <1>3 DEF Look, nitems, TypeOK
  <2>2. \A n \in 1..nitems : results[n].socket = items[n].socket /\ results[n].socket \in Socket
    BY <2>1, ResultOfSocket DEF Ahead
  <2>3. ASSUME NEW n \in i'..nitems PROVE Promise(n)'
    <3>1. n \in i..nitems /\ n \in 1..nitems /\ n # i
      BY <2>1
    <3>2. results[n].socket # results[i].socket
      BY <2>1, <2>2, <3>1, <1>n DEF Distinct
    <3>3. /\ inbox'[results[n].socket] = inbox[results[n].socket]
          /\ outbox'[results[n].socket] = outbox[results[n].socket]
      BY <1>3, <2>2, <3>1, <3>2 DEF Look, TypeOK
    <3>4. Promise(n)
      BY <2>1, <3>1 DEF Ahead
    <3> QED BY <2>1, <3>3, <3>4 DEF Promise
  <2> QED BY <2>1, <2>2, <2>3
<1>4. CASE Poll \/ PollThrows
  BY <1>4 DEF Poll, PollThrows
<1>5. CASE UNCHANGED vars
  BY <1>5 DEF vars, pipes, program, nitems, Ahead, Promise
<1> QED BY <1>1, <1>2, <1>3, <1>4, <1>5 DEF Next

\* The invariant holds for good.
LEMMA SpecInv == Spec => []Inv
<1>1. Inv /\ [Next]_vars => Inv'
  BY TypeNext, AheadNext DEF Inv
<1> QED BY InitInv, <1>1, PTL DEF Spec

-----------------------------------------------------------------------------

\* The loop stays within the results, and the pipes within their limit.
THEOREM TypeCorrect == Spec => []TypeOK
<1>1. Inv => TypeOK
  BY DEF Inv
<1> QED BY SpecInv, <1>1, PTL

\* No recv and no send of the program's loop waits, however late it comes to a result.
THEOREM NoWait == Spec => []ReadyMeansNoWait
<1>1. Inv => ReadyMeansNoWait
  BY DEF Inv, TypeOK, Ahead, Promise, ReadyMeansNoWait
<1> QED BY SpecInv, <1>1, PTL
=============================================================================
