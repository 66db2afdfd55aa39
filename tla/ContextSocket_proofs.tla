------------------------ MODULE ContextSocket_proofs ------------------------
(***************************************************************************)
(* Proofs about ContextSocket, for any sockets, endpoints and limit.       *)
(*                                                                         *)
(* Inv strengthens the safety properties of Spec until they are inductive: *)
(* the endpoints and the stop mark of a socket vanish with it, so a reused *)
(* slot starts clean, and a thread in zmq_ctx_term has shut its context    *)
(* down.  ApiInv adds what holds when only the classes are used.           *)
(***************************************************************************)
EXTENDS ContextSocket, TLAPS

\* A socket takes its endpoints and its stop mark with it.
ClosedIsClean ==
    /\ stopped \subseteq open
    /\ \A s \in Socket \ open : bound[s] = {} /\ conn[s] = {}

\* zmq_ctx_term is only ever inside a context that is shut down, and a context
\* that does not exist contains nothing.
TermIsShutdown ==
    /\ proc = "inTerm" => ctxPtr = "handle" /\ ctx = "shutdown"
    /\ ctx = "none" => open = {}

Inv ==
    /\ TypeOK
    /\ PointerIsOpen
    /\ ContextPointerAgrees
    /\ EndpointsTracked
    /\ LeakNeedsStop
    /\ ClosedIsClean
    /\ TermIsShutdown

-----------------------------------------------------------------------------

\* Nothing is held before the first call.
LEMMA InitInv == Init => Inv
  BY DEF Init, Inv, TypeOK, PointerIsOpen, ContextPointerAgrees, EndpointsTracked,
         LeakNeedsStop, ClosedIsClean, TermIsShutdown, Pointers

\* The part of Inv that speaks of sockets, not of the context.
SocketInv == PointerIsOpen /\ EndpointsTracked /\ LeakNeedsStop /\ ClosedIsClean

\* The types of the variables close changes.
SocketTypes ==
    /\ ptr \in [Socket -> Pointers]
    /\ bindings \in [Socket -> SUBSET Endpoint]
    /\ connections \in [Socket -> SUBSET Endpoint]
    /\ open \in SUBSET Socket
    /\ bound \in [Socket -> SUBSET Endpoint]
    /\ conn \in [Socket -> SUBSET Endpoint]
    /\ stopped \in SUBSET Socket

\* Socket.close, run over any set of sockets, keeps types and socket invariant,
\* whether or not the linger option was accepted.
LEMMA CloseAllKeeps ==
  ASSUME NEW S \in SUBSET Socket, NEW p \in {"zero", "absent"},
         SocketTypes, SocketInv, CloseAll(S, p)
  PROVE  SocketTypes' /\ SocketInv'
<1> DEFINE held == {s \in S : ptr[s] = "handle"}
           shut == {s \in held : ~LingerRefused(s)}
<1>1. /\ ptr' = Repointed(S, p)
      /\ open' = open \ shut
      /\ bound' = [s \in Socket |-> IF s \in shut THEN {} ELSE bound[s]]
      /\ conn' = [s \in Socket |-> IF s \in shut THEN {} ELSE conn[s]]
      /\ stopped' = (stopped \ shut) \cup (held \ shut)
  BY DEF CloseAll
<1>2. \A s \in Socket : s \notin held =>
         bindings'[s] = bindings[s] /\ connections'[s] = connections[s]
  BY DEF CloseAll
<1>3. bindings' \in [Socket -> SUBSET Endpoint] /\ connections' \in [Socket -> SUBSET Endpoint]
  BY DEF CloseAll, SocketTypes
<1>4. \A s \in Socket : ptr'[s] = "handle" => ptr[s] = "handle" /\ s \notin S
  BY <1>1 DEF Repointed
<1>5. shut \subseteq held /\ held \subseteq S /\ held \subseteq open
  BY DEF SocketInv, PointerIsOpen
<1> HIDE DEF held, shut
<1>6. SocketTypes'
  BY <1>1, <1>3, <1>5 DEF SocketTypes, Repointed, Pointers
<1>7. PointerIsOpen'
  BY <1>1, <1>4, <1>5 DEF SocketInv, PointerIsOpen
<1>8. EndpointsTracked'
  <2> SUFFICES ASSUME NEW s \in Socket, ptr'[s] = "handle"
               PROVE  bound'[s] \subseteq bindings'[s] /\ conn'[s] \subseteq connections'[s]
    BY DEF EndpointsTracked
  <2>1. ptr[s] = "handle" /\ s \notin held /\ s \notin shut
    BY <1>4, <1>5
  <2> QED BY <1>1, <1>2, <2>1 DEF SocketInv, EndpointsTracked
<1>9. LeakNeedsStop'
  <2> SUFFICES ASSUME NEW s \in open', s \notin stopped'
               PROVE  ptr'[s] = "handle"
    BY DEF LeakNeedsStop
  <2>1. s \in open /\ s \notin stopped /\ s \notin held
    BY <1>1
  <2>2. ptr[s] = "handle" /\ s \notin S /\ s \in Socket
    BY <2>1 DEF SocketInv, LeakNeedsStop, SocketTypes, held
  <2> QED BY <1>1, <2>2 DEF Repointed
<1>10. ClosedIsClean'
  BY <1>1, <1>5 DEF SocketInv, ClosedIsClean, SocketTypes
<1> QED BY <1>6, <1>7, <1>8, <1>9, <1>10 DEF SocketInv

-----------------------------------------------------------------------------

\* Constructing a zmq.Socket in a fresh slot keeps types and socket invariant:
\* the slot has no endpoints and no stop mark left from an earlier object.
LEMMA ConstructKeeps ==
  ASSUME NEW s \in Socket, NEW opened \in BOOLEAN,
         SocketTypes, item \in [Socket -> {"null", "handle"}], SocketInv,
         Fresh(s), Construct(s, opened), UNCHANGED <<bound, conn, stopped>>
  PROVE  SocketTypes' /\ SocketInv' /\ item' \in [Socket -> {"null", "handle"}]
<1> USE DEF Construct, Fresh, SocketTypes, SocketInv
<1>1. SocketTypes' /\ item' \in [Socket -> {"null", "handle"}]
  BY DEF Pointers
<1>2. PointerIsOpen'
  BY DEF PointerIsOpen
<1>3. EndpointsTracked'
  BY DEF EndpointsTracked, ClosedIsClean
<1>4. LeakNeedsStop'
  BY DEF LeakNeedsStop
<1>5. ClosedIsClean'
  BY DEF ClosedIsClean
<1> QED BY <1>1, <1>2, <1>3, <1>4, <1>5

\* The three actions that end or add an endpoint of an open socket.
LEMMA EndpointKeeps ==
  ASSUME NEW s \in Socket, NEW e \in Endpoint, Inv,
         Bind(s, e) \/ Connect(s, e) \/ Unbind(s, e) \/ Disconnect(s, e)
  PROVE  Inv'
<1> USE DEF Inv, TypeOK
<1>1. CASE Bind(s, e)
  BY <1>1 DEF Bind, HasHandle, PointerIsOpen, ContextPointerAgrees, EndpointsTracked,
              LeakNeedsStop, ClosedIsClean, TermIsShutdown
<1>2. CASE Connect(s, e)
  BY <1>2 DEF Connect, HasHandle, PointerIsOpen, ContextPointerAgrees, EndpointsTracked,
              LeakNeedsStop, ClosedIsClean, TermIsShutdown
<1>3. CASE Unbind(s, e)
  BY <1>3 DEF Unbind, EndEndpoint, HasHandle, PointerIsOpen, ContextPointerAgrees,
              EndpointsTracked, LeakNeedsStop, ClosedIsClean, TermIsShutdown
<1>4. CASE Disconnect(s, e)
  BY <1>4 DEF Disconnect, EndEndpoint, HasHandle, PointerIsOpen, ContextPointerAgrees,
              EndpointsTracked, LeakNeedsStop, ClosedIsClean, TermIsShutdown
<1> QED BY <1>1, <1>2, <1>3, <1>4

-----------------------------------------------------------------------------

\* Every step of every method keeps Inv, core functions mixed in or not.
LEMMA NextInv == Inv /\ [Next]_vars => Inv'
<1> SUFFICES ASSUME Inv, [Next]_vars PROVE Inv'
  OBVIOUS
<1>0. SocketTypes /\ SocketInv /\ item \in [Socket -> {"null", "handle"}]
  BY DEF Inv, TypeOK, SocketTypes, SocketInv
<1> DEFINE ContextTypes ==
             /\ ctxPtr \in {"zero", "handle"} /\ spawned \in SUBSET Socket
             /\ ctx \in {"none", "live", "shutdown"}
             /\ proc \in {"running", "inTerm", "crashed"}
             /\ item \in [Socket -> {"null", "handle"}]
<1>a. SocketTypes' /\ SocketInv' /\ ContextTypes' /\ ContextPointerAgrees' /\ TermIsShutdown'
      => Inv'
  BY DEF Inv, TypeOK, SocketTypes, SocketInv
<1>b. ASSUME UNCHANGED <<ptr, bindings, connections, open, bound, conn, stopped>>
      PROVE  SocketTypes' /\ SocketInv'
  BY <1>0, <1>b DEF SocketTypes, SocketInv, PointerIsOpen, EndpointsTracked, LeakNeedsStop,
                    ClosedIsClean
<1>1. CASE NewContext
  <2>1. SocketTypes' /\ SocketInv'
    BY <1>1, <1>b DEF NewContext
  <2>2. ContextTypes' /\ ContextPointerAgrees' /\ TermIsShutdown'
    BY <1>1 DEF NewContext, MakeContext, Inv, TypeOK, ContextPointerAgrees, TermIsShutdown
  <2> QED BY <2>1, <2>2, <1>a
<1>2. ASSUME NEW s \in Socket, Spawn(s) PROVE Inv'
  <2>1. SocketTypes' /\ SocketInv' /\ item' \in [Socket -> {"null", "handle"}]
    BY <1>0, <1>2, ConstructKeeps DEF Spawn
  <2>2. ContextTypes' /\ ContextPointerAgrees' /\ TermIsShutdown'
    BY <1>2, <2>1 DEF Spawn, MakeContext, Inv, TypeOK, ContextPointerAgrees, TermIsShutdown
  <2> QED BY <2>1, <2>2, <1>a
<1>3. ASSUME NEW s \in Socket, RawSocket(s) PROVE Inv'
  <2>1. SocketTypes' /\ SocketInv' /\ item' \in [Socket -> {"null", "handle"}]
    BY <1>0, <1>3, ConstructKeeps DEF RawSocket
  <2>2. ContextTypes' /\ ContextPointerAgrees' /\ TermIsShutdown'
    BY <1>3, <2>1 DEF RawSocket, MayOpen, Construct, Inv, TypeOK, ContextPointerAgrees,
                      TermIsShutdown
  <2> QED BY <2>1, <2>2, <1>a
<1>4. ASSUME NEW s \in Socket, UseNull(s) \/ Poll(s) PROVE Inv'
  <2>1. SocketTypes' /\ SocketInv'
    BY <1>4, <1>b DEF UseNull, Poll, objVars, libVars
  <2>2. ContextTypes' /\ ContextPointerAgrees' /\ TermIsShutdown'
    BY <1>4 DEF UseNull, Poll, objVars, libVars, Inv, TypeOK, ContextPointerAgrees,
                TermIsShutdown
  <2> QED BY <2>1, <2>2, <1>a
<1>5. ASSUME NEW s \in Socket, Terminated(s) PROVE Inv'
  BY <1>5 DEF Terminated, HasHandle, objVars, Inv, TypeOK, PointerIsOpen,
              ContextPointerAgrees, EndpointsTracked, LeakNeedsStop, ClosedIsClean,
              TermIsShutdown
<1>6. ASSUME NEW s \in Socket, NEW e \in Endpoint,
             Bind(s, e) \/ Unbind(s, e) \/ Connect(s, e) \/ Disconnect(s, e)
      PROVE  Inv'
  BY <1>6, EndpointKeeps
<1>7. ASSUME NEW S \in SUBSET Socket, NEW p \in {"zero", "absent"}, CloseAll(S, p)
      PROVE  SocketTypes' /\ SocketInv' /\ open' \subseteq open
  <2>1. SocketTypes' /\ SocketInv'
    BY <1>0, <1>7, CloseAllKeeps
  <2>2. open' \subseteq open
    BY <1>7 DEF CloseAll
  <2> QED BY <2>1, <2>2
<1>8. ASSUME NEW s \in Socket, Close(s) \/ Delete(s) PROVE Inv'
  <2>1. SocketTypes' /\ SocketInv' /\ open' \subseteq open
    BY <1>7, <1>8 DEF Close, Delete
  <2>2. ContextTypes' /\ ContextPointerAgrees' /\ TermIsShutdown'
    BY <1>8, <2>1 DEF Close, Delete, Inv, TypeOK, ContextPointerAgrees, TermIsShutdown
  <2> QED BY <2>1, <2>2, <1>a
<1>9. CASE CloseSpawned
  <2>1. SocketTypes' /\ SocketInv' /\ open' \subseteq open
    BY <1>7, <1>9 DEF CloseSpawned, Inv, TypeOK
  <2>2. ContextTypes' /\ ContextPointerAgrees' /\ TermIsShutdown'
    BY <1>9, <2>1 DEF CloseSpawned, Inv, TypeOK, ContextPointerAgrees, TermIsShutdown
  <2> QED BY <2>1, <2>2, <1>a
<1>10. CASE TermBegin
  <2>1. SocketTypes' /\ SocketInv' /\ open' \subseteq open
    BY <1>7, <1>10 DEF TermBegin, Inv, TypeOK
  <2>2. ContextTypes' /\ ContextPointerAgrees' /\ TermIsShutdown'
    BY <1>10, <2>1 DEF TermBegin, Inv, TypeOK, ContextPointerAgrees, TermIsShutdown
  <2> QED BY <2>1, <2>2, <1>a
<1>11. CASE TermReturn \/ TermInterrupted \/ RawShutdown
  <2>1. SocketTypes' /\ SocketInv'
    BY <1>11, <1>b DEF TermReturn, TermInterrupted, RawShutdown, objVars, libVars
  <2>2. ContextTypes' /\ ContextPointerAgrees' /\ TermIsShutdown'
    BY <1>11 DEF TermReturn, TermInterrupted, RawShutdown, objVars, libVars, Inv, TypeOK,
                 ContextPointerAgrees, TermIsShutdown
  <2> QED BY <2>1, <2>2, <1>a
<1>12. CASE UNCHANGED vars
  BY <1>12 DEF vars, objVars, libVars, Inv, TypeOK, PointerIsOpen, ContextPointerAgrees,
               EndpointsTracked, LeakNeedsStop, ClosedIsClean, TermIsShutdown
<1> QED
  BY <1>1, <1>2, <1>3, <1>4, <1>5, <1>6, <1>8, <1>9, <1>10, <1>11, <1>12
     DEF Next, ApiNext, SocketCall

\* Variables keep their types, for any number of sockets and endpoints.
THEOREM TypeCorrect == Spec => []TypeOK
<1>1. Inv => TypeOK
  BY DEF Inv
<1> QED BY InitInv, NextInv, <1>1, PTL DEF Spec

\* No method ever hands libzmq the pointer of a closed socket, core functions
\* mixed in or not.
THEOREM NoUseAfterClose == Spec => []PointerIsOpen
<1>1. Inv => PointerIsOpen
  BY DEF Inv
<1> QED BY InitInv, NextInv, <1>1, PTL DEF Spec

\* Context.pointer and libzmq agree on whether there is a context.
THEOREM PointerNeverForgets == Spec => []ContextPointerAgrees
<1>1. Inv => ContextPointerAgrees
  BY DEF Inv
<1> QED BY InitInv, NextInv, <1>1, PTL DEF Spec

\* Whatever libzmq has bound or connected for a usable socket, close will walk
\* through it.
THEOREM CloseReachesEndpoints == Spec => []EndpointsTracked
<1>1. Inv => EndpointsTracked
  BY DEF Inv
<1> QED BY InitInv, NextInv, <1>1, PTL DEF Spec

\* Only a socket that read a stop command is ever lost by close.
THEOREM LeaksOnlyStopped == Spec => []LeakNeedsStop
<1>1. Inv => LeakNeedsStop
  BY DEF Inv
<1> QED BY InitInv, NextInv, <1>1, PTL DEF Spec

-----------------------------------------------------------------------------
(* Use of the classes alone *)

ApiInv == Inv /\ ClosedIsReleased /\ ShutdownIsEmpty /\ OpenIsSpawned

\* With no socket under a shut down context, closing never loses one.
LEMMA ApiCloseAll ==
  ASSUME ApiInv, NEW S \in SUBSET Socket, NEW p \in {"zero", "absent"}, CloseAll(S, p)
  PROVE  ClosedIsReleased' /\ open' = open \ S
<1> DEFINE held == {s \in S : ptr[s] = "handle"}
           shut == {s \in held : ~LingerRefused(s)}
<1>1. open' = open \ shut /\ ptr' = Repointed(S, p)
  BY DEF CloseAll
<1>2. held = S \cap open
  BY DEF ApiInv, Inv, PointerIsOpen, ClosedIsReleased
<1>3. shut = held
  BY <1>2 DEF ApiInv, ShutdownIsEmpty, LingerRefused
<1>4. open' = open \ S
  BY <1>1, <1>2, <1>3
<1>5. ClosedIsReleased'
  BY <1>1, <1>4 DEF ApiInv, ClosedIsReleased, Repointed
<1> QED BY <1>4, <1>5

\* Every step of the classes keeps ApiInv.
LEMMA ApiNextInv == ApiInv /\ [ApiNext]_vars => ApiInv'
<1> SUFFICES ASSUME ApiInv, [ApiNext]_vars
             PROVE  ClosedIsReleased' /\ ShutdownIsEmpty' /\ OpenIsSpawned'
  BY NextInv DEF ApiInv, Next
<1> USE DEF ApiInv
<1>t. open \in SUBSET Socket /\ spawned \in SUBSET Socket /\ ptr \in [Socket -> Pointers]
  BY DEF Inv, TypeOK
<1>a. ASSUME UNCHANGED <<ptr, open, spawned, ctx>>
      PROVE  ClosedIsReleased' /\ ShutdownIsEmpty' /\ OpenIsSpawned'
  BY <1>a DEF ClosedIsReleased, ShutdownIsEmpty, OpenIsSpawned
<1>1. CASE NewContext
  BY <1>1 DEF NewContext, MakeContext, Inv, ContextPointerAgrees, TermIsShutdown,
              ClosedIsReleased, ShutdownIsEmpty, OpenIsSpawned
<1>2. ASSUME NEW s \in Socket, Spawn(s)
      PROVE  ClosedIsReleased' /\ ShutdownIsEmpty' /\ OpenIsSpawned'
  BY <1>2, <1>t DEF Spawn, MakeContext, MayOpen, Construct, Fresh, Inv,
              ClosedIsReleased, ShutdownIsEmpty, OpenIsSpawned
<1>3. ASSUME NEW s \in Socket, UseNull(s) \/ Poll(s) \/ Terminated(s)
      PROVE  ClosedIsReleased' /\ ShutdownIsEmpty' /\ OpenIsSpawned'
  BY <1>3, <1>a DEF UseNull, Poll, Terminated, objVars, libVars
<1>4. ASSUME NEW s \in Socket, NEW e \in Endpoint,
             Bind(s, e) \/ Unbind(s, e) \/ Connect(s, e) \/ Disconnect(s, e)
      PROVE  ClosedIsReleased' /\ ShutdownIsEmpty' /\ OpenIsSpawned'
  BY <1>4, <1>a DEF Bind, Unbind, Connect, Disconnect
<1>5. ASSUME NEW s \in Socket, Close(s) \/ Delete(s)
      PROVE  ClosedIsReleased' /\ ShutdownIsEmpty' /\ OpenIsSpawned'
  <2>1. ClosedIsReleased' /\ open' = open \ {s}
    BY <1>5, ApiCloseAll DEF Close, Delete
  <2> QED BY <1>5, <2>1 DEF Close, Delete, ShutdownIsEmpty, OpenIsSpawned
<1>6. CASE CloseSpawned
  <2>1. ClosedIsReleased' /\ open' = open \ spawned
    BY <1>6, <1>t, ApiCloseAll DEF CloseSpawned
  <2> QED BY <1>6, <2>1 DEF CloseSpawned, ShutdownIsEmpty, OpenIsSpawned
<1>7. CASE TermBegin
  <2>1. ClosedIsReleased' /\ open' = open \ spawned
    BY <1>7, <1>t, ApiCloseAll DEF TermBegin
  <2> QED BY <1>7, <2>1 DEF TermBegin, ShutdownIsEmpty, OpenIsSpawned
<1>8. CASE TermReturn
  BY <1>8 DEF TermReturn, ClosedIsReleased, ShutdownIsEmpty, OpenIsSpawned
<1>9. CASE TermInterrupted \/ UNCHANGED vars
  BY <1>9, <1>a DEF TermInterrupted, vars, objVars, libVars
<1> QED
  BY <1>1, <1>2, <1>3, <1>4, <1>5, <1>6, <1>7, <1>8, <1>9 DEF ApiNext, SocketCall

\* Initially the classes hold nothing either.
LEMMA ApiInit == Init => ApiInv
  BY InitInv DEF Init, ApiInv, ClosedIsReleased, ShutdownIsEmpty, OpenIsSpawned

\* Through the classes alone, close never leaves a libzmq socket behind.
THEOREM CloseReleases == ApiSpec => []ClosedIsReleased
<1>1. ApiInv => ClosedIsReleased
  BY DEF ApiInv
<1> QED BY ApiInit, ApiNextInv, <1>1, PTL DEF ApiSpec

\* Through the classes alone, zmq_ctx_term never waits for a socket, and a
\* context left by an interrupted term has none.
THEOREM TermHasNothingToWaitFor == ApiSpec => []ShutdownIsEmpty
<1>1. ApiInv => ShutdownIsEmpty
  BY DEF ApiInv
<1> QED BY ApiInit, ApiNextInv, <1>1, PTL DEF ApiSpec

\* Through the classes alone, the context knows every open socket.
THEOREM EveryOpenSocketIsSpawned == ApiSpec => []OpenIsSpawned
<1>1. ApiInv => OpenIsSpawned
  BY DEF ApiInv
<1> QED BY ApiInit, ApiNextInv, <1>1, PTL DEF ApiSpec

-----------------------------------------------------------------------------
(* The classes implement the container *)

\* A step of the classes is a step of the container, or invisible to it.
LEMMA ApiStep == ApiInv /\ [ApiNext]_vars => [C!Next]_(C!vars)
<1> SUFFICES ASSUME ApiInv, [ApiNext]_vars PROVE C!Next \/ UNCHANGED <<phase, open>>
  BY DEF C!vars
<1> USE DEF ApiInv
<1> DEFINE Simulated == C!Next \/ UNCHANGED <<phase, open>>
<1>t. open \in SUBSET Socket /\ spawned \in SUBSET Socket /\ ctxPtr \in {"zero", "handle"}
      /\ ctx \in {"none", "live", "shutdown"}
  BY DEF Inv, TypeOK
<1>c. ctxPtr = "handle" <=> ctx # "none"
  BY DEF Inv, ContextPointerAgrees
<1>z. ctxPtr = "zero" => open = {}
  BY <1>c, <1>t DEF Inv, TermIsShutdown
<1>1. CASE NewContext
  BY <1>1, <1>z DEF phase, NewContext, MakeContext, C!Next, C!Create
<1>2. ASSUME NEW s \in Socket, Spawn(s) PROVE Simulated
  <2>1. CASE ctxPtr = "zero"
    BY <1>2, <2>1, <1>z DEF phase, Spawn, MakeContext, Construct, C!Next, C!Create
  <2>2. CASE ctxPtr = "handle" /\ ctx = "live"
    BY <1>2, <2>2 DEF phase, Spawn, MakeContext, Construct, Fresh, C!Next, C!Open
  <2>3. CASE ctxPtr = "handle" /\ ctx = "shutdown"
    BY <1>2, <2>3 DEF phase, Spawn, MakeContext, MayOpen, Construct
  <2> QED BY <2>1, <2>2, <2>3, <1>t, <1>c
<1>3. ASSUME NEW s \in Socket, UseNull(s) \/ Poll(s) \/ Terminated(s)
      PROVE  Simulated
  BY <1>3 DEF phase, UseNull, Poll, Terminated, objVars, libVars
<1>4. ASSUME NEW s \in Socket, NEW e \in Endpoint,
             Bind(s, e) \/ Unbind(s, e) \/ Connect(s, e) \/ Disconnect(s, e)
      PROVE  Simulated
  BY <1>4 DEF phase, Bind, Unbind, Connect, Disconnect
<1>5. ASSUME NEW S \in SUBSET Socket, NEW p \in {"zero", "absent"}, CloseAll(S, p),
             proc = "running", UNCHANGED <<ctxPtr, ctx, proc>>
      PROVE  Simulated
  <2>1. open' = open \ S
    BY <1>5, ApiCloseAll
  <2>2. CASE ctx = "live"
    BY <1>5, <2>1, <2>2, <1>c, <1>t DEF phase, C!Next, C!Close
  <2>3. CASE ctx # "live"
    BY <1>5, <2>1, <2>3, <1>c, <1>z, <1>t DEF phase, ShutdownIsEmpty
  <2> QED BY <2>2, <2>3
<1>6. ASSUME NEW s \in Socket, Close(s) \/ Delete(s) PROVE Simulated
  BY <1>5, <1>6 DEF Close, Delete
<1>7. CASE CloseSpawned
  BY <1>5, <1>7, <1>t DEF CloseSpawned
<1>8. CASE TermBegin
  <2>1. open' = {}
    BY <1>8, <1>t, ApiCloseAll DEF phase, TermBegin, OpenIsSpawned
  <2> QED BY <1>8, <2>1, <1>c, <1>t DEF phase, TermBegin, C!Next, C!End
<1>9. CASE TermReturn
  BY <1>9, <1>c, <1>t DEF phase, TermReturn, C!Next, C!Release, Inv, TermIsShutdown
<1>10. CASE TermInterrupted
  BY <1>10 DEF phase, TermInterrupted, objVars, libVars, C!Next, C!Interrupt, Inv, TermIsShutdown
<1>11. CASE UNCHANGED vars
  BY <1>11 DEF phase, vars, objVars, libVars
<1> QED
  BY <1>1, <1>2, <1>3, <1>4, <1>6, <1>7, <1>8, <1>9, <1>10, <1>11 DEF ApiNext, SocketCall

\* The classes implement the container: ending a context closes every socket
\* before it releases the context, whatever was closed, deleted or interrupted.
THEOREM ImplementsContainer == ApiSpec => ContainerSafety
<1>1. Init => C!Init
  BY DEF Init, C!Init, phase
<1> QED BY ApiInit, ApiNextInv, ApiStep, <1>1, PTL DEF ApiSpec, ContainerSafety
=============================================================================
