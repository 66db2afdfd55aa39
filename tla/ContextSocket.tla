---------------------------- MODULE ContextSocket ----------------------------
(***************************************************************************)
(* The object layer of matlab-zmq: one zmq.Context and the zmq.Socket      *)
(* objects made from it, over the libzmq handles they wrap.                *)
(*                                                                         *)
(* Two views of the same resources are kept apart, because they may come   *)
(* apart: what the MATLAB objects remember (pointers and cell arrays) and  *)
(* what libzmq holds (open sockets, bound and connected endpoints).  MATLAB*)
(* runs one statement at a time, so a method is one action; the exception  *)
(* is Context.term, which blocks inside zmq_ctx_term.                      *)
(*                                                                         *)
(* The cell arrays of endpoints and of sockets are sets here: unbind and   *)
(* disconnect remove every equal entry, so neither order nor multiplicity  *)
(* can be told apart.                                                      *)
(***************************************************************************)
EXTENDS Naturals, FiniteSets

CONSTANTS
    Socket,         \* zmq.Socket objects; each owns at most one libzmq socket
    Endpoint,       \* endpoint strings
    Unresolvable,   \* wildcard endpoints, which this build of libzmq cannot unbind
    MaxSockets      \* ZMQ_MAX_SOCKETS of the context

ASSUME EndpointAssumption == Unresolvable \subseteq Endpoint
ASSUME MaxSocketsAssumption == MaxSockets \in Nat

VARIABLES
    ctxPtr,         \* Context.pointer: "zero" or "handle"
    spawned,        \* Context.spawnedSockets
    ptr,            \* Socket.pointer: "absent" (no such object), "null" ([]), "handle", "zero"
    item,           \* Socket.items.socket: "null" or "handle"
    bindings,       \* Socket.bindings
    connections,    \* Socket.connections
    ctx,            \* libzmq's context: "none", "live", "shutdown"
    open,           \* sockets libzmq holds open
    bound,          \* endpoints libzmq has bound, per socket
    conn,           \* endpoints libzmq has connected, per socket
    stopped,        \* sockets that have read the stop command of a shut down context
    proc            \* MATLAB: "running", "inTerm" (blocked in zmq_ctx_term), "crashed"

objVars == <<ctxPtr, spawned, ptr, item, bindings, connections>>
libVars == <<ctx, open, bound, conn, stopped>>
vars == <<objVars, libVars, proc>>

Pointers == {"absent", "null", "handle", "zero"}

TypeOK ==
    /\ ctxPtr \in {"zero", "handle"}
    /\ spawned \in SUBSET Socket
    /\ ptr \in [Socket -> Pointers]
    /\ item \in [Socket -> {"null", "handle"}]
    /\ bindings \in [Socket -> SUBSET Endpoint]
    /\ connections \in [Socket -> SUBSET Endpoint]
    /\ ctx \in {"none", "live", "shutdown"}
    /\ open \in SUBSET Socket
    /\ bound \in [Socket -> SUBSET Endpoint]
    /\ conn \in [Socket -> SUBSET Endpoint]
    /\ stopped \in SUBSET Socket
    /\ proc \in {"running", "inTerm", "crashed"}

Init ==
    /\ ctxPtr = "zero" /\ spawned = {}
    /\ ptr = [s \in Socket |-> "absent"]
    /\ item = [s \in Socket |-> "null"]
    /\ bindings = [s \in Socket |-> {}]
    /\ connections = [s \in Socket |-> {}]
    /\ ctx = "none" /\ open = {} /\ stopped = {}
    /\ bound = [s \in Socket |-> {}]
    /\ conn = [s \in Socket |-> {}]
    /\ proc = "running"

-----------------------------------------------------------------------------
(* Construction *)

\* An object can be made in a slot that nothing refers to any more.
Fresh(s) == ptr[s] = "absent" /\ s \notin spawned /\ s \notin open

\* zmq_socket: EFAULT without a context, ETERM after a shutdown, EMFILE at the limit.
MayOpen(context) == context = "live" /\ Cardinality(open) < MaxSockets

\* The constructor of zmq.Socket: its try swallows core.socket's error and its
\* own, so a failure leaves an object whose pointer is [].
Construct(s, opened) ==
    /\ ptr' = [ptr EXCEPT ![s] = IF opened THEN "handle" ELSE "null"]
    /\ item' = [item EXCEPT ![s] = IF opened THEN "handle" ELSE "null"]
    /\ bindings' = [bindings EXCEPT ![s] = {}]
    /\ connections' = [connections EXCEPT ![s] = {}]
    /\ open' = IF opened THEN open \cup {s} ELSE open

\* Mutant: a new context whatever the pointer is.
MakeContextAlways == ctxPtr' = "handle" /\ ctx' = "live"

\* makeContext: a context that was ended is silently replaced by a new one.
MakeContext ==
    /\ ctxPtr' = "handle"
    /\ ctx' = IF ctxPtr = "zero" THEN "live" ELSE ctx

\* zmq.Context()
NewContext ==
    /\ proc = "running" /\ ctxPtr = "zero"
    /\ MakeContext
    /\ spawned' = {}
    /\ UNCHANGED <<ptr, item, bindings, connections, open, bound, conn, stopped, proc>>

\* Mutant: the new socket is not appended to spawnedSockets.
SpawnUntracked(s) ==
    /\ proc = "running" /\ Fresh(s)
    /\ MakeContext
    /\ \E opened \in BOOLEAN : (opened => MayOpen(ctx')) /\ Construct(s, opened)
    /\ UNCHANGED <<spawned, bound, conn, stopped, proc>>

\* Mutant: the pointer of the new socket is appended to spawnedSockets, not the object.
SpawnPointer(s) ==
    /\ proc = "running" /\ Fresh(s)
    /\ MakeContext
    /\ \E opened \in BOOLEAN : (opened => MayOpen(ctx')) /\ Construct(s, opened)
    /\ spawned' = spawned \cup {ptr'[s]}
    /\ UNCHANGED <<bound, conn, stopped, proc>>

\* ctx.socket(type)
Spawn(s) ==
    /\ proc = "running" /\ Fresh(s)
    /\ MakeContext
    /\ \E opened \in BOOLEAN :
          /\ opened => MayOpen(ctx')
          /\ Construct(s, opened)
    /\ spawned' = spawned \cup {s}
    /\ UNCHANGED <<bound, conn, stopped, proc>>

\* zmq.Socket(ctx.getPointer(), type): the context does not learn of the socket.
RawSocket(s) ==
    /\ proc = "running" /\ Fresh(s)
    /\ \E opened \in BOOLEAN :
          /\ opened => MayOpen(ctx)
          /\ Construct(s, opened)
    /\ UNCHANGED <<ctxPtr, spawned, ctx, bound, conn, stopped, proc>>

-----------------------------------------------------------------------------
(* Endpoints *)

HasHandle(s) == proc = "running" /\ ptr[s] = "handle"

\* A call on a socket of a shut down context: it reads the stop command and
\* throws ETERM.  From then on zmq_setsockopt throws ETERM as well.
Terminated(s) ==
    /\ HasHandle(s) /\ ctx = "shutdown"
    /\ stopped' = stopped \cup {s}
    /\ UNCHANGED <<objVars, ctx, open, bound, conn, proc>>

\* An exclusive endpoint: a second bind fails with EADDRINUSE (status -1).
Bind(s, e) ==
    /\ HasHandle(s) /\ ctx = "live"
    /\ \A t \in Socket : e \notin bound[t]
    /\ bound' = [bound EXCEPT ![s] = @ \cup {e}]
    /\ bindings' = [bindings EXCEPT ![s] = @ \cup {e}]
    /\ UNCHANGED <<ctxPtr, spawned, ptr, item, connections, ctx, open, conn, stopped, proc>>

Connect(s, e) ==
    /\ HasHandle(s) /\ ctx = "live"
    /\ e \notin Unresolvable
    /\ conn' = [conn EXCEPT ![s] = @ \cup {e}]
    /\ connections' = [connections EXCEPT ![s] = @ \cup {e}]
    /\ UNCHANGED <<ctxPtr, spawned, ptr, item, bindings, ctx, open, bound, stopped, proc>>

\* What zmq_unbind and zmq_disconnect can end: libzmq does not ask whether the
\* endpoint was bound or connected, it ends both; after a shutdown, neither.
Endable(s) == IF ctx = "live" THEN (bound[s] \cup conn[s]) \ Unresolvable ELSE {}

EndEndpoint(s, e) ==
    /\ HasHandle(s) /\ e \in Endable(s)
    /\ bound' = [bound EXCEPT ![s] = @ \ {e}]
    /\ conn' = [conn EXCEPT ![s] = @ \ {e}]

\* Mutant: the binding is forgotten whatever status unbind returned.
UnbindUnchecked(s, e) ==
    /\ HasHandle(s) /\ ctx = "live"
    /\ bound' = [bound EXCEPT ![s] = @ \ ({e} \cap Endable(s))]
    /\ conn' = [conn EXCEPT ![s] = @ \ ({e} \cap Endable(s))]
    /\ bindings' = [bindings EXCEPT ![s] = @ \ {e}]
    /\ UNCHANGED <<ctxPtr, spawned, ptr, item, connections, ctx, open, stopped, proc>>

Unbind(s, e) ==
    /\ EndEndpoint(s, e)
    /\ bindings' = [bindings EXCEPT ![s] = @ \ {e}]
    /\ UNCHANGED <<ctxPtr, spawned, ptr, item, connections, ctx, open, stopped, proc>>

Disconnect(s, e) ==
    /\ EndEndpoint(s, e)
    /\ connections' = [connections EXCEPT ![s] = @ \ {e}]
    /\ UNCHANGED <<ctxPtr, spawned, ptr, item, bindings, ctx, open, stopped, proc>>

-----------------------------------------------------------------------------
(* Calls that reach libzmq with a pointer that is not a socket *)

\* pointer [] makes pointer_from_m read through the data of an empty array:
\* undefined, it may error (no change) or take MATLAB down.
UseNull(s) ==
    /\ proc = "running" /\ ptr[s] = "null"
    /\ proc' \in {"running", "crashed"}
    /\ UNCHANGED <<objVars, libVars>>

\* poll takes its handle from items.socket, which close never clears.
Poll(s) ==
    /\ proc = "running" /\ ptr[s] # "absent"
    /\ s \notin open \/ item[s] = "null"
    /\ proc' \in {"running", "crashed"}
    /\ UNCHANGED <<objVars, libVars>>

-----------------------------------------------------------------------------
(* Closing *)

\* Mutant: setting linger fails on any socket that still has endpoints.
LingerRefusedAlways(s) == bindings[s] \cup connections[s] # {}

\* set('linger', 0) throws ETERM on a socket that has read the stop command,
\* which the unbind or disconnect just before makes it do; close's catch then
\* skips zmq_close.
LingerRefused(s) ==
    ctx = "shutdown" /\ (s \in stopped \/ bindings[s] \cup connections[s] # {})

\* Mutant: only an object that is being deleted loses its pointer.
RepointedOnDelete(S, p) ==
    [s \in Socket |-> IF s \in S /\ p = "absent" THEN p ELSE ptr[s]]

\* The last statement of close, which no error path skips.
Repointed(S, p) == [s \in Socket |-> IF s \in S /\ ptr[s] # "absent" THEN p ELSE ptr[s]]

\* Socket.close on every object of S: unbind all bindings, disconnect all
\* connections, set linger, zmq_close; then the pointer becomes p.
CloseAll(S, p) ==
    LET held == {s \in S : ptr[s] = "handle"}
        shut == {s \in held : ~LingerRefused(s)}
        unbound(s) == bindings[s] \cap Endable(s)
    IN  /\ ptr' = Repointed(S, p)
        /\ bindings' = [s \in Socket |->
              IF s \in held THEN bindings[s] \ unbound(s) ELSE bindings[s]]
        /\ connections' = [s \in Socket |->
              IF s \in held
              THEN connections[s] \ (Endable(s) \ unbound(s)) ELSE connections[s]]
        /\ open' = open \ shut
        /\ bound' = [s \in Socket |-> IF s \in shut THEN {} ELSE bound[s]]
        /\ conn' = [s \in Socket |-> IF s \in shut THEN {} ELSE conn[s]]
        /\ stopped' = (stopped \ shut) \cup (held \ shut)

Close(s) ==
    /\ proc = "running" /\ ptr[s] \in {"null", "handle"}
    /\ CloseAll({s}, "zero")
    /\ UNCHANGED <<ctxPtr, spawned, item, ctx, proc>>

\* Mutant: the destructor does not close the socket.
DeleteUnclosed(s) ==
    /\ proc = "running" /\ ptr[s] # "absent"
    /\ ptr' = Repointed({s}, "absent")
    /\ UNCHANGED <<ctxPtr, spawned, item, bindings, connections, libVars, proc>>

\* delete(socket): close, and the handle object is invalid from then on.
Delete(s) ==
    /\ proc = "running" /\ ptr[s] # "absent"
    /\ CloseAll({s}, "absent")
    /\ UNCHANGED <<ctxPtr, spawned, item, ctx, proc>>

\* ctx.close(): a deleted object in the list throws, is caught and dropped.
CloseSpawned ==
    /\ proc = "running" /\ ctxPtr = "handle" /\ spawned # {}
    /\ CloseAll(spawned, "zero")
    /\ spawned' = {}
    /\ UNCHANGED <<ctxPtr, item, ctx, proc>>

\* Mutant: the context is terminated without closing its sockets.
TermBeginUnclosed ==
    /\ proc = "running" /\ ctxPtr = "handle"
    /\ ctx' = "shutdown" /\ proc' = "inTerm"
    /\ UNCHANGED <<objVars, open, bound, conn, stopped>>

\* ctx.term(), which is all that ctx.delete() does: close(obj), then the call of
\* zmq_ctx_term.  (The help text of term denies the first: see ShutdownIsEmpty.) ...
TermBegin ==
    /\ proc = "running" /\ ctxPtr = "handle"
    /\ CloseAll(spawned, "zero")
    /\ spawned' = {} /\ ctx' = "shutdown" /\ proc' = "inTerm"
    /\ UNCHANGED <<ctxPtr, item>>

\* ... which returns when the last socket is closed ...
TermReturn ==
    /\ proc = "inTerm" /\ open = {}
    /\ ctx' = "none" /\ ctxPtr' = "zero" /\ proc' = "running"
    /\ UNCHANGED <<spawned, ptr, item, bindings, connections, open, bound, conn, stopped>>

\* Mutant: the pointer is cleared although zmq_ctx_term failed.
TermInterruptedForgets ==
    /\ proc = "inTerm" /\ proc' = "running" /\ ctxPtr' = "zero"
    /\ UNCHANGED <<spawned, ptr, item, bindings, connections, libVars>>

\* ... or fails with EINTR, which term swallows, keeping the pointer.  (The object
\* that delete was called on is gone by then; only the one term leaves is followed.)
TermInterrupted ==
    /\ proc = "inTerm" /\ proc' = "running"
    /\ UNCHANGED <<objVars, libVars>>

\* zmq.core.ctx_shutdown(ctx.getPointer())
RawShutdown ==
    /\ proc = "running" /\ ctx = "live"
    /\ ctx' = "shutdown"
    /\ UNCHANGED <<objVars, open, bound, conn, stopped, proc>>

-----------------------------------------------------------------------------

SocketCall(s) ==
    \/ UseNull(s) \/ Poll(s) \/ Terminated(s) \/ Close(s) \/ Delete(s)
    \/ \E e \in Endpoint : Bind(s, e) \/ Unbind(s, e) \/ Connect(s, e) \/ Disconnect(s, e)

\* Use of the classes alone.
ApiNext ==
    \/ NewContext \/ CloseSpawned \/ TermBegin \/ TermReturn \/ TermInterrupted
    \/ \E s \in Socket : Spawn(s) \/ SocketCall(s)

\* The classes mixed with the core functions on the pointer they expose.
Next == ApiNext \/ RawShutdown \/ \E s \in Socket : RawSocket(s)

Spec == Init /\ [][Next]_vars

\* zmq_ctx_term does return once nothing is open; users owe nothing.
ApiSpec == Init /\ [][ApiNext]_vars /\ WF_vars(TermReturn)

-----------------------------------------------------------------------------
(* Properties *)

\* A pointer a method hands to libzmq designates a socket that is still open:
\* no order of close, delete, term, shutdown and interrupted term leads to a
\* use after zmq_close or to a second zmq_close.
PointerIsOpen == \A s \in Socket : ptr[s] = "handle" => s \in open

\* Context.pointer is zero exactly when libzmq has no context: term, which
\* swallows its error, neither forgets a live context nor keeps a freed one.
ContextPointerAgrees == ctxPtr = "handle" <=> ctx # "none"

\* Everything libzmq still has bound or connected for a usable socket is in the
\* lists that close walks through.
EndpointsTracked ==
    \A s \in Socket : ptr[s] = "handle" =>
        bound[s] \subseteq bindings[s] /\ conn[s] \subseteq connections[s]

\* close loses a libzmq socket only on one that has read the stop command of a
\* context shut down behind the back of the classes.
LeakNeedsStop == \A s \in open : ptr[s] = "handle" \/ s \in stopped

\* close(obj) closes the libzmq socket: an object without a pointer owns nothing.
ClosedIsReleased == \A s \in Socket : s \in open => ptr[s] = "handle"

\* Through the classes alone, a context being ended, or left half ended by an
\* interrupted term, has no open socket: zmq_ctx_term has nothing to wait for.  So
\* says the help text of delete (Context.m:120-121); that of term says that it "does not
\* cleanup the associated sockets" (105), of which this is the opposite.
ShutdownIsEmpty == ctx = "shutdown" => open = {}

\* Through the classes alone, the context knows every open socket.
OpenIsSpawned == open \subseteq spawned

\* term comes back.
TermComesBack == proc = "inTerm" ~> proc = "running"

\* The context of the classes is the container it says it is.
phase == IF ctxPtr = "zero" THEN "none"
         ELSE IF proc = "inTerm" THEN "ending"
         ELSE IF ctx = "shutdown" THEN "halted" ELSE "live"
C == INSTANCE Container WITH Socket <- Socket, phase <- phase, open <- open
ContainerSpec == C!Spec

\* The safety part of ContainerSpec, which is proved.
ContainerSafety == C!Init /\ [][C!Next]_(C!vars)
=============================================================================
