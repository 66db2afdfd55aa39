---------------------------- MODULE CommandSocket ----------------------------
(***************************************************************************)
(* zmq.CommandSocket: one server and its clients, each in a MATLAB process *)
(* of its own, over a REP and several REQ sockets.                         *)
(*                                                                         *)
(* The two socket state machines of libzmq decide what a call may do:      *)
(*   REQ  send, then receive the whole reply, then send again;             *)
(*   REP  receive a request, then send the whole reply, then receive again.*)
(* A call out of turn throws EFSM.  zmq_send only puts a message into a    *)
(* pipe; an I/O thread carries it, or close (linger 0) drops it.           *)
(*                                                                         *)
(* A callback or a handler is its script: the sequence of things it does   *)
(* to the server it runs in.                                               *)
(***************************************************************************)
EXTENDS Naturals, Sequences, FiniteSets

CONSTANTS
    Client,         \* the client processes
    NoClient,       \* the sender of a request whose client socket is gone
    Commands,       \* the kinds of commands clients send
    Scripts,        \* what handlers registered with registerCommand may do
    CallbackScripts,\* what OnMessage and OnCommand may do, one after the other
    ErrorScripts,   \* what OnError may do
    MaxCommands     \* bound on the commands a client sends

Moves == {"reply", "refuse", "more", "throw", "quit", "stop"}

ASSUME ClientAssumption == NoClient \notin Client
ASSUME CommandsAssumption == Commands \subseteq {"default", "quit", "unknown", "custom"}
ASSUME ScriptsAssumption == Scripts \cup CallbackScripts \cup ErrorScripts \subseteq Seq(Moves)
ASSUME MaxCommandsAssumption == MaxCommands \in Nat

VARIABLES
    (* client *)
    cpc,        \* "idle", or "waiting" inside sendCommand's recv
    asked,      \* commands sent so far; the last one's number
    expecting,  \* REQ state: a reply has to be received before the next send
    sent,       \* the request in the client's pipe, or none
    replies,    \* the reply that reached the client's socket, or none
    got,        \* what sendCommand returned last: none for the -1 of a timeout
    (* server *)
    spc,        \* where the server is: see ServerPlaces
    sock,       \* obj.Socket is not empty
    listening,  \* the bind in start succeeded
    running,    \* obj.Running
    mode,       \* the call in progress: processRequests with no timeout, with one,
                \* or processOneRequest ("forever", "timed", "once")
    expired,    \* the timeout of processRequests has passed
    queue,      \* requests that reached the server's socket
    cur,        \* the request being served, or none: REP state is "send" iff some
    staged,     \* parts sent with SNDMORE: libzmq holds them until the last part
    script,     \* what callbacks and handlers still have to do
    outgoing    \* per client, the reply in the server's pipe, or none

clientVars == <<cpc, asked, expecting, sent, replies, got>>
loopVars == <<spc, sock, listening, running, mode, expired>>
repVars == <<queue, cur, staged, script, outgoing>>
vars == <<clientVars, loopVars, repVars>>

none == <<>>        \* no message, no request

Requests == [from : Client \cup {NoClient}, id : 1..MaxCommands, cmd : Commands]
Parts == {"part", "text", "object", "errorresponse", "error"}
Replies == [id : 1..MaxCommands, parts : Seq(Parts)]

ServerPlaces == {"out", "test", "recv", "serve", "pause", "catch"}

\* What sendCommand returns: a text, and what its object's bytes stand for.
Responses == [id : 1..MaxCommands, text : {"part", "text", "errorresponse"},
              object : {"object", "error", "nothing"}]

Optional(S) == {s \in Seq(S) : Len(s) <= 1}

TypeOK ==
    /\ cpc \in [Client -> {"idle", "waiting"}]
    /\ asked \in [Client -> 0..MaxCommands]
    /\ expecting \in [Client -> BOOLEAN]
    /\ sent \in [Client -> Optional(Requests)]
    /\ {replies, outgoing} \subseteq [Client -> Optional(Replies)]
    /\ got \in [Client -> Optional(Responses)]
    /\ spc \in ServerPlaces
    /\ {sock, listening, running, expired} \subseteq BOOLEAN
    /\ mode \in {"forever", "timed", "once"}
    /\ queue \in Seq(Requests)
    /\ cur \in Optional(Requests)
    /\ staged \in Seq(Parts)
    /\ script \in Seq(Moves)

Init ==
    /\ cpc = [c \in Client |-> "idle"]
    /\ asked = [c \in Client |-> 0]
    /\ expecting = [c \in Client |-> FALSE]
    /\ sent = [c \in Client |-> none]
    /\ replies = [c \in Client |-> none]
    /\ got = [c \in Client |-> none]
    /\ spc = "out"
    /\ sock = FALSE /\ listening = FALSE /\ running = FALSE
    /\ mode = "forever" /\ expired = FALSE
    /\ queue = <<>> /\ cur = none /\ staged = <<>> /\ script = <<>>
    /\ outgoing = [c \in Client |-> none]

-----------------------------------------------------------------------------
(* Client *)

\* sendCommand always sends first.  With a reply outstanding the send throws
\* EFSM (no change), so only the other case is a step.
SendCommand(c, cmd) ==
    /\ cpc[c] = "idle" /\ ~expecting[c] /\ asked[c] < MaxCommands
    /\ asked' = [asked EXCEPT ![c] = @ + 1]
    /\ sent' = [sent EXCEPT ![c] = <<[from |-> c, id |-> asked[c] + 1, cmd |-> cmd]>>]
    /\ expecting' = [expecting EXCEPT ![c] = TRUE]
    /\ cpc' = [cpc EXCEPT ![c] = "waiting"]
    /\ UNCHANGED <<replies, got, loopVars, repVars>>

\* Mutant: receiveObject reads the text and leaves the object.
PartsReadText(parts) == SubSeq(parts, 1, IF Len(parts) > 1 THEN 1 ELSE Len(parts))

\* receiveObject reads at most two parts: the text and, if there is more, the object.
PartsRead(parts) == SubSeq(parts, 1, IF Len(parts) > 2 THEN 2 ELSE Len(parts))

\* Mutant: the catch assigns nothing, so that obj is still the CommandSocket.
ObjectOfUnset(parts) ==
    IF Len(parts) = 1 THEN "nothing"
    ELSE IF parts[2] \in {"object", "error"} THEN parts[2] ELSE "self"

\* The second part, deserialized; bytes that are no object give [], with a warning.
ObjectOf(parts) ==
    IF Len(parts) > 1 /\ parts[2] \in {"object", "error"} THEN parts[2] ELSE "nothing"

\* sendCommand returns.  Parts it did not read keep the REQ socket expecting.
ReceiveReply(c) ==
    /\ cpc[c] = "waiting" /\ replies[c] # none
    /\ LET reply == replies[c][1]
       IN  /\ got' = [got EXCEPT ![c] = <<[id |-> reply.id, text |-> reply.parts[1],
                                           object |-> ObjectOf(PartsRead(reply.parts))]>>]
           /\ expecting' = [expecting EXCEPT ![c] = PartsRead(reply.parts) # reply.parts]
    /\ replies' = [replies EXCEPT ![c] = none]
    /\ cpc' = [cpc EXCEPT ![c] = "idle"]
    /\ UNCHANGED <<asked, sent, loopVars, repVars>>

\* Mutant: the REQ socket forgets the reply it did not wait for.
ReceiveTimeoutRelaxed(c) ==
    /\ cpc[c] = "waiting" /\ replies[c] = none
    /\ got' = [got EXCEPT ![c] = none]
    /\ cpc' = [cpc EXCEPT ![c] = "idle"]
    /\ expecting' = [expecting EXCEPT ![c] = FALSE]
    /\ UNCHANGED <<asked, sent, replies, loopVars, repVars>>

\* RCVTIMEO set on the socket: recv returns -1, which sendCommand takes for the
\* text of a response.  The REQ socket still expects the reply.
ReceiveTimeout(c) ==
    /\ cpc[c] = "waiting" /\ replies[c] = none
    /\ got' = [got EXCEPT ![c] = none]
    /\ cpc' = [cpc EXCEPT ![c] = "idle"]
    /\ UNCHANGED <<asked, expecting, sent, replies, loopVars, repVars>>

\* The client's socket is replaced: by stop, start and connect, or because its
\* process was killed and started again.  Its old identity is unknown to the server.
Forget(c, r) == IF r.from = c THEN [r EXCEPT !.from = NoClient] ELSE r

\* Mutant: the new socket takes over the identity its queued requests carry.
RestartClientInherits(c) ==
    /\ cpc' = [cpc EXCEPT ![c] = "idle"]
    /\ expecting' = [expecting EXCEPT ![c] = FALSE]
    /\ sent' = [sent EXCEPT ![c] = none]
    /\ replies' = [replies EXCEPT ![c] = none]
    /\ got' = [got EXCEPT ![c] = none]
    /\ queue' = queue
    /\ cur' = [i \in DOMAIN cur |-> Forget(c, cur[i])]
    /\ outgoing' = [outgoing EXCEPT ![c] = none]
    /\ UNCHANGED <<asked, loopVars, staged, script>>

RestartClient(c) ==
    /\ cpc' = [cpc EXCEPT ![c] = "idle"]
    /\ expecting' = [expecting EXCEPT ![c] = FALSE]
    /\ sent' = [sent EXCEPT ![c] = none]
    /\ replies' = [replies EXCEPT ![c] = none]
    /\ got' = [got EXCEPT ![c] = none]
    /\ queue' = [i \in DOMAIN queue |-> Forget(c, queue[i])]
    /\ cur' = [i \in DOMAIN cur |-> Forget(c, cur[i])]
    /\ outgoing' = [outgoing EXCEPT ![c] = none]
    /\ UNCHANGED <<asked, loopVars, staged, script>>

-----------------------------------------------------------------------------
(* I/O threads *)

CarryRequest(c) ==
    /\ sent[c] # none /\ listening
    /\ queue' = queue \o sent[c]
    /\ sent' = [sent EXCEPT ![c] = none]
    /\ UNCHANGED <<cpc, asked, expecting, replies, got, loopVars, cur, staged, script, outgoing>>

CarryReply(c) ==
    /\ outgoing[c] # none
    /\ replies' = [replies EXCEPT ![c] = outgoing[c]]
    /\ outgoing' = [outgoing EXCEPT ![c] = none]
    /\ UNCHANGED <<cpc, asked, expecting, sent, got, loopVars, queue, cur, staged, script>>

-----------------------------------------------------------------------------
(* Server: start, stop, the loop of processRequests *)

\* What stop and the linger 0 of Socket.close do to the socket: everything that
\* is queued, half sent or not carried yet is gone.
DropMessages ==
    /\ queue' = <<>> /\ cur' = none /\ staged' = <<>>
    /\ outgoing' = [c \in Client |-> none]

DropSocket == running' = FALSE /\ sock' = FALSE /\ listening' = FALSE /\ DropMessages

\* start ignores the status of bind.  Called twice, it replaces the context; nothing
\* refers to the one before, whose delete closes its socket like stop does.
Start(bindOk) ==
    /\ spc = "out"
    /\ sock' = TRUE /\ listening' = bindOk /\ running' = TRUE
    /\ DropMessages
    /\ UNCHANGED <<clientVars, spc, mode, expired, script>>

\* stop() by the script that owns the server, or by a timer during pause.
Stop ==
    /\ spc \in {"out", "pause"} /\ sock
    /\ DropSocket
    /\ UNCHANGED <<clientVars, spc, mode, expired, script>>

\* The server's process is killed, wherever it is; Start begins a new one.
KillServer ==
    /\ sock
    /\ DropSocket
    /\ spc' = "out" /\ script' = <<>>
    /\ UNCHANGED <<clientVars, mode, expired>>

\* processRequests sets Running itself, started or not.
Process(m) ==
    /\ spc = "out"
    /\ spc' = "test" /\ running' = TRUE /\ mode' = m /\ expired' = FALSE
    /\ UNCHANGED <<clientVars, sock, listening, repVars>>

\* processOneRequest called by the owner: no loop around it and no catch.
ProcessOne ==
    /\ spc = "out"
    /\ spc' = "recv" /\ mode' = "once"
    /\ UNCHANGED <<clientVars, sock, listening, running, expired, repVars>>

Expire ==
    /\ mode = "timed" /\ ~expired /\ spc # "out"
    /\ expired' = TRUE
    /\ UNCHANGED <<clientVars, spc, sock, listening, running, mode, repVars>>

Goto(place) == spc' = place /\ UNCHANGED <<sock, listening, running, mode, expired>>

\* Where a request that was dealt with leads.
After(place) == IF mode = "once" THEN "out" ELSE place

\* An exception leads to the catch, which calls OnError first; processOneRequest has no
\* catch, and OnError is called outside any try: if it throws, processRequests is left.
Throw ==
    IF mode = "once" \/ spc = "catch"
    THEN Goto("out") /\ script' = <<>>
    ELSE Goto("catch") /\ script' \in ErrorScripts

\* Mutant: the loop looks at the clock and not at Running.
TestClockOnly ==
    /\ spc = "test"
    /\ Goto(IF ~expired THEN "recv" ELSE "out")
    /\ UNCHANGED <<clientVars, repVars>>

Test ==
    /\ spc = "test"
    /\ Goto(IF running /\ ~expired THEN "recv" ELSE "out")
    /\ UNCHANGED <<clientVars, repVars>>

HandlerScripts(cmd) ==
    CASE cmd = "custom"  -> Scripts
      [] cmd = "quit"    -> {<<"reply", "quit">>}
      [] cmd = "unknown" -> {<<"refuse">>}
      [] OTHER           -> {<<"reply">>}

\* OnMessage and OnCommand run first, then the handler; an unknown command is answered
\* with an error response.
ServeScripts(cmd) ==
    {callbacks \o handler : callbacks \in CallbackScripts, handler \in HandlerScripts(cmd)}

\* receiveObject blocks while nothing is queued; it throws without a socket and
\* while the reply to the last request is owed.
Receive ==
    /\ spc = "recv"
    /\ \/ /\ ~sock \/ cur # none
          /\ Throw
          /\ UNCHANGED <<queue, cur>>
       \/ /\ sock /\ cur = none /\ queue # <<>>
          /\ cur' = <<Head(queue)>> /\ queue' = Tail(queue)
          /\ script' \in ServeScripts(Head(queue).cmd)
          /\ Goto("serve")
    /\ UNCHANGED <<clientVars, staged, outgoing>>

\* RCVTIMEO set on the server's socket: the -1 of recv is taken for a command that
\* nobody has a handler for.
ServerTimeout ==
    /\ spc = "recv" /\ sock /\ cur = none /\ queue = <<>>
    /\ script' \in ServeScripts("unknown")
    /\ Goto("serve")
    /\ UNCHANGED <<clientVars, queue, cur, staged, outgoing>>

\* The last part of a reply: libzmq hands the whole message to the client's pipe,
\* or drops it when that client is gone.  REP may receive again.
Reply(parts) ==
    LET r == cur[1] IN
    /\ outgoing' = IF r.from = NoClient THEN outgoing
                   ELSE [outgoing EXCEPT ![r.from] =
                            <<[id |-> r.id, parts |-> staged \o parts]>>]
    /\ cur' = none /\ staged' = <<>>

CanSend == sock /\ cur # none

\* The user's code throws, or sends out of turn; the rest of it is not run.
MoveThrows ==
    \/ Head(script) = "throw"
    \/ Head(script) \in {"reply", "refuse", "more"} /\ ~CanSend

\* sendObject: the text with SNDMORE, then the object.
Answers == [reply |-> <<"text", "object">>, refuse |-> <<"errorresponse", "error">>]

\* One move of a callback, a handler or OnError.
Move ==
    /\ spc \in {"serve", "catch"} /\ script # <<>>
    /\ IF MoveThrows
       THEN Throw /\ UNCHANGED <<queue, cur, staged, outgoing>>
       ELSE /\ script' = Tail(script)
            /\ \/ /\ Head(script) \in DOMAIN Answers
                  /\ Reply(Answers[Head(script)])
                  /\ UNCHANGED <<queue, loopVars>>
               \/ /\ Head(script) = "more"
                  /\ staged' = Append(staged, "part")
                  /\ UNCHANGED <<queue, cur, outgoing, loopVars>>
               \/ /\ Head(script) = "quit"
                  /\ running' = FALSE
                  /\ UNCHANGED <<spc, sock, listening, mode, expired, queue, cur, staged, outgoing>>
               \/ /\ Head(script) = "stop"
                  /\ DropSocket
                  /\ UNCHANGED <<spc, mode, expired>>
    /\ UNCHANGED clientVars

\* The handler has returned.
Served ==
    /\ spc = "serve" /\ script = <<>>
    /\ Goto(After("pause"))
    /\ UNCHANGED <<clientVars, repVars>>

Pause ==
    /\ spc = "pause"
    /\ Goto("test")
    /\ UNCHANGED <<clientVars, repVars>>

\* Mutant: the error response is sent without its text part.
CatchBare ==
    /\ spc = "catch" /\ script = <<>>
    /\ IF CanSend THEN Reply(<<"error">>)
                  ELSE UNCHANGED <<cur, staged, outgoing>>
    /\ Goto("test")
    /\ UNCHANGED <<clientVars, queue, script>>

\* Mutant: no error response is sent after a failure.
CatchQuiet ==
    /\ spc = "catch" /\ script = <<>>
    /\ UNCHANGED <<cur, staged, outgoing>>
    /\ Goto("test")
    /\ UNCHANGED <<clientVars, queue, script>>

\* After OnError, the catch of processRequests tries to answer with an error response,
\* which is swallowed when no reply is owed.
Catch ==
    /\ spc = "catch" /\ script = <<>>
    /\ IF CanSend THEN Reply(<<"errorresponse", "error">>)
                  ELSE UNCHANGED <<cur, staged, outgoing>>
    /\ Goto("test")
    /\ UNCHANGED <<clientVars, queue, script>>

-----------------------------------------------------------------------------

ClientCalls == \E c \in Client : ReceiveReply(c) \/ \E cmd \in Commands : SendCommand(c, cmd)
Carry == \E c \in Client : CarryRequest(c) \/ CarryReply(c)
Loop == Test \/ Receive \/ Move \/ Served \/ Pause \/ Catch

\* The server serves for good and the clients wait for their answers.
ServiceNext ==
    \/ ClientCalls \/ Carry \/ Loop
    \/ ~sock /\ Start(TRUE)
    \/ sock /\ Process("forever")

\* Everything the owners of the processes may do as well.
OwnerNext ==
    \/ Start(TRUE) \/ Start(FALSE) \/ Stop \/ KillServer
    \/ Process("forever") \/ Process("timed") \/ ProcessOne
    \/ Expire \/ ServerTimeout
    \/ \E c \in Client : ReceiveTimeout(c) \/ RestartClient(c)

Next == ServiceNext \/ OwnerNext

\* MATLAB runs the loop, libzmq's threads carry messages, a blocked recv wakes up.
LoopFairness == WF_vars(Loop)
CarryFairness ==
    \A c \in Client : /\ WF_vars(CarryRequest(c))
                      /\ WF_vars(CarryReply(c))
                      /\ WF_vars(ReceiveReply(c))

Spec == Init /\ [][Next]_vars /\ LoopFairness

ServiceSpec ==
    /\ Init /\ [][ServiceNext]_vars
    /\ LoopFairness /\ CarryFairness
    /\ WF_vars(~sock /\ Start(TRUE)) /\ WF_vars(sock /\ Process("forever"))

\* The demo server: start, processRequests, stop; its clients never give up.
DemoSpec ==
    Init /\ [][ServiceNext \/ (spc = "out" /\ Stop)]_vars /\ LoopFairness /\ CarryFairness

-----------------------------------------------------------------------------
(* Properties *)

\* The places where client c's request, or the reply to it, may be.
Whereabouts(c) ==
    {<<"queue", i>> : i \in {j \in 1..Len(queue) : queue[j].from = c}}
    \cup {<<"pipe", i>> : i \in 1..Len(sent[c])}
    \cup {<<"answer", i>> : i \in 1..Len(outgoing[c])}
    \cup {<<"inbox", i>> : i \in 1..Len(replies[c])}
    \cup {<<"served", i>> : i \in {j \in 1..Len(cur) : cur[j].from = c}}

\* A request is never served twice and never answered twice, nor is a request of
\* an earlier socket still answered, whatever handlers do and whoever restarts:
\* at most one place holds it, and none unless its client still expects a reply.
OneWhereabouts ==
    \A c \in Client : /\ Cardinality(Whereabouts(c)) <= 1
                      /\ Whereabouts(c) # {} => expecting[c]

\* What sendCommand returns answers the command it has just sent.
ReplyMatches ==
    \A c \in Client : cpc[c] = "idle" /\ got[c] # none => got[c][1].id = asked[c]

\* Whatever fails after half a reply, and whoever stops or restarts, a client that got a
\* response can send its next command, unless the text of that response was a part a
\* handler had sent with sndmore: then the rest of the reply stays unread (CommandSocket.m:294,
\* 384-390), and every later sendCommand throws.
StuckAfterHalfReply ==
    \A c \in Client :
        cpc[c] = "idle" /\ expecting[c] /\ got[c] # none => got[c][1].text = "part"

\* processRequests always gets to answer what it owes, or its owner's code ends it: after a
\* handler that failed, said nothing or sent half a reply, and when the loop is entered
\* again because OnError threw, or after a processOneRequest that failed.
OwedIsAnswered ==
    (cur # none /\ spc # "out" /\ mode # "once") ~> (cur = none \/ spc = "out")

\* quit from a handler, stop() from a handler or a timer: processRequests returns.
LoopHonoursQuit == (spc # "out" /\ mode # "once" /\ ~running) ~> spc = "out"

\* Between two commands the REQ socket may send: no handler, silent, failing or
\* answering twice, leaves a client that can only throw EFSM.
ReadyBetweenCalls == \A c \in Client : cpc[c] = "idle" => ~expecting[c]

\* The caller sees a whole response or a whole error response, never a mixture.
WholeReply ==
    \A c \in Client : got[c] # none =>
        <<got[c][1].text, got[c][1].object>> \in {<<"text", "object">>, <<"errorresponse", "error">>}

\* Every command is served once, and comes back: see Rpc.
call == [c \in Client |->
            IF cpc[c] = "idle" THEN "idle"
            ELSE IF sent[c] # none \/ \E i \in 1..Len(queue) : queue[i].from = c
                 THEN "asked" ELSE "served"]
R == INSTANCE Rpc WITH Client <- Client, call <- call
RpcSpec == R!Spec
\* ... of which TLAPS proves the part without fairness.
RpcSafety == R!Init /\ [][R!Next]_call

\* A reply the server has sent reaches its client.
SentRepliesArrive ==
    [][\A c \in Client : outgoing[c] # none /\ outgoing'[c] = none => replies'[c] # none]_vars

\* processRequests(timeout) does not outlast its timeout for good.
TimeoutEndsLoop == (mode = "timed" /\ expired) ~> spc = "out"
=============================================================================
