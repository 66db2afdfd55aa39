------------------------ MODULE CommandSocket_proofs ------------------------
(***************************************************************************)
(* Proofs about CommandSocket, for any clients, commands and scripts of    *)
(* handlers and callbacks, and any number of commands.                     *)
(*                                                                         *)
(* Base is about the shape of replies: whatever is staged, failing or      *)
(* answered, each ends with one text and one object.  Tracked follows the  *)
(* request of one client through the two pipes, the queue, the handler and *)
(* back.                                                                   *)
(***************************************************************************)
EXTENDS CommandSocket, SequenceTheorems, FiniteSetTheorems, TLAPS

\* What sendObject sends.
WholeParts == {<<"text", "object">>, <<"errorresponse", "error">>}

\* A reply is that, after any parts a handler sent before it with sndmore.
Shaped(parts) == \E half \in Seq({"part"}), whole \in WholeParts : parts = half \o whole

\* The replies to c on their way, and what is left unread when sendCommand has returned.
ShapedFor(c) ==
    /\ outgoing[c] # none => Shaped(outgoing[c][1].parts)
    /\ replies[c] # none => Shaped(replies[c][1].parts)
    /\ cpc[c] = "idle" /\ expecting[c] /\ got[c] # none => got[c][1].text = "part"

Shapes == staged \in Seq({"part"}) /\ \A c \in Client : ShapedFor(c)

Base == TypeOK /\ Shapes

-----------------------------------------------------------------------------
(* Sequences of requests and parts *)

\* Queued requests after a client's socket is replaced: the same, but no longer his.
LEMMA Forgotten ==
  ASSUME NEW q \in Seq(Requests), NEW c \in Client, NEW p,
         p = [i \in DOMAIN q |-> Forget(c, q[i])]
  PROVE  /\ p \in Seq(Requests) /\ Len(p) = Len(q)
         /\ \A i \in 1..Len(q) :
               /\ p[i].from # c /\ p[i].from \in {q[i].from, NoClient}
               /\ p[i].id = q[i].id /\ p[i].cmd = q[i].cmd
<1>1. DOMAIN q = 1..Len(q) /\ Len(q) \in Nat
  OBVIOUS
<1>2. ASSUME NEW i \in 1..Len(q)
      PROVE  /\ p[i] \in Requests
             /\ p[i].from # c /\ p[i].from \in {q[i].from, NoClient}
             /\ p[i].id = q[i].id /\ p[i].cmd = q[i].cmd
  <2>1. q[i] \in Requests /\ p[i] = Forget(c, q[i])
    BY <1>1
  <2>2. NoClient # c
    BY ClientAssumption
  <2>3. CASE q[i].from = c
    <3>1. p[i] = [q[i] EXCEPT !.from = NoClient]
      BY <2>1, <2>3 DEF Forget
    <3>2. p[i] = [from |-> NoClient, id |-> q[i].id, cmd |-> q[i].cmd]
      BY <2>1, <3>1 DEF Requests
    <3> QED BY <2>1, <2>2, <3>2 DEF Requests
  <2>4. CASE q[i].from # c
    BY <2>1, <2>4 DEF Forget
  <2> QED BY <2>3, <2>4
<1>3. p \in [1..Len(q) -> Requests]
  BY <1>1, <1>2
<1>4. p \in Seq(Requests)
  BY <1>1, <1>3, SeqDef
<1>5. Len(p) = Len(q)
  BY <1>1, <1>3, <1>4, LenProperties
<1> QED BY <1>2, <1>4, <1>5

\* A message that is there is one message.
LEMMA OptionalOne ==
  ASSUME NEW S, NEW s \in Optional(S), s # none
  PROVE  s \in Seq(S) /\ Len(s) = 1 /\ s[1] \in S
<1>1. s \in Seq(S) /\ Len(s) <= 1 /\ s # <<>>
  BY DEF Optional, none
<1>2. Len(s) \in Nat \ {0}
  BY <1>1, EmptySeq
<1>3. Len(s) = 1
  BY <1>1, <1>2
<1>4. s[1] \in S
  BY <1>1, <1>3, ElementOfSeq
<1> QED BY <1>1, <1>3, <1>4

\* The queue with one more request at its end.
LEMMA QueueOne ==
  ASSUME NEW q \in Seq(Requests), NEW s \in Seq(Requests), Len(s) = 1
  PROVE  /\ Len(q) \in Nat /\ Len(q \o s) = Len(q) + 1 /\ (q \o s)[Len(q) + 1] = s[1]
         /\ \A i \in 1..Len(q) : (q \o s)[i] = q[i]
<1>1. /\ Len(q \o s) = Len(q) + Len(s)
      /\ \A i \in 1..Len(q) + Len(s) :
            (q \o s)[i] = IF i <= Len(q) THEN q[i] ELSE s[i - Len(q)]
  BY ConcatProperties
<1>2. Len(q) \in Nat
  OBVIOUS
<1> QED BY <1>1, <1>2

\* What sendObject sends are two parts.
LEMMA WholeIsTwo ==
  ASSUME NEW p \in WholeParts
  PROVE  /\ p \in Seq(Parts) /\ Len(p) = 2
         /\ p[1] \in {"text", "errorresponse"} /\ p[2] \in {"object", "error"}
<1>1. CASE p = <<"text", "object">>
  BY <1>1 DEF Parts
<1>2. CASE p = <<"errorresponse", "error">>
  BY <1>2 DEF Parts
<1> QED BY <1>1, <1>2 DEF WholeParts

\* A reply has a text and an object; if it has more, it begins with a part of a handler.
LEMMA ShapedParts ==
  ASSUME NEW p, Shaped(p)
  PROVE  /\ p \in Seq(Parts) /\ Len(p) \in Nat /\ Len(p) >= 2
         /\ p[1] \in {"part", "text", "errorresponse"}
         /\ Len(p) > 2 => p[1] = "part"
<1> PICK half \in Seq({"part"}), whole \in WholeParts : p = half \o whole
  BY DEF Shaped
<1>1. whole \in Seq(Parts) /\ Len(whole) = 2 /\ whole[1] \in {"text", "errorresponse"}
  BY WholeIsTwo
<1>2. half \in Seq(Parts) /\ Len(half) \in Nat
  BY DEF Parts
<1>a. /\ half \o whole \in Seq(Parts) /\ Len(half \o whole) = Len(half) + Len(whole)
      /\ \A i \in 1..Len(half) + Len(whole) :
            (half \o whole)[i] = IF i <= Len(half) THEN half[i] ELSE whole[i - Len(half)]
  BY <1>1, <1>2, ConcatProperties
<1>3. /\ p \in Seq(Parts) /\ Len(p) = Len(half) + 2
      /\ \A i \in 1..Len(half) + 2 : p[i] = IF i <= Len(half) THEN half[i] ELSE whole[i - Len(half)]
  BY <1>1, <1>a
<1>4. p[1] = IF 1 <= Len(half) THEN half[1] ELSE whole[1]
  <2>1. 1 \in 1..Len(half) + 2
    BY <1>2
  <2>2. p[1] = IF 1 <= Len(half) THEN half[1] ELSE whole[1 - Len(half)]
    BY <1>3, <2>1
  <2>3. Len(half) = 0 => 1 - Len(half) = 1
    OBVIOUS
  <2> QED BY <1>2, <2>2, <2>3
<1>5. 1 <= Len(half) => half[1] = "part"
  BY <1>2
<1> QED BY <1>1, <1>2, <1>3, <1>4, <1>5

\* sendCommand reads a reply to its end unless it begins with a part of a handler.
LEMMA ReadShaped ==
  ASSUME NEW p, Shaped(p)
  PROVE  PartsRead(p) = p \/ p[1] = "part"
<1>1. p \in Seq(Parts) /\ Len(p) \in Nat /\ Len(p) >= 2 /\ (Len(p) > 2 => p[1] = "part")
  BY ShapedParts
<1>2. CASE Len(p) > 2
  BY <1>1, <1>2
<1>3. CASE ~(Len(p) > 2)
  BY <1>1, <1>3, SubSeqFull DEF PartsRead
<1> QED BY <1>2, <1>3

\* What the last part of a reply does: the whole reply is in the client's pipe.
LEMMA ReplyShapes ==
  ASSUME Base, cur # none, NEW parts \in WholeParts, Reply(parts)
  PROVE  /\ outgoing' \in [Client -> Optional(Replies)]
         /\ cur' = none /\ staged' = <<>>
         /\ \A c \in Client : outgoing'[c] # none => Shaped(outgoing'[c][1].parts)
<1> DEFINE r == cur[1]
           reply == [id |-> r.id, parts |-> staged \o parts]
<1>1. r \in Requests /\ outgoing \in [Client -> Optional(Replies)]
  BY DEF Base, TypeOK, Optional, none
<1>2. Shaped(staged \o parts)
  BY DEF Shaped, Base, Shapes
<1>3. staged \o parts \in Seq(Parts)
  BY <1>2, ShapedParts
<1>4. reply \in Replies /\ reply.parts = staged \o parts
  BY <1>1, <1>3 DEF Requests, Replies
<1> HIDE DEF reply
<1>5. <<reply>> \in Optional(Replies) /\ <<reply>>[1] = reply
  BY <1>4 DEF Optional
<1>6. /\ cur' = none /\ staged' = <<>>
      /\ outgoing' = IF r.from = NoClient THEN outgoing ELSE [outgoing EXCEPT ![r.from] = <<reply>>]
  BY DEF Reply, reply
<1>7. outgoing' \in [Client -> Optional(Replies)]
  BY <1>1, <1>5, <1>6 DEF Requests
<1>8. ASSUME NEW c \in Client, outgoing'[c] # none PROVE Shaped(outgoing'[c][1].parts)
  <2>1. CASE outgoing'[c] = outgoing[c]
    BY <1>8, <2>1 DEF Base, Shapes, ShapedFor
  <2>2. CASE outgoing'[c] = <<reply>>
    BY <1>2, <1>4, <1>5, <2>2
  <2>3. outgoing'[c] \in {outgoing[c], <<reply>>}
    BY <1>1, <1>6
  <2> QED BY <2>1, <2>2, <2>3
<1> QED BY <1>6, <1>7, <1>8

-----------------------------------------------------------------------------
(* Base, one lemma per kind of step *)

\* The parts of TypeOK, so that a step has to show the types of what it changes.
ClientTypes ==
    /\ cpc \in [Client -> {"idle", "waiting"}]
    /\ asked \in [Client -> 0..MaxCommands]
    /\ expecting \in [Client -> BOOLEAN]
    /\ sent \in [Client -> Optional(Requests)]
    /\ replies \in [Client -> Optional(Replies)]
    /\ got \in [Client -> Optional(Responses)]
LoopTypes ==
    /\ spc \in ServerPlaces
    /\ sock \in BOOLEAN /\ listening \in BOOLEAN /\ running \in BOOLEAN /\ expired \in BOOLEAN
    /\ mode \in {"forever", "timed", "once"}
RepTypes ==
    /\ queue \in Seq(Requests)
    /\ cur \in Optional(Requests)
    /\ staged \in Seq(Parts)
    /\ script \in Seq(Moves)
    /\ outgoing \in [Client -> Optional(Replies)]

\* They are TypeOK, before and after a step.
LEMMA TypesSplit ==
  /\ TypeOK <=> ClientTypes /\ LoopTypes /\ RepTypes
  /\ TypeOK' <=> ClientTypes' /\ LoopTypes' /\ RepTypes'
  BY DEF TypeOK, ClientTypes, LoopTypes, RepTypes

\* Staged parts are parts.
LEMMA StagedTypes ==
  /\ Shapes => staged \in Seq(Parts)
  /\ Shapes' => staged' \in Seq(Parts)
  BY DEF Shapes, Parts

\* Nobody has called anything.
LEMMA InitBase == Init => Base
<1> SUFFICES ASSUME Init PROVE Base
  OBVIOUS
<1>1. none \in Optional(Requests) /\ none \in Optional(Replies) /\ none \in Optional(Responses)
  BY DEF Optional, none
<1>2. ClientTypes
  BY <1>1, MaxCommandsAssumption DEF Init, ClientTypes
<1>4. LoopTypes
  BY DEF Init, LoopTypes, ServerPlaces
<1>3. RepTypes
  BY <1>1 DEF Init, RepTypes
<1>5. Shapes
  BY DEF Init, Shapes, ShapedFor
<1> QED BY <1>2, <1>3, <1>4, <1>5, TypesSplit DEF Base

\* A step of the clients or the I/O threads that leaves the loop, the script and the staged
\* parts alone, and the shape of replies.
LEMMA LoopApart ==
  ASSUME Base, UNCHANGED <<loopVars, staged, script>>, ClientTypes',
         queue' \in Seq(Requests), cur' \in Optional(Requests),
         outgoing' \in [Client -> Optional(Replies)], \A d \in Client : ShapedFor(d)'
  PROVE  Base'
<1>1. LoopTypes /\ RepTypes /\ Shapes
  BY TypesSplit DEF Base
<1>2. LoopTypes' /\ RepTypes' /\ Shapes'
  BY <1>1 DEF LoopTypes, RepTypes, Shapes, loopVars
<1> QED BY <1>2, TypesSplit DEF Base

\* sendCommand sends.
LEMMA SendCommandBase ==
  ASSUME Base, NEW c \in Client, NEW cmd \in Commands, SendCommand(c, cmd)
  PROVE  Base'
<1>1. ClientTypes /\ RepTypes /\ Shapes
  BY TypesSplit DEF Base
<1>2. /\ UNCHANGED <<loopVars, queue, cur, staged, script, outgoing, replies, got>>
      /\ cpc' = [cpc EXCEPT ![c] = "waiting"] /\ expecting' = [expecting EXCEPT ![c] = TRUE]
  BY DEF SendCommand, repVars
<1>3. asked[c] + 1 \in 1..MaxCommands
  BY <1>1, MaxCommandsAssumption DEF ClientTypes, SendCommand
<1>4. [from |-> c, id |-> asked[c] + 1, cmd |-> cmd] \in Requests
  BY <1>3 DEF Requests
<1>5. <<[from |-> c, id |-> asked[c] + 1, cmd |-> cmd]>> \in Optional(Requests)
  BY <1>4 DEF Optional
<1>6. ClientTypes'
  BY <1>1, <1>3, <1>5 DEF ClientTypes, SendCommand
<1>7. ASSUME NEW d \in Client PROVE ShapedFor(d)'
  BY <1>1, <1>2 DEF Shapes, ShapedFor, ClientTypes
<1> QED BY <1>1, <1>2, <1>6, <1>7, LoopApart DEF RepTypes

\* sendCommand returns: what it leaves unread belongs to a reply with a handler's parts.
LEMMA ReceiveReplyBase ==
  ASSUME Base, NEW c \in Client, ReceiveReply(c)
  PROVE  Base'
<1> DEFINE parts == replies[c][1].parts
           response == [id |-> replies[c][1].id, text |-> parts[1], object |-> ObjectOf(PartsRead(parts))]
<1>1. ClientTypes /\ RepTypes /\ Shapes /\ replies[c] # none
  BY TypesSplit DEF Base, ReceiveReply
<1>2. /\ UNCHANGED <<loopVars, queue, cur, staged, script, outgoing, asked, sent>>
      /\ cpc' = [cpc EXCEPT ![c] = "idle"] /\ replies' = [replies EXCEPT ![c] = none]
      /\ got' = [got EXCEPT ![c] = <<response>>]
      /\ expecting' = [expecting EXCEPT ![c] = PartsRead(parts) # parts]
  BY DEF ReceiveReply, repVars
<1>3. Shaped(parts) /\ replies[c][1] \in Replies
  BY <1>1, OptionalOne DEF Shapes, ShapedFor, ClientTypes
<1>4. parts[1] \in {"part", "text", "errorresponse"}
  BY <1>3, ShapedParts
<1>5. ObjectOf(PartsRead(parts)) \in {"object", "error", "nothing"}
  BY DEF ObjectOf
<1>6. replies[c][1].id \in 1..MaxCommands
  BY <1>3 DEF Replies
<1>7. response \in Responses /\ response.text = parts[1]
  BY <1>4, <1>5, <1>6 DEF Responses
<1> HIDE DEF response
<1>8. <<response>> \in Optional(Responses) /\ <<response>>[1] = response
  BY <1>7 DEF Optional
<1>9. none \in Optional(Replies)
  BY DEF Optional, none
<1>10. PartsRead(parts) = parts \/ parts[1] = "part"
  BY <1>3, ReadShaped
<1> HIDE DEF parts
<1>11. ClientTypes'
  BY <1>1, <1>2, <1>8, <1>9 DEF ClientTypes
<1>12. ASSUME NEW d \in Client PROVE ShapedFor(d)'
  <2>1. CASE d = c
    <3>1. replies'[d] = none /\ got'[d] = <<response>> /\ (expecting'[d] => PartsRead(parts) # parts)
      BY <1>1, <1>2, <2>1 DEF ClientTypes
    <3>2. outgoing'[d] # none => Shaped(outgoing'[d][1].parts)
      BY <1>1, <1>2 DEF Shapes, ShapedFor
    <3> QED BY <1>7, <1>8, <1>10, <3>1, <3>2 DEF ShapedFor
  <2>2. CASE d # c
    BY <1>1, <1>2, <2>2 DEF Shapes, ShapedFor, ClientTypes
  <2> QED BY <2>1, <2>2
<1> QED BY <1>1, <1>2, <1>11, <1>12, LoopApart DEF RepTypes

\* A timeout and a restart leave nothing that was got.
LEMMA GiveUpBase ==
  ASSUME Base, NEW c \in Client, ReceiveTimeout(c) \/ RestartClient(c)
  PROVE  Base'
<1>1. ClientTypes /\ RepTypes /\ Shapes
  BY TypesSplit DEF Base
<1>2. none \in Optional(Requests) /\ none \in Optional(Replies) /\ none \in Optional(Responses)
  BY DEF Optional, none
<1>3. CASE ReceiveTimeout(c)
  <2>1. ClientTypes'
    BY <1>1, <1>2, <1>3 DEF ClientTypes, ReceiveTimeout
  <2>2. UNCHANGED <<loopVars, queue, cur, staged, script, outgoing>>
    BY <1>3 DEF ReceiveTimeout, repVars
  <2>3. ASSUME NEW d \in Client PROVE ShapedFor(d)'
    BY <1>1, <1>3, <2>2 DEF Shapes, ShapedFor, ClientTypes, ReceiveTimeout
  <2> QED BY <1>1, <2>1, <2>2, <2>3, LoopApart DEF RepTypes
<1>4. CASE RestartClient(c)
  <2>1. ClientTypes'
    BY <1>1, <1>2, <1>4 DEF ClientTypes, RestartClient
  <2>2. queue' \in Seq(Requests)
    BY <1>1, <1>4, Forgotten DEF RestartClient, RepTypes
  <2>3. cur \in Seq(Requests) /\ Len(cur) <= 1
    BY <1>1 DEF RepTypes, Optional
  <2>4. cur' \in Seq(Requests) /\ Len(cur') = Len(cur)
    BY <1>4, <2>3, Forgotten DEF RestartClient
  <2>5. cur' \in Optional(Requests)
    BY <2>3, <2>4 DEF Optional
  <2>6. outgoing' \in [Client -> Optional(Replies)]
    BY <1>1, <1>2, <1>4 DEF RepTypes, RestartClient
  <2>7. UNCHANGED <<loopVars, staged, script>>
    BY <1>4 DEF RestartClient
  <2>8. ASSUME NEW d \in Client PROVE ShapedFor(d)'
    BY <1>1, <1>4 DEF Shapes, ShapedFor, ClientTypes, RepTypes, RestartClient
  <2> QED BY <2>1, <2>2, <2>5, <2>6, <2>7, <2>8, LoopApart
<1> QED BY <1>3, <1>4

\* The I/O threads carry what was sent, unchanged.
LEMMA CarryBase == ASSUME Base, NEW c \in Client, CarryRequest(c) \/ CarryReply(c) PROVE Base'
<1>1. ClientTypes /\ RepTypes /\ Shapes
  BY TypesSplit DEF Base
<1>2. none \in Optional(Requests) /\ none \in Optional(Replies)
  BY DEF Optional, none
<1>3. CASE CarryRequest(c)
  <2>1. sent[c] \in Seq(Requests)
    BY <1>1 DEF ClientTypes, Optional
  <2>2. queue' \in Seq(Requests)
    BY <1>1, <1>3, <2>1, ConcatProperties DEF CarryRequest, RepTypes
  <2>3. ClientTypes'
    BY <1>1, <1>2, <1>3 DEF ClientTypes, CarryRequest
  <2>4. UNCHANGED <<cpc, expecting, replies, got, loopVars, cur, staged, script, outgoing>>
    BY <1>3 DEF CarryRequest
  <2>5. ASSUME NEW d \in Client PROVE ShapedFor(d)'
    BY <1>1, <2>4 DEF Shapes, ShapedFor
  <2> QED BY <1>1, <2>2, <2>3, <2>4, <2>5, LoopApart DEF RepTypes
<1>4. CASE CarryReply(c)
  <2>1. ClientTypes' /\ outgoing' \in [Client -> Optional(Replies)]
    BY <1>1, <1>2, <1>4 DEF ClientTypes, RepTypes, CarryReply
  <2>2. UNCHANGED <<cpc, expecting, got, loopVars, queue, cur, staged, script>>
    BY <1>4 DEF CarryReply
  <2>3. ASSUME NEW d \in Client PROVE ShapedFor(d)'
    BY <1>1, <1>4, <2>2 DEF Shapes, ShapedFor, ClientTypes, RepTypes, CarryReply
  <2> QED BY <1>1, <2>1, <2>2, <2>3, LoopApart DEF RepTypes
<1> QED BY <1>3, <1>4

\* A step of the server that moves no message.
LEMMA QuietBase ==
  ASSUME Base, UNCHANGED <<clientVars, queue, cur, staged, outgoing>>,
         LoopTypes', script' \in Seq(Moves)
  PROVE  Base'
<1>1. ClientTypes /\ RepTypes /\ Shapes
  BY TypesSplit DEF Base
<1>2. ClientTypes' /\ RepTypes' /\ Shapes'
  BY <1>1 DEF ClientTypes, RepTypes, Shapes, ShapedFor, clientVars
<1> QED BY <1>2, TypesSplit DEF Base

\* With the socket go the request, what was staged for it, and every reply.
LEMMA DropBase ==
  ASSUME Base, DropMessages, UNCHANGED clientVars, LoopTypes', script' \in Seq(Moves)
  PROVE  Base'
<1>1. ClientTypes /\ RepTypes /\ Shapes
  BY TypesSplit DEF Base
<1>2. outgoing' = [c \in Client |-> none] /\ none \in Optional(Requests) /\ none \in Optional(Replies)
  BY DEF DropMessages, Optional, none
<1>3. ClientTypes' /\ RepTypes'
  BY <1>1, <1>2 DEF ClientTypes, RepTypes, DropMessages, clientVars
<1>4. Shapes'
  BY <1>1, <1>2 DEF Shapes, ShapedFor, DropMessages, clientVars
<1> QED BY <1>3, <1>4, TypesSplit DEF Base

\* The last part of a reply settles the request it answers.
LEMMA ReplyBase ==
  ASSUME Base, cur # none, NEW parts \in WholeParts, Reply(parts),
         LoopTypes', script' \in Seq(Moves), UNCHANGED <<clientVars, queue>>
  PROVE  Base'
<1>1. ClientTypes /\ RepTypes /\ Shapes
  BY TypesSplit DEF Base
<1>2. /\ outgoing' \in [Client -> Optional(Replies)] /\ cur' = none /\ staged' = <<>>
      /\ \A c \in Client : outgoing'[c] # none => Shaped(outgoing'[c][1].parts)
  BY ReplyShapes
<1>3. ClientTypes' /\ RepTypes'
  BY <1>1, <1>2 DEF ClientTypes, RepTypes, clientVars, Optional, none
<1>4. Shapes'
  BY <1>1, <1>2 DEF Shapes, ShapedFor, clientVars
<1> QED BY <1>3, <1>4, TypesSplit DEF Base

\* What callbacks and handlers do is made of moves.
LEMMA ScriptTypes ==
  /\ \A s \in ErrorScripts : s \in Seq(Moves)
  /\ \A cmd : \A s \in ServeScripts(cmd) : s \in Seq(Moves)
<1>1. /\ <<"reply", "quit">> \in Seq(Moves) /\ <<"reply">> \in Seq(Moves)
      /\ <<"refuse">> \in Seq(Moves)
  BY DEF Moves
<1>2. ASSUME NEW cmd, NEW s \in HandlerScripts(cmd) PROVE s \in Seq(Moves)
  <2>1. CASE cmd = "custom"
    BY <1>2, <2>1, ScriptsAssumption DEF HandlerScripts
  <2>2. CASE cmd = "quit"
    BY <1>1, <1>2, <2>2 DEF HandlerScripts
  <2>3. CASE cmd = "unknown"
    BY <1>1, <1>2, <2>3 DEF HandlerScripts
  <2>4. CASE cmd # "custom" /\ cmd # "quit" /\ cmd # "unknown"
    BY <1>1, <1>2, <2>4 DEF HandlerScripts
  <2> QED BY <2>1, <2>2, <2>3, <2>4
<1>3. ASSUME NEW cmd, NEW s \in ServeScripts(cmd) PROVE s \in Seq(Moves)
  <2>1. PICK callbacks \in CallbackScripts, handler \in HandlerScripts(cmd) : s = callbacks \o handler
    BY <1>3 DEF ServeScripts
  <2>2. callbacks \in Seq(Moves) /\ handler \in Seq(Moves)
    BY <1>2, ScriptsAssumption
  <2> QED BY <2>1, <2>2, ConcatProperties
<1> QED BY <1>3, ScriptsAssumption

\* An exception leads to the catch, or out.
LEMMA ThrowTypes ==
  ASSUME LoopTypes, Throw
  PROVE  LoopTypes' /\ script' \in Seq(Moves)
<1>1. script' \in Seq(Moves)
  <2>1. CASE mode = "once" \/ spc = "catch"
    <3>1. script' = <<>>
      BY <2>1 DEF Throw
    <3> QED BY <3>1
  <2>2. CASE ~(mode = "once" \/ spc = "catch")
    <3>1. script' \in ErrorScripts
      BY <2>2 DEF Throw
    <3> QED BY <3>1, ScriptTypes
  <2> QED BY <2>1, <2>2
<1>2. LoopTypes'
  BY DEF LoopTypes, Throw, Goto, ServerPlaces
<1> QED BY <1>1, <1>2

\* The steps of the loop that leave every message where it is.
LoopStep ==
    \/ \E m \in {"forever", "timed"} : Process(m)
    \/ ProcessOne \/ Expire \/ Test \/ ServerTimeout \/ Served \/ Pause

\* So they do.
LEMMA LoopStepKeeps ==
  ASSUME LoopTypes, script \in Seq(Moves), LoopStep
  PROVE  /\ UNCHANGED <<clientVars, queue, cur, staged, outgoing>>
         /\ LoopTypes' /\ script' \in Seq(Moves)
<1>2. CASE \E m \in {"forever", "timed"} : Process(m)
  BY <1>2 DEF Process, LoopTypes, ServerPlaces, repVars
<1>3. CASE ProcessOne \/ Expire
  BY <1>3 DEF ProcessOne, Expire, LoopTypes, ServerPlaces, repVars
<1>4. CASE ServerTimeout
  BY <1>4, ScriptTypes DEF ServerTimeout, Goto, LoopTypes, ServerPlaces
<1>5. CASE Test \/ Served \/ Pause
  BY <1>5 DEF Test, Served, Pause, Goto, After, LoopTypes, ServerPlaces, repVars
<1> QED BY <1>2, <1>3, <1>4, <1>5 DEF LoopStep

\* start, stop and the end of the process: the messages go.
LEMMA OwnerBase ==
  ASSUME Base, Stop \/ KillServer \/ \E bindOk \in BOOLEAN : Start(bindOk)
  PROVE  Base' /\ DropMessages /\ UNCHANGED clientVars
<1>1. LoopTypes /\ script \in Seq(Moves)
  BY TypesSplit DEF Base, RepTypes
<1>2. CASE Stop
  <2>1. LoopTypes' /\ script' \in Seq(Moves) /\ DropMessages /\ UNCHANGED clientVars
    BY <1>1, <1>2 DEF Stop, DropSocket, LoopTypes
  <2> QED BY <2>1, DropBase
<1>3. CASE KillServer
  <2>1. script' = <<>> /\ LoopTypes' /\ DropMessages /\ UNCHANGED clientVars
    BY <1>1, <1>3 DEF KillServer, DropSocket, LoopTypes, ServerPlaces
  <2> QED BY <2>1, DropBase
<1>4. CASE \E bindOk \in BOOLEAN : Start(bindOk)
  <2>1. LoopTypes' /\ script' \in Seq(Moves) /\ DropMessages /\ UNCHANGED clientVars
    BY <1>1, <1>4 DEF Start, LoopTypes
  <2> QED BY <2>1, DropBase
<1> QED BY <1>2, <1>3, <1>4

\* A request is taken, or receiveObject throws.
LEMMA ReceiveBase == ASSUME Base, Receive PROVE Base'
<1>1. ClientTypes /\ LoopTypes /\ RepTypes /\ Shapes
  BY TypesSplit DEF Base
<1>2. UNCHANGED <<clientVars, staged, outgoing>>
  BY DEF Receive
<1>3. CASE Throw /\ UNCHANGED <<queue, cur>>
  <2>1. LoopTypes' /\ script' \in Seq(Moves)
    BY <1>1, <1>3, ThrowTypes
  <2> QED BY <1>2, <1>3, <2>1, QuietBase
<1>4. CASE /\ queue # <<>> /\ cur' = <<Head(queue)>> /\ queue' = Tail(queue)
           /\ script' \in ServeScripts(Head(queue).cmd) /\ Goto("serve")
  <2>1. Head(queue) \in Requests /\ Tail(queue) \in Seq(Requests)
    BY <1>1, <1>4, HeadTailProperties DEF RepTypes
  <2>2. cur' \in Optional(Requests)
    BY <1>4, <2>1 DEF Optional
  <2>3. RepTypes'
    BY <1>1, <1>2, <1>4, <2>1, <2>2, ScriptTypes DEF RepTypes
  <2>4. LoopTypes'
    BY <1>1, <1>4 DEF LoopTypes, Goto, ServerPlaces
  <2>5. ClientTypes' /\ Shapes'
    BY <1>1, <1>2 DEF ClientTypes, Shapes, ShapedFor, clientVars
  <2> QED BY <2>3, <2>4, <2>5, TypesSplit DEF Base
<1> QED BY <1>3, <1>4 DEF Receive

\* The catch answers with an error response if one is owed.
LEMMA CatchBase == ASSUME Base, Catch PROVE Base'
<1>1. LoopTypes /\ RepTypes
  BY TypesSplit DEF Base
<1>2. LoopTypes' /\ script' \in Seq(Moves)
  BY <1>1 DEF LoopTypes, RepTypes, Catch, Goto, ServerPlaces
<1>3. CASE CanSend
  <2>1. <<"errorresponse", "error">> \in WholeParts
    BY DEF WholeParts
  <2> QED BY <1>2, <1>3, <2>1, ReplyBase DEF Catch, CanSend
<1>4. CASE ~CanSend
  BY <1>2, <1>4, QuietBase DEF Catch
<1> QED BY <1>3, <1>4

\* What sendObject sends is whole.
LEMMA AnswersWhole == ASSUME NEW m \in DOMAIN Answers PROVE Answers[m] \in WholeParts
<1>1. DOMAIN Answers = {"reply", "refuse"}
  BY DEF Answers
<1>2. Answers["reply"] = <<"text", "object">> /\ Answers["refuse"] = <<"errorresponse", "error">>
  BY DEF Answers
<1> QED BY <1>1, <1>2 DEF WholeParts

\* The ways a move can go.
LEMMA MoveCases ==
  ASSUME Move, LoopTypes, script \in Seq(Moves)
  PROVE  /\ UNCHANGED clientVars /\ LoopTypes' /\ script' \in Seq(Moves)
         /\ \/ UNCHANGED <<queue, cur, staged, outgoing>>
            \/ /\ cur # none /\ UNCHANGED queue
               /\ \E parts \in WholeParts : Reply(parts)
            \/ Head(script) = "more" /\ staged' = Append(staged, "part") /\ UNCHANGED <<queue, cur, outgoing>>
            \/ Head(script) = "stop" /\ DropMessages
<1>1. UNCHANGED clientVars /\ script # <<>>
  BY DEF Move
<1>2. Tail(script) \in Seq(Moves)
  BY <1>1, HeadTailProperties
<1>3. CASE MoveThrows
  <2>1. Throw /\ UNCHANGED <<queue, cur, staged, outgoing>>
    BY <1>3 DEF Move
  <2> QED BY <1>1, <2>1, ThrowTypes
<1>4. CASE ~MoveThrows
  <2>1. script' = Tail(script)
    BY <1>4 DEF Move
  <2>2. CASE /\ Head(script) \in DOMAIN Answers /\ Reply(Answers[Head(script)])
             /\ UNCHANGED <<queue, loopVars>>
    <3>1. Head(script) \in {"reply", "refuse"}
      BY <2>2 DEF Answers
    <3>2. cur # none
      BY <1>4, <3>1 DEF MoveThrows, CanSend
    <3>3. LoopTypes'
      BY <2>2 DEF LoopTypes, loopVars
    <3> QED BY <1>1, <1>2, <2>1, <2>2, <3>2, <3>3, AnswersWhole
  <2>3. CASE /\ Head(script) = "more" /\ staged' = Append(staged, "part")
             /\ UNCHANGED <<queue, cur, outgoing, loopVars>>
    <3>1. LoopTypes'
      BY <2>3 DEF LoopTypes, loopVars
    <3> QED BY <1>1, <1>2, <2>1, <2>3, <3>1
  <2>4. CASE /\ running' = FALSE
             /\ UNCHANGED <<spc, sock, listening, mode, expired, queue, cur, staged, outgoing>>
    <3>1. LoopTypes'
      BY <2>4 DEF LoopTypes
    <3> QED BY <1>1, <1>2, <2>1, <2>4, <3>1
  <2>5. CASE Head(script) = "stop" /\ DropSocket /\ UNCHANGED <<spc, mode, expired>>
    <3>1. LoopTypes'
      BY <2>5 DEF LoopTypes, DropSocket
    <3> QED BY <1>1, <1>2, <2>1, <2>5, <3>1 DEF DropSocket
  <2> QED BY <1>4, <2>2, <2>3, <2>4, <2>5 DEF Move
<1> QED BY <1>3, <1>4

\* One move of a callback, a handler or OnError.
LEMMA MoveBase == ASSUME Base, Move PROVE Base'
<1>1. ClientTypes /\ LoopTypes /\ RepTypes /\ Shapes /\ script \in Seq(Moves)
  BY TypesSplit DEF Base, RepTypes
<1>2. UNCHANGED clientVars /\ LoopTypes' /\ script' \in Seq(Moves)
  BY <1>1, MoveCases
<1>3. CASE UNCHANGED <<queue, cur, staged, outgoing>>
  BY <1>2, <1>3, QuietBase
<1>4. CASE cur # none /\ UNCHANGED queue /\ \E parts \in WholeParts : Reply(parts)
  BY <1>2, <1>4, ReplyBase
<1>5. CASE staged' = Append(staged, "part") /\ UNCHANGED <<queue, cur, outgoing>>
  <2>1. staged' \in Seq({"part"})
    BY <1>1, <1>5, AppendProperties DEF Shapes
  <2>2. ClientTypes' /\ Shapes'
    BY <1>1, <1>2, <1>5, <2>1 DEF ClientTypes, Shapes, ShapedFor, clientVars
  <2>3. RepTypes'
    BY <1>1, <1>2, <1>5, <2>2, StagedTypes DEF RepTypes
  <2> QED BY <1>2, <2>2, <2>3, TypesSplit DEF Base
<1>6. CASE DropMessages
  BY <1>2, <1>6, DropBase
<1> QED BY <1>1, <1>3, <1>4, <1>5, <1>6, MoveCases

\* Whatever the processes do, the types hold and replies have their shape.
LEMMA NextBase == Base /\ [Next]_vars => Base'
<1> SUFFICES ASSUME Base, [Next]_vars PROVE Base'
  OBVIOUS
<1>1. CASE ClientCalls \/ \E c \in Client : ReceiveTimeout(c) \/ RestartClient(c)
  BY <1>1, SendCommandBase, ReceiveReplyBase, GiveUpBase DEF ClientCalls
<1>2. CASE Carry
  BY <1>2, CarryBase DEF Carry
<1>3. CASE LoopStep
  <2>1. LoopTypes /\ script \in Seq(Moves)
    BY TypesSplit DEF Base, RepTypes
  <2> QED BY <1>3, <2>1, LoopStepKeeps, QuietBase
<1>4. CASE Stop \/ KillServer \/ \E bindOk \in BOOLEAN : Start(bindOk)
  BY <1>4, OwnerBase
<1>5. CASE Receive
  BY <1>5, ReceiveBase
<1>6. CASE Move
  BY <1>6, MoveBase
<1>7. CASE Catch
  BY <1>7, CatchBase
<1>8. CASE UNCHANGED vars
  BY <1>8, TypesSplit
     DEF vars, clientVars, loopVars, repVars, Base, Shapes, ShapedFor,
         ClientTypes, LoopTypes, RepTypes
<1> QED BY <1>1, <1>2, <1>3, <1>4, <1>5, <1>6, <1>7, <1>8
        DEF Next, ServiceNext, OwnerNext, Loop, LoopStep

\* The types hold; above all, what sendCommand returns is a text and an object of a reply.
THEOREM TypeCorrect == Spec => []TypeOK
<1>1. Base => TypeOK
  BY DEF Base
<1> QED BY <1>1, InitBase, NextBase, PTL DEF Spec

\* A client that got a response can send again, unless the text of it was a part that a
\* handler had sent before it failed or answered: whoever stops, fails, answers twice or
\* restarts, nothing but such a part leaves a reply half read.
THEOREM OnlyPartsLeaveStuck == Spec => []StuckAfterHalfReply
<1>1. Base => StuckAfterHalfReply
  BY DEF Base, Shapes, ShapedFor, StuckAfterHalfReply
<1> QED BY <1>1, InitBase, NextBase, PTL DEF Spec

-----------------------------------------------------------------------------
(* One client's request, wherever it is *)

Queued(c) == \E i \in 1..Len(queue) : queue[i].from = c
InHand(c) == cur # none /\ cur[1].from = c

\* Neither the request of c nor the reply to it is anywhere.
Nowhere(c) ==
    ~Queued(c) /\ ~InHand(c) /\ sent[c] = none /\ outgoing[c] = none /\ replies[c] = none

\* It is in one place only.
OnePlace(c) ==
    /\ \A i, j \in 1..Len(queue) : queue[i].from = c /\ queue[j].from = c => i = j
    /\ Queued(c) => ~InHand(c) /\ sent[c] = none /\ outgoing[c] = none /\ replies[c] = none
    /\ InHand(c) => sent[c] = none /\ outgoing[c] = none /\ replies[c] = none
    /\ sent[c] # none => outgoing[c] = none /\ replies[c] = none
    /\ outgoing[c] # none => replies[c] = none

\* It bears the number of the client's last command, and so does what the client got.
Numbered(c) ==
    /\ \A i \in 1..Len(queue) : queue[i].from = c => queue[i].id = asked[c]
    /\ InHand(c) => cur[1].id = asked[c]
    /\ sent[c] # none => sent[c][1].from = c /\ sent[c][1].id = asked[c]
    /\ outgoing[c] # none => outgoing[c][1].id = asked[c]
    /\ replies[c] # none => replies[c][1].id = asked[c]
    /\ cpc[c] = "idle" /\ got[c] # none => got[c][1].id = asked[c]

Tracked(c) == OnePlace(c) /\ Numbered(c) /\ (~expecting[c] => Nowhere(c))

Inv == Base /\ \A c \in Client : Tracked(c)

\* At first nothing is anywhere.
LEMMA InitInv == Init => Inv
<1> SUFFICES ASSUME Init PROVE Inv
  OBVIOUS
<1>1. Base
  BY InitBase
<1>2. ASSUME NEW c \in Client PROVE Tracked(c)
  BY DEF Init, Tracked, OnePlace, Numbered, Nowhere, Queued, InHand, none
<1> QED BY <1>1, <1>2 DEF Inv

\* A step that only takes things of d away, and leaves its count alone.
Fewer(d) ==
    /\ \A i \in 1..Len(queue') :
          /\ i \in 1..Len(queue)
          /\ queue'[i].from = d => queue[i].from = d /\ queue'[i].id = queue[i].id
    /\ InHand(d)' => InHand(d) /\ cur'[1].id = cur[1].id
    /\ sent'[d] \in {none, sent[d]}
    /\ outgoing'[d] \in {none, outgoing[d]}
    /\ replies'[d] \in {none, replies[d]}
    /\ asked'[d] = asked[d]

\* It keeps track of d, if what d got answers its last command and d expects what is left.
LEMMA FewerTracked ==
  ASSUME NEW d \in Client, Tracked(d), Fewer(d),
         cpc'[d] = "idle" /\ got'[d] # none => got'[d][1].id = asked'[d],
         ~expecting'[d] => ~expecting[d] \/ Nowhere(d)'
  PROVE  Tracked(d)'
<1>1. OnePlace(d)'
  BY DEF Fewer, Tracked, OnePlace, Queued, InHand
<1>2. Numbered(d)'
  BY DEF Fewer, Tracked, Numbered, InHand
<1>3. ~expecting'[d] => Nowhere(d)'
  BY DEF Fewer, Tracked, Nowhere, Queued
<1> QED BY <1>1, <1>2, <1>3 DEF Tracked

\* A step that leaves the client d as it is.
Same(d) ==
    /\ cpc'[d] = cpc[d] /\ asked'[d] = asked[d] /\ expecting'[d] = expecting[d]
    /\ sent'[d] = sent[d] /\ replies'[d] = replies[d] /\ got'[d] = got[d]

\* So it keeps track of d.
LEMMA SameTracked ==
  ASSUME NEW d \in Client, Tracked(d), Same(d), Fewer(d)
  PROVE  Tracked(d)'
<1>1. cpc'[d] = "idle" /\ got'[d] # none => got'[d][1].id = asked'[d]
  BY DEF Tracked, Numbered, Same
<1>2. ~expecting'[d] => ~expecting[d]
  BY DEF Same
<1> QED BY <1>1, <1>2, FewerTracked

\* A command is sent only when nothing of the client is anywhere; it takes the next number.
LEMMA SendCommandTracked ==
  ASSUME Inv, NEW c \in Client, NEW cmd \in Commands, SendCommand(c, cmd), NEW d \in Client
  PROVE  Tracked(d)'
<1>1. /\ TypeOK /\ Tracked(d) /\ UNCHANGED <<queue, cur, outgoing, replies, got>>
      /\ ~expecting[c]
  BY DEF Inv, Base, SendCommand, repVars
<1>2. /\ cpc' = [cpc EXCEPT ![c] = "waiting"] /\ expecting' = [expecting EXCEPT ![c] = TRUE]
      /\ asked' = [asked EXCEPT ![c] = @ + 1]
      /\ sent' = [sent EXCEPT ![c] = <<[from |-> c, id |-> asked[c] + 1, cmd |-> cmd]>>]
  BY DEF SendCommand
<1>3. CASE d # c
  <2>1. Same(d) /\ Fewer(d)
    BY <1>1, <1>2, <1>3 DEF Same, Fewer, InHand, TypeOK
  <2> QED BY <1>1, <2>1, SameTracked
<1>4. CASE d = c
  <2>1. Nowhere(d)
    BY <1>1, <1>4 DEF Tracked
  <2>2. /\ cpc'[d] = "waiting" /\ expecting'[d] /\ asked'[d] = asked[d] + 1
        /\ sent'[d] = <<[from |-> d, id |-> asked[d] + 1, cmd |-> cmd]>>
    BY <1>1, <1>2, <1>4 DEF TypeOK
  <2>3. ~Queued(d)' /\ ~InHand(d)' /\ outgoing'[d] = none /\ replies'[d] = none
    BY <1>1, <2>1 DEF Nowhere, Queued, InHand
  <2>4. OnePlace(d)'
    BY <2>3 DEF OnePlace, Queued
  <2>5. Numbered(d)'
    BY <2>2, <2>3 DEF Numbered, Queued
  <2> QED BY <2>2, <2>4, <2>5 DEF Tracked
<1> QED BY <1>3, <1>4

\* A call that returns with a reply has taken it from the only place it was in.
LEMMA ReceiveReplyTracked ==
  ASSUME Inv, NEW c \in Client, ReceiveReply(c), NEW d \in Client
  PROVE  Tracked(d)'
<1> DEFINE reply == replies[c][1]
           response == [id |-> reply.id, text |-> reply.parts[1],
                        object |-> ObjectOf(PartsRead(reply.parts))]
<1>1. TypeOK /\ Tracked(d) /\ UNCHANGED <<queue, cur, outgoing, asked, sent>> /\ replies[c] # none
  BY DEF Inv, Base, ReceiveReply, repVars
<1>2. /\ cpc' = [cpc EXCEPT ![c] = "idle"] /\ replies' = [replies EXCEPT ![c] = none]
      /\ expecting' = [expecting EXCEPT ![c] = PartsRead(reply.parts) # reply.parts]
      /\ got' = [got EXCEPT ![c] = <<response>>]
  BY DEF ReceiveReply
<1>3. Fewer(d)
  BY <1>1, <1>2 DEF Fewer, InHand, TypeOK
<1>4. CASE d # c
  <2>1. Same(d)
    BY <1>1, <1>2, <1>4 DEF Same, TypeOK
  <2> QED BY <1>1, <1>3, <2>1, SameTracked
<1>5. CASE d = c
  <2>1. <<response>>[1].id = reply.id
    OBVIOUS
  <2>2. got'[d] = <<response>>
    BY <1>1, <1>2, <1>5 DEF TypeOK
  <2>3. got'[d][1].id = reply.id
    BY <2>1, <2>2
  <2>4. got'[d][1].id = asked'[d]
    BY <1>1, <1>5, <2>3 DEF Tracked, Numbered
  <2>5. replies'[d] = none
    BY <1>1, <1>2, <1>5 DEF TypeOK
  <2>6. Nowhere(d)'
    BY <1>1, <1>5, <2>5 DEF Tracked, OnePlace, Nowhere, Queued, InHand
  <2> QED BY <1>1, <1>3, <2>4, <2>6, FewerTracked
<1> QED BY <1>4, <1>5

\* A call that times out leaves its request where it is, and the socket expecting.
LEMMA ReceiveTimeoutTracked ==
  ASSUME Inv, NEW c \in Client, ReceiveTimeout(c), NEW d \in Client
  PROVE  Tracked(d)'
<1>1. TypeOK /\ Tracked(d) /\ UNCHANGED <<queue, cur, outgoing, asked, sent, replies, expecting>>
  BY DEF Inv, Base, ReceiveTimeout, repVars
<1>2. cpc' = [cpc EXCEPT ![c] = "idle"] /\ got' = [got EXCEPT ![c] = none]
  BY DEF ReceiveTimeout
<1>3. Fewer(d)
  BY <1>1 DEF Fewer, InHand
<1>4. CASE d # c
  <2>1. Same(d)
    BY <1>1, <1>2, <1>4 DEF Same, TypeOK
  <2> QED BY <1>1, <1>3, <2>1, SameTracked
<1>5. CASE d = c
  <2>1. got'[d] = none
    BY <1>1, <1>2, <1>5 DEF TypeOK
  <2> QED BY <1>1, <1>3, <2>1, FewerTracked
<1> QED BY <1>4, <1>5

\* With its socket, all of a client's messages go, and the server no longer knows it.
LEMMA RestartClientTracked ==
  ASSUME Inv, NEW c \in Client, RestartClient(c), NEW d \in Client
  PROVE  Tracked(d)'
<1>1. TypeOK /\ Tracked(d) /\ asked' = asked /\ d # NoClient
  BY ClientAssumption DEF Inv, Base, RestartClient
<1>2. /\ cpc' = [cpc EXCEPT ![c] = "idle"] /\ expecting' = [expecting EXCEPT ![c] = FALSE]
      /\ sent' = [sent EXCEPT ![c] = none] /\ replies' = [replies EXCEPT ![c] = none]
      /\ got' = [got EXCEPT ![c] = none] /\ outgoing' = [outgoing EXCEPT ![c] = none]
  BY DEF RestartClient
<1>3. queue \in Seq(Requests) /\ cur \in Seq(Requests)
  BY <1>1 DEF TypeOK, Optional
<1>4. /\ Len(queue') = Len(queue)
      /\ \A i \in 1..Len(queue) :
            /\ queue'[i].from # c /\ queue'[i].from \in {queue[i].from, NoClient}
            /\ queue'[i].id = queue[i].id
  <2>1. queue' = [i \in DOMAIN queue |-> Forget(c, queue[i])]
    BY DEF RestartClient
  <2> QED BY <1>3, <2>1, Forgotten
<1>5. /\ Len(cur') = Len(cur) /\ cur' \in Seq(Requests)
      /\ \A i \in 1..Len(cur) :
            /\ cur'[i].from # c /\ cur'[i].from \in {cur[i].from, NoClient}
            /\ cur'[i].id = cur[i].id
  <2>1. cur' = [i \in DOMAIN cur |-> Forget(c, cur[i])]
    BY DEF RestartClient
  <2> QED BY <1>3, <2>1, Forgotten
<1>6. cur' # none => /\ cur # none /\ cur'[1].from # c
                     /\ cur'[1].from \in {cur[1].from, NoClient} /\ cur'[1].id = cur[1].id
  BY <1>3, <1>5 DEF none
<1>7. Fewer(d)
  <2>1. sent'[d] \in {none, sent[d]} /\ outgoing'[d] \in {none, outgoing[d]}
        /\ replies'[d] \in {none, replies[d]}
    BY <1>1, <1>2 DEF TypeOK
  <2> QED BY <1>1, <1>4, <1>6, <2>1 DEF Fewer, InHand
<1>8. CASE d # c
  <2>1. Same(d)
    BY <1>1, <1>2, <1>8 DEF Same, TypeOK
  <2> QED BY <1>1, <1>7, <2>1, SameTracked
<1>9. CASE d = c
  <2>1. got'[d] = none /\ sent'[d] = none /\ replies'[d] = none /\ outgoing'[d] = none
    BY <1>1, <1>2, <1>9 DEF TypeOK
  <2>2. ~Queued(d)' /\ ~InHand(d)'
    BY <1>4, <1>6, <1>9 DEF Queued, InHand
  <2>3. Nowhere(d)'
    BY <2>1, <2>2 DEF Nowhere
  <2> QED BY <1>1, <1>7, <2>1, <2>3, FewerTracked
<1> QED BY <1>8, <1>9

\* A request moves from the client's pipe to the end of the queue.
LEMMA CarryRequestTracked ==
  ASSUME Inv, NEW c \in Client, CarryRequest(c), NEW d \in Client
  PROVE  Tracked(d)'
<1> DEFINE r == sent[c][1]
<1>1. /\ TypeOK /\ Tracked(d) /\ Tracked(c) /\ sent[c] # none
      /\ UNCHANGED <<cpc, asked, expecting, replies, got, cur, outgoing>>
  BY DEF Inv, Base, CarryRequest
<1>2. queue' = queue \o sent[c] /\ sent' = [sent EXCEPT ![c] = none]
  BY DEF CarryRequest
<1>3. queue \in Seq(Requests) /\ sent[c] \in Seq(Requests) /\ Len(sent[c]) = 1 /\ r.from = c
  <2>1. queue \in Seq(Requests) /\ sent[c] \in Optional(Requests)
    BY <1>1 DEF TypeOK
  <2>2. sent[c] \in Seq(Requests) /\ Len(sent[c]) = 1
    BY <1>1, <2>1, OptionalOne
  <2>3. r.from = c
    BY <1>1 DEF Tracked, Numbered
  <2> QED BY <2>1, <2>2, <2>3
<1>4. /\ Len(queue) \in Nat /\ Len(queue') = Len(queue) + 1 /\ queue'[Len(queue) + 1] = r
      /\ \A i \in 1..Len(queue) : queue'[i] = queue[i]
  BY <1>2, <1>3, QueueOne
<1>5. CASE d # c
  <2>1. sent'[d] = sent[d]
    BY <1>1, <1>2, <1>5 DEF TypeOK
  <2>2. \A i \in 1..Len(queue') : queue'[i].from = d => i \in 1..Len(queue) /\ queue'[i] = queue[i]
    BY <1>3, <1>4, <1>5
  <2>3. (Queued(d)' => Queued(d)) /\ (InHand(d)' => InHand(d))
    BY <1>1, <2>2 DEF Queued, InHand
  <2>4. OnePlace(d)'
    BY <1>1, <2>1, <2>2, <2>3 DEF Tracked, OnePlace
  <2>5. Numbered(d)'
    BY <1>1, <2>1, <2>2, <2>3 DEF Tracked, Numbered
  <2>6. ~expecting'[d] => Nowhere(d)'
    BY <1>1, <2>1, <2>3 DEF Tracked, Nowhere
  <2> QED BY <2>4, <2>5, <2>6 DEF Tracked
<1>6. CASE d = c
  <2>1. sent'[d] = none /\ r.id = asked[d]
    BY <1>1, <1>2, <1>6 DEF TypeOK, Tracked, Numbered
  <2>2. ~Queued(d) /\ ~InHand(d) /\ outgoing[d] = none /\ replies[d] = none
    BY <1>1, <1>6 DEF Tracked, OnePlace
  <2>3. \A i \in 1..Len(queue') : queue'[i].from = d => i = Len(queue) + 1
    BY <1>4, <2>2 DEF Queued
  <2>4. ~InHand(d)'
    BY <1>1, <2>2 DEF InHand
  <2>5. OnePlace(d)'
    BY <1>1, <2>1, <2>2, <2>3, <2>4 DEF OnePlace
  <2>6. Numbered(d)'
    BY <1>1, <1>4, <2>1, <2>2, <2>3, <2>4 DEF Tracked, Numbered
  <2>7. expecting'[d]
    BY <1>1, <1>6 DEF Tracked, Nowhere
  <2> QED BY <2>5, <2>6, <2>7 DEF Tracked
<1> QED BY <1>5, <1>6

\* A reply moves from the server's pipe to the client's socket.
LEMMA CarryReplyTracked ==
  ASSUME Inv, NEW c \in Client, CarryReply(c), NEW d \in Client
  PROVE  Tracked(d)'
<1>1. /\ TypeOK /\ Tracked(d) /\ outgoing[c] # none
      /\ UNCHANGED <<cpc, asked, expecting, sent, got, queue, cur>>
  BY DEF Inv, Base, CarryReply
<1>2. replies' = [replies EXCEPT ![c] = outgoing[c]] /\ outgoing' = [outgoing EXCEPT ![c] = none]
  BY DEF CarryReply
<1>3. CASE d # c
  <2>1. Same(d) /\ Fewer(d)
    BY <1>1, <1>2, <1>3 DEF TypeOK, Same, Fewer, InHand
  <2> QED BY <1>1, <2>1, SameTracked
<1>4. CASE d = c
  <2>1. replies'[d] = outgoing[d] /\ outgoing'[d] = none /\ outgoing[d] # none
    BY <1>1, <1>2, <1>4 DEF TypeOK
  <2>2. ~Queued(d)' /\ ~InHand(d)' /\ sent'[d] = none
    BY <1>1, <2>1 DEF Tracked, OnePlace, Queued, InHand
  <2>3. OnePlace(d)'
    BY <2>1, <2>2 DEF OnePlace, Queued
  <2>4. Numbered(d)'
    BY <1>1, <2>1, <2>2 DEF Tracked, Numbered, Queued
  <2>5. expecting'[d]
    BY <1>1, <2>1 DEF Tracked, Nowhere
  <2> QED BY <2>3, <2>4, <2>5 DEF Tracked
<1> QED BY <1>3, <1>4

\* The server leaves its clients as they are.
LEMMA ServerSame == ASSUME NEW d \in Client, UNCHANGED clientVars PROVE Same(d)
  BY DEF clientVars, Same

\* Nothing moves.
LEMMA StillTracked ==
  ASSUME Inv, NEW d \in Client, UNCHANGED <<clientVars, queue, cur, outgoing>>
  PROVE  Tracked(d)'
<1>1. Fewer(d)
  BY DEF Fewer, InHand, clientVars
<1> QED BY <1>1, ServerSame, SameTracked DEF Inv

\* What the server holds goes with its socket; the clients keep expecting.
LEMMA DropTracked ==
  ASSUME Inv, NEW d \in Client, UNCHANGED clientVars, DropMessages
  PROVE  Tracked(d)'
<1>1. Fewer(d)
  BY DEF Fewer, InHand, clientVars, DropMessages, none
<1> QED BY <1>1, ServerSame, SameTracked DEF Inv

\* The request at the head of the queue is the one being served.
LEMMA TakeTracked ==
  ASSUME Inv, NEW d \in Client, UNCHANGED <<clientVars, outgoing>>,
         cur = none, queue # <<>>, cur' = <<Head(queue)>>, queue' = Tail(queue)
  PROVE  Tracked(d)'
<1>1. Tracked(d) /\ queue \in Seq(Requests)
  BY DEF Inv, Base, TypeOK
<1>2. UNCHANGED <<cpc, asked, expecting, sent, replies, got, outgoing>>
  BY DEF clientVars
<1>3. /\ Len(queue) \in Nat /\ Len(queue') = Len(queue) - 1
      /\ \A i \in 1..Len(queue') : i + 1 \in 1..Len(queue) /\ queue'[i] = queue[i + 1]
      /\ 1 \in 1..Len(queue) /\ cur' # none /\ cur'[1] = queue[1]
  BY <1>1, HeadTailProperties DEF none
<1>4. (Queued(d)' => Queued(d)) /\ (InHand(d)' => Queued(d)) /\ ~InHand(d)
  BY <1>3 DEF Queued, InHand
<1>5. InHand(d)' => ~Queued(d)'
  BY <1>1, <1>3 DEF Tracked, OnePlace, Queued, InHand
<1>6. OnePlace(d)'
  <2>1. ASSUME NEW i \in 1..Len(queue'), NEW j \in 1..Len(queue'),
               queue'[i].from = d, queue'[j].from = d
        PROVE  i = j
    <3>1. i + 1 = j + 1
      BY <1>1, <1>3, <2>1 DEF Tracked, OnePlace
    <3> QED BY <1>3, <3>1
  <2> QED BY <1>1, <1>2, <1>4, <1>5, <2>1 DEF Tracked, OnePlace
<1>7. Numbered(d)'
  BY <1>1, <1>2, <1>3, <1>4 DEF Tracked, Numbered, InHand
<1>8. ~expecting'[d] => Nowhere(d)'
  BY <1>1, <1>2, <1>4 DEF Tracked, Nowhere
<1> QED BY <1>6, <1>7, <1>8 DEF Tracked

\* The reply goes to the client that asked, in place of its request, and to nobody else.
LEMMA ReplyTracked ==
  ASSUME Inv, NEW d \in Client, UNCHANGED <<clientVars, queue>>,
         cur # none, NEW parts, Reply(parts)
  PROVE  Tracked(d)'
<1> DEFINE r == cur[1]
           reply == <<[id |-> r.id, parts |-> staged \o parts]>>
<1>1. Tracked(d) /\ TypeOK /\ d # NoClient
  BY ClientAssumption DEF Inv, Base
<1>2. UNCHANGED <<cpc, asked, expecting, sent, replies, got, queue>>
  BY DEF clientVars
<1>3. r \in Requests
  BY <1>1 DEF TypeOK, Optional, none
<1>4. cur' = none /\ outgoing' = IF r.from = NoClient THEN outgoing
                                 ELSE [outgoing EXCEPT ![r.from] = reply]
  BY DEF Reply
<1>5. reply[1].id = r.id /\ reply # none
  BY DEF none
<1> HIDE DEF reply
<1>6. CASE r.from # d
  <2>1. outgoing'[d] = outgoing[d]
    BY <1>1, <1>3, <1>4, <1>6 DEF TypeOK, Requests
  <2>2. Fewer(d)
    BY <1>2, <1>4, <2>1 DEF Fewer, InHand
  <2> QED BY <1>1, <2>2, ServerSame, SameTracked
<1>7. CASE r.from = d
  <2>1. outgoing'[d] = reply
    BY <1>1, <1>4, <1>7 DEF TypeOK
  <2>2. InHand(d) /\ ~Queued(d) /\ sent[d] = none /\ replies[d] = none /\ r.id = asked[d]
    BY <1>1, <1>7 DEF InHand, Tracked, OnePlace, Numbered
  <2>3. ~InHand(d)' /\ ~Queued(d)'
    BY <1>2, <1>4, <2>2 DEF InHand, Queued
  <2>4. OnePlace(d)'
    BY <1>2, <2>1, <2>2, <2>3 DEF OnePlace, Queued
  <2>5. Numbered(d)'
    BY <1>1, <1>2, <1>5, <2>1, <2>2, <2>3 DEF Tracked, Numbered, Queued
  <2>6. expecting'[d]
    BY <1>1, <1>2, <2>2 DEF Tracked, Nowhere
  <2> QED BY <2>4, <2>5, <2>6 DEF Tracked
<1> QED BY <1>6, <1>7

\* Every request is tracked through every step.
LEMMA NextInv == Inv /\ [Next]_vars => Inv'
<1> SUFFICES ASSUME Inv, [Next]_vars PROVE Inv'
  OBVIOUS
<1>1. Base /\ Base' /\ TypeOK
  BY NextBase DEF Inv, Base
<1> SUFFICES ASSUME NEW d \in Client PROVE Tracked(d)'
  BY <1>1 DEF Inv
<1>2. ASSUME NEW c \in Client,
             \/ ReceiveReply(c) \/ ReceiveTimeout(c) \/ RestartClient(c)
             \/ \E cmd \in Commands : SendCommand(c, cmd)
      PROVE  Tracked(d)'
  BY <1>2, SendCommandTracked, ReceiveReplyTracked, ReceiveTimeoutTracked, RestartClientTracked
<1>3. CASE Carry
  BY <1>3, CarryRequestTracked, CarryReplyTracked DEF Carry
<1>4. LoopTypes /\ script \in Seq(Moves)
  BY <1>1, TypesSplit DEF RepTypes
<1>5. CASE LoopStep
  BY <1>4, <1>5, LoopStepKeeps, StillTracked
<1>6. CASE Stop \/ KillServer \/ \E bindOk \in BOOLEAN : Start(bindOk)
  BY <1>1, <1>6, OwnerBase, DropTracked
<1>7. CASE Receive
  <2>1. CASE UNCHANGED <<queue, cur>>
    BY <1>7, <2>1, StillTracked DEF Receive
  <2>2. CASE cur = none /\ queue # <<>> /\ cur' = <<Head(queue)>> /\ queue' = Tail(queue)
    BY <1>7, <2>2, TakeTracked DEF Receive
  <2> QED BY <1>7, <2>1, <2>2 DEF Receive
<1>8. CASE Move
  <2>1. UNCHANGED clientVars
    BY <1>4, <1>8, MoveCases
  <2>2. CASE UNCHANGED <<queue, cur, outgoing>>
    BY <2>1, <2>2, StillTracked
  <2>3. CASE cur # none /\ UNCHANGED queue /\ \E parts \in WholeParts : Reply(parts)
    BY <2>1, <2>3, ReplyTracked
  <2>4. CASE DropMessages
    BY <2>1, <2>4, DropTracked
  <2> QED BY <1>4, <1>8, <2>2, <2>3, <2>4, MoveCases
<1>9. CASE Catch
  <2>1. CASE CanSend
    BY <1>9, <2>1, ReplyTracked DEF Catch, CanSend
  <2>2. CASE ~CanSend
    BY <1>9, <2>2, StillTracked DEF Catch
  <2> QED BY <2>1, <2>2
<1>10. CASE UNCHANGED vars
  BY <1>10, StillTracked DEF vars, repVars
<1> QED BY <1>2, <1>3, <1>5, <1>6, <1>7, <1>8, <1>9, <1>10
        DEF Next, ServiceNext, OwnerNext, ClientCalls, Loop, LoopStep

\* A request that is tracked is in at most one place.
LEMMA OnePlaceOnce ==
  ASSUME TypeOK, NEW c \in Client, OnePlace(c)
  PROVE  Cardinality(Whereabouts(c)) <= 1
<1> DEFINE inQueue == {j \in 1..Len(queue) : queue[j].from = c}
           inCur == {j \in 1..Len(cur) : cur[j].from = c}
<1>1. /\ sent[c] # none => Len(sent[c]) = 1
      /\ outgoing[c] # none => Len(outgoing[c]) = 1
      /\ replies[c] # none => Len(replies[c]) = 1
      /\ cur # none => Len(cur) = 1
  BY OptionalOne DEF TypeOK
<1>2. Len(none) = 0
  BY DEF none
<1>3. ~InHand(c) => inCur = {}
  BY <1>1, <1>2 DEF InHand
<1>4. ~Queued(c) => inQueue = {}
  BY DEF Queued
<1>5. ASSUME NEW v \in Whereabouts(c), NEW w \in Whereabouts(c) PROVE v = w
  <2>1. CASE Queued(c)
    <3>1. sent[c] = none /\ outgoing[c] = none /\ replies[c] = none /\ inCur = {}
      BY <1>3, <2>1 DEF OnePlace
    <3>2. PICK i \in inQueue : v = <<"queue", i>>
      BY <1>2, <1>5, <3>1 DEF Whereabouts
    <3>3. PICK j \in inQueue : w = <<"queue", j>>
      BY <1>2, <1>5, <3>1 DEF Whereabouts
    <3> QED BY <3>2, <3>3 DEF OnePlace
  <2>2. CASE InHand(c)
    <3>1. sent[c] = none /\ outgoing[c] = none /\ replies[c] = none /\ inQueue = {} /\ Len(cur) = 1
      BY <1>1, <1>4, <2>2 DEF OnePlace, InHand
    <3> QED BY <1>2, <1>5, <3>1 DEF Whereabouts
  <2>3. CASE ~Queued(c) /\ ~InHand(c)
    <3>1. inQueue = {} /\ inCur = {}
      BY <1>3, <1>4, <2>3
    <3>2. CASE sent[c] # none
      <4>1. outgoing[c] = none /\ replies[c] = none /\ Len(sent[c]) = 1
        BY <1>1, <3>2 DEF OnePlace
      <4> QED BY <1>2, <1>5, <3>1, <4>1 DEF Whereabouts
    <3>3. CASE outgoing[c] # none
      <4>1. sent[c] = none /\ replies[c] = none /\ Len(outgoing[c]) = 1
        BY <1>1, <3>3 DEF OnePlace
      <4> QED BY <1>2, <1>5, <3>1, <4>1 DEF Whereabouts
    <3>4. CASE replies[c] # none
      <4>1. sent[c] = none /\ outgoing[c] = none /\ Len(replies[c]) = 1
        BY <1>1, <3>4 DEF OnePlace
      <4> QED BY <1>2, <1>5, <3>1, <4>1 DEF Whereabouts
    <3>5. CASE sent[c] = none /\ outgoing[c] = none /\ replies[c] = none
      BY <1>2, <1>5, <3>1, <3>5 DEF Whereabouts
    <3> QED BY <3>2, <3>3, <3>4, <3>5
  <2> QED BY <2>1, <2>2, <2>3
<1>6. CASE Whereabouts(c) = {}
  BY <1>6, FS_EmptySet
<1>7. CASE Whereabouts(c) # {}
  <2>1. PICK w : w \in Whereabouts(c)
    BY <1>7
  <2>2. Whereabouts(c) = {w}
    BY <1>5, <2>1
  <2> QED BY <2>2, FS_Singleton
<1> QED BY <1>6, <1>7

\* A request is in one place at most, and only while its client expects the reply: it is
\* served once, answered once, and not answered for a socket that is gone.
THEOREM ServedOnce == Spec => []OneWhereabouts
<1>1. Inv => OneWhereabouts
  <2> SUFFICES ASSUME Inv, NEW c \in Client
               PROVE  Cardinality(Whereabouts(c)) <= 1 /\ (~expecting[c] => Whereabouts(c) = {})
    BY DEF OneWhereabouts
  <2>1. TypeOK /\ Tracked(c)
    BY DEF Inv, Base
  <2>2. Len(none) = 0
    BY DEF none
  <2>3. Nowhere(c) => Whereabouts(c) = {}
    <3> SUFFICES ASSUME Nowhere(c) PROVE Whereabouts(c) = {}
      OBVIOUS
    <3>1. {j \in 1..Len(queue) : queue[j].from = c} = {}
      BY DEF Nowhere, Queued
    <3>2. {j \in 1..Len(cur) : cur[j].from = c} = {}
      <4>1. cur # none => Len(cur) = 1
        BY <2>1, OptionalOne DEF TypeOK
      <4> QED BY <2>2, <4>1 DEF Nowhere, InHand
    <3> QED BY <2>2, <3>1, <3>2 DEF Nowhere, Whereabouts
  <2> QED BY <2>1, <2>3, OnePlaceOnce DEF Tracked
<1> QED BY <1>1, InitInv, NextInv, PTL DEF Spec

\* sendCommand returns the answer to the command it sent, whatever timed out before.
THEOREM AnswersTheCommand == Spec => []ReplyMatches
<1>1. Inv => ReplyMatches
  BY DEF Inv, Tracked, Numbered, ReplyMatches
<1> QED BY <1>1, InitInv, NextInv, PTL DEF Spec

-----------------------------------------------------------------------------
(* The service: the server runs for good, the clients wait for their answers *)

\* Callbacks and handlers that answer with whole replies and do not stop their server.
WholeMoves == {"reply", "refuse", "throw", "quit"}
HandlersAreWhole == Scripts \cup CallbackScripts \cup ErrorScripts \subseteq Seq(WholeMoves)

Whole(m) == m # none => m[1].parts \in WholeParts
WholeResponse(m) == m # none => <<m[1].text, m[1].object>> \in WholeParts

\* A client that waits has its request, or the reply, on the way; one that does not has
\* received the whole reply.
Cared(c) ==
    /\ cpc[c] = "waiting" => ~Nowhere(c)
    /\ cpc[c] = "idle" => ~expecting[c]
    /\ Whole(outgoing[c]) /\ Whole(replies[c]) /\ WholeResponse(got[c])

\* Before start there is nothing that start could drop.
NothingToDrop == ~listening /\ queue = <<>> /\ cur = none /\ outgoing = [c \in Client |-> none]

ServiceInv ==
    /\ Inv
    /\ sock \/ NothingToDrop
    /\ staged = <<>> /\ script \in Seq(WholeMoves)
    /\ \A c \in Client : Cared(c)

\* Nobody waits at first.
LEMMA InitService == Init => ServiceInv
<1> SUFFICES ASSUME Init PROVE ServiceInv
  OBVIOUS
<1>1. Inv
  BY InitInv
<1>2. ASSUME NEW c \in Client PROVE Cared(c)
  BY DEF Init, Cared, Whole, WholeResponse
<1> QED BY <1>1, <1>2 DEF Init, ServiceInv, NothingToDrop

\* The service is part of what the owners may do.
LEMMA ServiceIsNext == [ServiceNext]_vars => [Next]_vars
  BY DEF Next

\* Nothing of client d changes place, or only from one place to another.
LEMMA StillCared ==
  ASSUME NEW d \in Client, Cared(d), Same(d), Whole(outgoing'[d]), Nowhere(d)' => Nowhere(d)
  PROVE  Cared(d)'
  BY DEF Cared, Same, Whole, WholeResponse

\* The client that reads a whole reply can send again.
LEMMA ReceiveReplyCared ==
  ASSUME ServiceInv, NEW c \in Client, ReceiveReply(c), NEW d \in Client
  PROVE  Cared(d)'
<1> DEFINE parts == replies[c][1].parts
           response == [id |-> replies[c][1].id, text |-> parts[1],
                        object |-> ObjectOf(PartsRead(parts))]
<1>1. TypeOK /\ Cared(d) /\ Cared(c) /\ UNCHANGED <<queue, cur, outgoing, sent, asked>> /\ replies[c] # none
  BY DEF ServiceInv, Inv, Base, ReceiveReply, repVars
<1>2. /\ cpc' = [cpc EXCEPT ![c] = "idle"] /\ replies' = [replies EXCEPT ![c] = none]
      /\ expecting' = [expecting EXCEPT ![c] = PartsRead(parts) # parts]
      /\ got' = [got EXCEPT ![c] = <<response>>]
  BY DEF ReceiveReply
<1>3. CASE d # c
  <2>1. Same(d) /\ outgoing'[d] = outgoing[d]
    BY <1>1, <1>2, <1>3 DEF Same, TypeOK
  <2>2. Nowhere(d)' => Nowhere(d)
    BY <1>1, <2>1 DEF Nowhere, Queued, InHand, Same
  <2> QED BY <1>1, <2>1, <2>2, StillCared DEF Cared
<1>4. CASE d = c
  <2>1. parts \in WholeParts
    BY <1>1 DEF Cared, Whole
  <2>2. parts \in Seq(Parts) /\ Len(parts) = 2 /\ parts[2] \in {"object", "error"}
    BY <2>1, WholeIsTwo
  <2>3. PartsRead(parts) = parts
    BY <2>2, SubSeqFull DEF PartsRead
  <2>4. response.text = parts[1] /\ response.object = parts[2]
    BY <2>2, <2>3 DEF ObjectOf
  <2>5. parts = <<parts[1], parts[2]>>
    BY <2>1 DEF WholeParts
  <2>6. <<response.text, response.object>> \in WholeParts
    BY <2>1, <2>4, <2>5
  <2> HIDE DEF response
  <2>7. <<response>>[1] = response
    OBVIOUS
  <2>8. got'[d] = <<response>> /\ ~expecting'[d] /\ cpc'[d] = "idle" /\ replies'[d] = none
    BY <1>1, <1>2, <1>4, <2>3 DEF TypeOK
  <2> HIDE DEF parts
  <2> QED BY <1>1, <2>6, <2>7, <2>8 DEF Cared, Whole, WholeResponse
<1> QED BY <1>3, <1>4

\* Sending and carrying put the request, and the reply, where the next step looks for it.
LEMMA TransportCared ==
  ASSUME ServiceInv, NEW c \in Client, NEW d \in Client,
         \/ \E cmd \in Commands : SendCommand(c, cmd)
         \/ CarryRequest(c) \/ CarryReply(c)
  PROVE  Cared(d)'
<1>1. TypeOK /\ Cared(d) /\ Tracked(c)
  BY DEF ServiceInv, Inv, Base
<1>2. ASSUME NEW cmd \in Commands, SendCommand(c, cmd) PROVE Cared(d)'
  <2>1. UNCHANGED <<queue, cur, outgoing, replies, got>>
    BY <1>2 DEF SendCommand, repVars
  <2>2. CASE d # c
    <3>1. Same(d) /\ outgoing'[d] = outgoing[d]
      BY <1>1, <1>2, <2>1, <2>2 DEF Same, TypeOK, SendCommand
    <3>2. Nowhere(d)' => Nowhere(d)
      BY <2>1, <3>1 DEF Nowhere, Queued, InHand, Same
    <3> QED BY <1>1, <3>1, <3>2, StillCared DEF Cared
  <2>3. CASE d = c
    <3>1. cpc'[d] = "waiting" /\ sent'[d] # none
      BY <1>1, <1>2, <2>3 DEF TypeOK, SendCommand, none
    <3> QED BY <1>1, <2>1, <3>1 DEF Cared, Nowhere
  <2> QED BY <2>2, <2>3
<1>3. CASE CarryRequest(c)
  <2>1. UNCHANGED <<cpc, expecting, replies, got, cur, outgoing>> /\ asked' = asked
    BY <1>3 DEF CarryRequest
  <2>2. /\ sent' = [sent EXCEPT ![c] = none] /\ queue' = queue \o sent[c]
        /\ queue \in Seq(Requests) /\ sent[c] \in Seq(Requests) /\ Len(sent[c]) = 1
        /\ sent[c][1].from = c
    BY <1>1, <1>3, OptionalOne DEF TypeOK, CarryRequest, Tracked, Numbered
  <2>3. /\ Len(queue) \in Nat /\ Len(queue') = Len(queue) + 1 /\ queue'[Len(queue) + 1].from = c
        /\ \A i \in 1..Len(queue) : queue'[i] = queue[i]
    BY <2>2, QueueOne
  <2>4. Queued(c)' /\ (Queued(d) => Queued(d)')
    BY <2>3 DEF Queued
  <2>5. Nowhere(d)' => Nowhere(d)
    <3>1. d # c => sent'[d] = sent[d]
      BY <1>1, <2>2 DEF TypeOK
    <3> QED BY <2>1, <2>4, <3>1 DEF Nowhere, InHand
  <2> QED BY <1>1, <2>1, <2>5 DEF Cared, Whole, WholeResponse
<1>4. CASE CarryReply(c)
  <2>1. UNCHANGED <<cpc, expecting, sent, got, queue, cur>> /\ asked' = asked
    BY <1>4 DEF CarryReply
  <2>2. CASE d # c
    <3>1. Same(d) /\ outgoing'[d] = outgoing[d]
      BY <1>1, <1>4, <2>1, <2>2 DEF Same, TypeOK, CarryReply
    <3>2. Nowhere(d)' => Nowhere(d)
      BY <2>1, <3>1 DEF Nowhere, Queued, InHand, Same
    <3> QED BY <1>1, <3>1, <3>2, StillCared DEF Cared
  <2>3. CASE d = c
    <3>1. replies'[d] = outgoing[d] /\ outgoing[d] # none /\ outgoing'[d] = none
      BY <1>1, <1>4, <2>3 DEF TypeOK, CarryReply
    <3> QED BY <1>1, <2>1, <3>1 DEF Cared, Whole, WholeResponse, Nowhere
  <2> QED BY <2>2, <2>3
<1> QED BY <1>2, <1>3, <1>4

\* A reply that is sent whole, with nothing staged before it, arrives whole.
LEMMA ReplyCared ==
  ASSUME ServiceInv, NEW d \in Client, UNCHANGED <<clientVars, queue>>,
         cur # none, NEW parts \in WholeParts, Reply(parts)
  PROVE  Cared(d)' /\ staged' = <<>>
<1> DEFINE r == cur[1]
<1>1. TypeOK /\ Cared(d) /\ staged = <<>> /\ d # NoClient
  BY ClientAssumption DEF ServiceInv, Inv, Base
<1>2. parts \in Seq(Parts)
  BY WholeIsTwo
<1>3. staged \o parts = parts
  BY <1>1, <1>2, ConcatEmptySeq
<1>4. r \in Requests
  BY <1>1, OptionalOne DEF TypeOK
<1>5. /\ cur' = none /\ staged' = <<>>
      /\ outgoing' = IF r.from = NoClient THEN outgoing
                     ELSE [outgoing EXCEPT ![r.from] = <<[id |-> r.id, parts |-> parts]>>]
  BY <1>3 DEF Reply
<1>6. Same(d) /\ UNCHANGED <<queue, sent, replies>>
  BY ServerSame DEF clientVars
<1>7. CASE r.from # d
  <2>1. outgoing'[d] = outgoing[d] /\ ~InHand(d)
    BY <1>1, <1>4, <1>5, <1>7 DEF TypeOK, Requests, InHand
  <2>2. Nowhere(d)' => Nowhere(d)
    BY <1>6, <2>1 DEF Nowhere, Queued
  <2> QED BY <1>1, <1>5, <1>6, <2>1, <2>2, StillCared DEF Cared
<1>8. CASE r.from = d
  <2>1. outgoing'[d] = <<[id |-> r.id, parts |-> parts]>>
    BY <1>1, <1>5, <1>8 DEF TypeOK
  <2>2. outgoing'[d] # none /\ outgoing'[d][1].parts \in WholeParts
    BY <2>1 DEF none
  <2> QED BY <1>1, <1>5, <1>6, <2>2, StillCared DEF Whole, Nowhere
<1> QED BY <1>7, <1>8

\* Taking a request, and every step of the loop that moves nothing, keeps what is on the way.
LEMMA TakeCared ==
  ASSUME ServiceInv, Receive, NEW d \in Client
  PROVE  Cared(d)'
<1>1. Cared(d) /\ queue \in Seq(Requests) /\ Same(d) /\ outgoing'[d] = outgoing[d]
  BY ServerSame DEF ServiceInv, Inv, Base, TypeOK, Receive
<1>2. CASE UNCHANGED <<queue, cur>>
  <2>1. Nowhere(d)' => Nowhere(d)
    BY <1>1, <1>2 DEF Nowhere, Queued, InHand, Same
  <2> QED BY <1>1, <2>1, StillCared DEF Cared
<1>3. CASE queue # <<>> /\ cur = none /\ cur' = <<Head(queue)>> /\ queue' = Tail(queue)
  <2>1. /\ Len(queue) \in Nat /\ Len(queue') = Len(queue) - 1
        /\ \A i \in 1..Len(queue') : queue'[i] = queue[i + 1]
        /\ cur' # none /\ cur'[1] = queue[1]
    BY <1>1, <1>3, HeadTailProperties DEF none
  <2>2. Queued(d) => Queued(d)' \/ InHand(d)'
    <3> SUFFICES ASSUME NEW i \in 1..Len(queue), queue[i].from = d
                 PROVE  Queued(d)' \/ InHand(d)'
      BY DEF Queued
    <3>1. CASE i = 1
      BY <2>1, <3>1 DEF InHand
    <3>2. CASE i # 1
      <4>1. i - 1 \in 1..Len(queue') /\ queue'[i - 1] = queue[i]
        BY <2>1, <3>2
      <4> QED BY <4>1 DEF Queued
    <3> QED BY <3>1, <3>2
  <2>3. Nowhere(d)' => Nowhere(d)
    BY <1>1, <1>3, <2>2 DEF Nowhere, InHand, Same
  <2> QED BY <1>1, <2>3, StillCared DEF Cared
<1> QED BY <1>2, <1>3 DEF Receive

\* Nothing moves.
LEMMA UnmovedCared ==
  ASSUME ServiceInv, NEW d \in Client, UNCHANGED <<clientVars, queue, cur, outgoing>>
  PROVE  Cared(d)'
<1>1. Cared(d) /\ Same(d) /\ outgoing'[d] = outgoing[d]
  BY ServerSame DEF ServiceInv
<1>2. Nowhere(d)' => Nowhere(d)
  BY <1>1 DEF Nowhere, Queued, InHand, Same
<1> QED BY <1>1, <1>2, StillCared DEF Cared

\* The handlers of a service are whole, and so are those that CommandSocket has itself.
LEMMA ScriptsWhole ==
  ASSUME HandlersAreWhole
  PROVE  /\ \A s \in ErrorScripts : s \in Seq(WholeMoves)
         /\ \A cmd : \A s \in ServeScripts(cmd) : s \in Seq(WholeMoves)
<1>1. /\ <<"reply", "quit">> \in Seq(WholeMoves) /\ <<"reply">> \in Seq(WholeMoves)
      /\ <<"refuse">> \in Seq(WholeMoves)
  BY DEF WholeMoves
<1>2. ASSUME NEW cmd, NEW s \in HandlerScripts(cmd) PROVE s \in Seq(WholeMoves)
  <2>1. CASE cmd = "custom"
    BY <1>2, <2>1 DEF HandlerScripts, HandlersAreWhole
  <2>2. CASE cmd = "quit"
    BY <1>1, <1>2, <2>2 DEF HandlerScripts
  <2>3. CASE cmd = "unknown"
    BY <1>1, <1>2, <2>3 DEF HandlerScripts
  <2>4. CASE cmd # "custom" /\ cmd # "quit" /\ cmd # "unknown"
    BY <1>1, <1>2, <2>4 DEF HandlerScripts
  <2> QED BY <2>1, <2>2, <2>3, <2>4
<1>3. ASSUME NEW cmd, NEW s \in ServeScripts(cmd) PROVE s \in Seq(WholeMoves)
  <2>1. PICK callbacks \in CallbackScripts, handler \in HandlerScripts(cmd) : s = callbacks \o handler
    BY <1>3 DEF ServeScripts
  <2>2. callbacks \in Seq(WholeMoves) /\ handler \in Seq(WholeMoves)
    BY <1>2 DEF HandlersAreWhole
  <2> QED BY <2>1, <2>2, ConcatProperties
<1> QED BY <1>3 DEF HandlersAreWhole

\* An exception changes nothing but the place and the script.
LEMMA ThrowService ==
  ASSUME HandlersAreWhole, Throw
  PROVE  script' \in Seq(WholeMoves) /\ UNCHANGED <<sock, listening>>
<1>1. CASE mode = "once" \/ spc = "catch"
  <2>1. script' = <<>> /\ UNCHANGED <<sock, listening>>
    BY <1>1 DEF Throw, Goto
  <2> QED BY <2>1
<1>2. CASE ~(mode = "once" \/ spc = "catch")
  <2>1. script' \in ErrorScripts /\ UNCHANGED <<sock, listening>>
    BY <1>2 DEF Throw, Goto
  <2> QED BY <2>1, ScriptsWhole
<1> QED BY <1>1, <1>2

\* A whole script stages nothing and keeps the socket.
LEMMA MoveService ==
  ASSUME HandlersAreWhole, ServiceInv, Move
  PROVE  /\ sock' \/ NothingToDrop'
         /\ staged' = <<>> /\ script' \in Seq(WholeMoves)
         /\ UNCHANGED <<clientVars, queue>> /\ \A d \in Client : Cared(d)'
<1>1. /\ staged = <<>> /\ script \in Seq(WholeMoves) /\ script # <<>> /\ (sock \/ NothingToDrop)
      /\ UNCHANGED clientVars
  BY DEF ServiceInv, Move
<1>2. Head(script) \in WholeMoves /\ Tail(script) \in Seq(WholeMoves)
  BY <1>1, HeadTailProperties
<1>3. Head(script) # "more" /\ Head(script) # "stop"
  BY <1>2 DEF WholeMoves
<1>4. CASE MoveThrows
  <2>1. Throw /\ UNCHANGED <<queue, cur, staged, outgoing>>
    BY <1>4 DEF Move
  <2>2. script' \in Seq(WholeMoves) /\ UNCHANGED <<sock, listening>>
    BY <2>1, ThrowService
  <2> QED BY <1>1, <2>1, <2>2, UnmovedCared DEF NothingToDrop
<1>5. CASE ~MoveThrows
  <2>1. script' = Tail(script)
    BY <1>5 DEF Move
  <2>2. CASE /\ Head(script) \in DOMAIN Answers /\ Reply(Answers[Head(script)])
             /\ UNCHANGED <<queue, loopVars>>
    <3>1. Head(script) \in {"reply", "refuse"}
      BY <2>2 DEF Answers
    <3>2. cur # none /\ sock
      BY <1>5, <3>1 DEF MoveThrows, CanSend
    <3>3. sock'
      BY <2>2, <3>2 DEF loopVars
    <3>4. UNCHANGED <<clientVars, queue>>
      BY <1>1, <2>2
    <3>5. PICK parts \in WholeParts : Reply(parts)
      BY <2>2, AnswersWhole
    <3>6. staged' = <<>>
      BY <3>5 DEF Reply
    <3>7. \A d \in Client : Cared(d)'
      BY <3>2, <3>4, <3>5, ReplyCared
    <3> QED BY <1>2, <2>1, <3>3, <3>4, <3>6, <3>7
  <2>3. CASE /\ running' = FALSE
             /\ UNCHANGED <<spc, sock, listening, mode, expired, queue, cur, staged, outgoing>>
    BY <1>1, <1>2, <2>1, <2>3, UnmovedCared DEF NothingToDrop
  <2> QED BY <1>3, <1>5, <2>2, <2>3 DEF Move
<1> QED BY <1>4, <1>5

\* In the service nothing is lost, and what arrives is whole.
LEMMA NextService == HandlersAreWhole => (ServiceInv /\ [ServiceNext]_vars => ServiceInv')
<1> SUFFICES ASSUME HandlersAreWhole, ServiceInv, [ServiceNext]_vars PROVE ServiceInv'
  OBVIOUS
<1>1. Inv' /\ Inv /\ Base /\ LoopTypes /\ script \in Seq(Moves)
  BY NextInv, ServiceIsNext, TypesSplit DEF ServiceInv, Inv, Base, RepTypes
<1>2. staged = <<>> /\ script \in Seq(WholeMoves) /\ (sock \/ NothingToDrop)
  BY DEF ServiceInv
<1> SUFFICES /\ sock' \/ NothingToDrop'
             /\ staged' = <<>> /\ script' \in Seq(WholeMoves)
             /\ \A d \in Client : Cared(d)'
  BY <1>1 DEF ServiceInv
<1>3. CASE ClientCalls
  <2>1. UNCHANGED <<loopVars, repVars>>
    BY <1>3 DEF ClientCalls, ReceiveReply, SendCommand
  <2> QED BY <1>2, <1>3, <2>1, ReceiveReplyCared, TransportCared
          DEF ClientCalls, NothingToDrop, loopVars, repVars
<1>4. CASE Carry
  <2>1. UNCHANGED <<loopVars, staged, script>>
    BY <1>4 DEF Carry, CarryRequest, CarryReply
  <2>2. sock
    BY <1>2, <1>4 DEF Carry, CarryRequest, CarryReply, NothingToDrop
  <2> QED BY <1>2, <1>4, <2>1, <2>2, TransportCared DEF Carry, loopVars
<1>5. CASE Test \/ Served \/ Pause \/ (sock /\ Process("forever"))
  <2>1. UNCHANGED <<clientVars, queue, cur, staged, script, outgoing, sock, listening>>
    BY <1>5 DEF Test, Served, Pause, Process, Goto, repVars
  <2> QED BY <1>2, <2>1, UnmovedCared DEF NothingToDrop
<1>6. CASE Receive
  <2>1. CASE Throw /\ UNCHANGED <<queue, cur>>
    <3>1. UNCHANGED <<staged, outgoing>>
      BY <1>6 DEF Receive
    <3> QED BY <1>2, <1>6, <2>1, <3>1, ThrowService, TakeCared DEF NothingToDrop
  <2>2. CASE sock /\ script' \in ServeScripts(Head(queue).cmd) /\ Goto("serve")
    BY <1>2, <1>6, <2>2, ScriptsWhole, TakeCared DEF Receive, Goto
  <2> QED BY <1>6, <2>1, <2>2 DEF Receive
<1>7. CASE Move
  BY <1>7, MoveService
<1>8. CASE Catch
  <2>1. UNCHANGED <<sock, listening, script>>
    BY <1>8 DEF Catch, Goto
  <2>2. CASE CanSend
    <3>1. cur # none /\ sock /\ <<"errorresponse", "error">> \in WholeParts
      BY <2>2 DEF CanSend, WholeParts
    <3>2. UNCHANGED <<clientVars, queue>> /\ Reply(<<"errorresponse", "error">>)
      BY <1>8, <2>2 DEF Catch
    <3>3. staged' = <<>>
      BY <3>2 DEF Reply
    <3>4. \A d \in Client : Cared(d)'
      BY <3>1, <3>2, ReplyCared
    <3> QED BY <1>2, <2>1, <3>1, <3>3, <3>4
  <2>3. CASE ~CanSend
    BY <1>2, <1>8, <2>1, <2>3, UnmovedCared DEF Catch, NothingToDrop
  <2> QED BY <2>2, <2>3
<1>9. CASE ~sock /\ Start(TRUE)
  <2>1. UNCHANGED <<clientVars, script, queue, cur, outgoing>> /\ staged' = <<>> /\ sock'
    BY <1>2, <1>9 DEF Start, DropMessages, NothingToDrop
  <2> QED BY <1>2, <2>1, UnmovedCared
<1>10. CASE UNCHANGED vars
  BY <1>2, <1>10, UnmovedCared DEF vars, loopVars, repVars, NothingToDrop
<1> QED BY <1>3, <1>4, <1>5, <1>6, <1>7, <1>8, <1>9, <1>10 DEF ServiceNext, Loop

\* Between two commands the client's socket may send: no handler makes it throw EFSM.
THEOREM ServiceLeavesReady ==
  ASSUME HandlersAreWhole
  PROVE  ServiceSpec => []ReadyBetweenCalls
<1>1. ServiceInv => ReadyBetweenCalls
  BY DEF ServiceInv, Cared, ReadyBetweenCalls
<1>2. ServiceInv /\ [ServiceNext]_vars => ServiceInv'
  BY NextService
<1> QED BY <1>1, <1>2, InitService, PTL DEF ServiceSpec

\* sendCommand returns a whole response or a whole error response.
THEOREM ServiceAnswersWhole ==
  ASSUME HandlersAreWhole
  PROVE  ServiceSpec => []WholeReply
<1>1. ServiceInv => WholeReply
  BY DEF ServiceInv, Cared, WholeResponse, WholeParts, WholeReply
<1>2. ServiceInv /\ [ServiceNext]_vars => ServiceInv'
  BY NextService
<1> QED BY <1>1, <1>2, InitService, PTL DEF ServiceSpec

-----------------------------------------------------------------------------
(* The service implements Rpc *)

\* How far the command of c has come.
Phase(c) ==
    IF cpc[c] = "idle" THEN "idle"
    ELSE IF sent[c] # none \/ Queued(c) THEN "asked" ELSE "served"

\* That is what the refinement maps call to.
LEMMA CallIsPhase == call = [c \in Client |-> Phase(c)] /\ call' = [c \in Client |-> Phase(c)']
  BY DEF call, Phase, Queued

\* A step that moves the command of one client, or of none.
\* Phase moves of one client, or of none, are moves of Rpc, or stutters.
LEMMA OneMoves ==
  ASSUME NEW c \in Client, NEW from, NEW to, Phase(c) = from, Phase(c)' = to,
         \A d \in Client \ {c} : Phase(d)' = Phase(d)
  PROVE  R!Move(c, from, to)
  BY CallIsPhase DEF R!Move

\* If no Phase changes, the mapped variable does not.
LEMMA NoneMoves == ASSUME \A d \in Client : Phase(d)' = Phase(d) PROVE call' = call
  BY CallIsPhase

\* Nothing that matters to Phase changes for d.
LEMMA PhaseStays ==
  ASSUME NEW d, cpc'[d] = cpc[d], sent'[d] = sent[d], Queued(d)' <=> Queued(d)
  PROVE  Phase(d)' = Phase(d)
  BY DEF Phase

\* The client's calls are Ask and Return.
LEMMA ClientRpc == ASSUME ServiceInv, ClientCalls PROVE R!Next
<1>1. TypeOK
  BY DEF ServiceInv, Inv, Base
<1>2. ASSUME NEW c \in Client, NEW cmd \in Commands, SendCommand(c, cmd) PROVE R!Ask(c)
  <2>1. /\ cpc[c] = "idle" /\ queue' = queue /\ cpc' = [cpc EXCEPT ![c] = "waiting"]
        /\ sent' = [sent EXCEPT ![c] = <<[from |-> c, id |-> asked[c] + 1, cmd |-> cmd]>>]
    BY <1>2 DEF SendCommand, repVars
  <2>2. ASSUME NEW d \in Client \ {c} PROVE Phase(d)' = Phase(d)
    BY <1>1, <2>1, PhaseStays DEF TypeOK, Queued
  <2>3. cpc'[c] = "waiting" /\ sent'[c] # none
    BY <1>1, <2>1 DEF TypeOK, none
  <2>4. Phase(c) = "idle" /\ Phase(c)' = "asked"
    BY <2>1, <2>3 DEF Phase
  <2> QED BY <2>2, <2>4, OneMoves DEF R!Ask
<1>3. ASSUME NEW c \in Client, ReceiveReply(c) PROVE R!Return(c)
  <2>1. /\ cpc[c] = "waiting" /\ replies[c] # none /\ queue' = queue /\ sent' = sent
        /\ cpc' = [cpc EXCEPT ![c] = "idle"]
    BY <1>3 DEF ReceiveReply, repVars
  <2>2. ASSUME NEW d \in Client \ {c} PROVE Phase(d)' = Phase(d)
    BY <1>1, <2>1, PhaseStays DEF TypeOK, Queued
  <2>3. sent[c] = none /\ ~Queued(c) /\ cpc'[c] = "idle"
    BY <1>1, <2>1 DEF TypeOK, ServiceInv, Inv, Tracked, OnePlace
  <2>4. Phase(c) = "served" /\ Phase(c)' = "idle"
    BY <2>1, <2>3 DEF Phase
  <2> QED BY <2>2, <2>4, OneMoves DEF R!Return
<1> QED BY <1>2, <1>3 DEF ClientCalls, R!Next

\* Carrying a message moves no command on.
LEMMA CarryRpc == ASSUME ServiceInv, Carry PROVE call' = call
<1>1. TypeOK
  BY DEF ServiceInv, Inv, Base
<1>2. ASSUME NEW c \in Client, CarryRequest(c), NEW d \in Client PROVE Phase(d)' = Phase(d)
  <2>1. /\ sent' = [sent EXCEPT ![c] = none] /\ queue' = queue \o sent[c] /\ cpc' = cpc
        /\ sent[c] # none /\ queue \in Seq(Requests)
    BY <1>1, <1>2 DEF TypeOK, CarryRequest
  <2>2. sent[c] \in Seq(Requests) /\ Len(sent[c]) = 1 /\ sent[c][1].from = c
    BY <1>1, <2>1, OptionalOne DEF TypeOK, ServiceInv, Inv, Tracked, Numbered
  <2>3. /\ Len(queue) \in Nat /\ Len(queue') = Len(queue) + 1 /\ queue'[Len(queue) + 1].from = c
        /\ \A i \in 1..Len(queue) : queue'[i] = queue[i]
    BY <2>1, <2>2, QueueOne
  <2>4. CASE d = c
    <3>1. Queued(d)'
      BY <2>3, <2>4 DEF Queued
    <3> QED BY <2>1, <2>4, <3>1 DEF Phase
  <2>5. CASE d # c
    <3>1. Queued(d)' <=> Queued(d)
      BY <2>3, <2>5 DEF Queued
    <3>2. sent'[d] = sent[d]
      BY <1>1, <2>1, <2>5 DEF TypeOK
    <3> QED BY <2>1, <3>1, <3>2, PhaseStays
  <2> QED BY <2>4, <2>5
<1>3. ASSUME NEW c \in Client, CarryReply(c), NEW d \in Client PROVE Phase(d)' = Phase(d)
  BY <1>3, PhaseStays DEF CarryReply, Queued
<1> QED BY <1>2, <1>3, NoneMoves DEF Carry

\* Taking a request from the queue is Serve.
LEMMA TakeRpc ==
  ASSUME ServiceInv, UNCHANGED <<cpc, sent>>, queue # <<>>, queue' = Tail(queue)
  PROVE  R!Next \/ call' = call
<1> PICK h : h = queue[1].from
  OBVIOUS
<1>1. TypeOK /\ queue \in Seq(Requests)
  BY DEF ServiceInv, Inv, Base, TypeOK
<1>2. /\ Len(queue) \in Nat \ {0} /\ Len(queue') = Len(queue) - 1
      /\ \A i \in 1..Len(queue') : queue'[i] = queue[i + 1]
  BY <1>1, HeadTailProperties
<1>3. ASSUME NEW d \in Client, d # h PROVE Phase(d)' = Phase(d)
  <2>1. Queued(d) => Queued(d)'
    <3> SUFFICES ASSUME NEW i \in 1..Len(queue), queue[i].from = d PROVE Queued(d)'
      BY DEF Queued
    <3>1. i - 1 \in 1..Len(queue') /\ queue'[i - 1] = queue[i]
      BY <1>2, <1>3
    <3> QED BY <3>1 DEF Queued
  <2>2. Queued(d)' => Queued(d)
    BY <1>2 DEF Queued
  <2> QED BY <2>1, <2>2, PhaseStays
<1>4. CASE h \notin Client
  BY <1>3, <1>4, NoneMoves
<1>5. CASE h \in Client
  <2>1. Queued(h) /\ Tracked(h) /\ Cared(h)
    BY <1>2, <1>5 DEF Queued, ServiceInv, Inv
  <2>2. sent[h] = none /\ cpc[h] = "waiting"
    BY <1>1, <1>5, <2>1 DEF Tracked, OnePlace, Nowhere, Cared, TypeOK
  <2>3. ~Queued(h)'
    <3> SUFFICES ASSUME NEW i \in 1..Len(queue'), queue'[i].from = h PROVE FALSE
      BY DEF Queued
    <3>1. i + 1 \in 1..Len(queue) /\ 1 \in 1..Len(queue) /\ queue[i + 1].from = h /\ i + 1 # 1
      BY <1>2
    <3> QED BY <2>1, <3>1 DEF Tracked, OnePlace
  <2>4. Phase(h) = "asked" /\ Phase(h)' = "served"
    BY <2>1, <2>2, <2>3 DEF Phase
  <2>5. R!Serve(h)
    BY <1>3, <1>5, <2>4, OneMoves DEF R!Serve
  <2> QED BY <1>5, <2>5 DEF R!Next
<1> QED BY <1>4, <1>5

\* A step of the service moves the command of one client on, or none.
LEMMA ServiceRpc ==
  ASSUME HandlersAreWhole, ServiceInv, [ServiceNext]_vars
  PROVE  [R!Next]_call
<1>1. ASSUME UNCHANGED <<cpc, sent, queue>> PROVE call' = call
  <2>1. ASSUME NEW d \in Client PROVE Phase(d)' = Phase(d)
    BY <1>1, PhaseStays DEF Queued
  <2> QED BY <2>1, NoneMoves
<1>2. CASE Receive
  BY <1>1, <1>2, TakeRpc DEF Receive, clientVars
<1>3. CASE Test \/ Served \/ Pause \/ Catch \/ (sock /\ Process("forever"))
  BY <1>1, <1>3 DEF Test, Served, Pause, Catch, Process, clientVars, repVars
<1>4. CASE Move
  BY <1>1, <1>4, MoveService DEF clientVars
<1>5. CASE ~sock /\ Start(TRUE)
  BY <1>1, <1>5 DEF ServiceInv, NothingToDrop, Start, DropMessages, clientVars
<1>6. CASE UNCHANGED vars
  BY <1>1, <1>6 DEF vars, clientVars, repVars
<1> QED BY <1>2, <1>3, <1>4, <1>5, <1>6, ClientRpc, CarryRpc DEF ServiceNext, Loop

\* The service keeps the safety part of Rpc: a command is asked, served once, and returns.
THEOREM ImplementsRpc ==
  ASSUME HandlersAreWhole
  PROVE  ServiceSpec => RpcSafety
<1>1. Init => R!Init
  BY CallIsPhase DEF Init, R!Init, Phase
<1>2. ServiceInv /\ [ServiceNext]_vars => ServiceInv'
  BY NextService
<1>3. ServiceInv /\ [ServiceNext]_vars => [R!Next]_call
  BY ServiceRpc
<1> QED BY <1>1, <1>2, <1>3, InitService, PTL DEF ServiceSpec, RpcSafety
=============================================================================
