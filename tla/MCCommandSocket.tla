--------------------------- MODULE MCCommandSocket ---------------------------
(* Instances of CommandSocket for TLC. *)
EXTENDS CommandSocket, TLC

CONSTANTS c1, c2, gone

MCClient == {c1, c2}
MCNoClient == gone

\* Handlers that answer, say nothing, fail, fail after answering, answer twice.
WholeScripts == {<<"reply">>, <<>>, <<"throw">>, <<"reply", "throw">>, <<"reply", "reply">>}

\* Callbacks that do nothing, fail, answer in place of the handler; an OnError that answers.
WholeCallbacks == {<<>>, <<"throw">>, <<"reply">>}
WholeErrors == {<<>>, <<"reply">>}

\* ... and handlers, callbacks and OnError that send half a reply, fail, or stop the server
\* they run in.
AnyScripts == {<<>>, <<"reply", "quit">>, <<"more", "throw">>, <<"stop", "reply">>}
AnyCallbacks == {<<>>, <<"stop">>}
AnyErrors == {<<>>, <<"throw">>, <<"stop">>}

Sym == Permutations(MCClient)
=============================================================================
