------------------------------- MODULE MCPoll -------------------------------
(* Instances of Poll for TLC. *)
EXTENDS Poll

CONSTANTS s1, s2, s3

In(s) == [socket |-> s, events |-> {"in"}]
Both(s) == [socket |-> s, events |-> Events]

MCSocket == {s1, s2, s3}
MCItems == {<<Both(s1)>>, <<Both(s1), In(s2)>>, <<In(s1), Both(s3), In(s2)>>}
Example == {<<Both(s1), In(s2)>>}
=============================================================================
