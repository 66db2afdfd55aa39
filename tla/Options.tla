------------------------------- MODULE Options -------------------------------
(***************************************************************************)
(* The options of a socket and of its context: Socket.set and Socket.get,  *)
(* Context.set and Context.get, through setsockopt.c, getsockopt.c,        *)
(* ctx_set.c and ctx_get.c, the tables of sockopt.c and util/socket.c, and *)
(* the conversions between MATLAB's arrays and the values of C.            *)
(*                                                                         *)
(* Every numeric value passes through a double (mxGetScalar) and a cast to *)
(* the C type of the option's row in the table; a text goes through a      *)
(* buffer of fixed size.  Widths are constants so that the edges are in    *)
(* reach.  A cast of a value the C type does not hold is undefined: any    *)
(* value may come out.                                                     *)
(***************************************************************************)
EXTENDS Integers, Sequences

CONSTANTS
    Names,          \* the option names users pass, as Socket normalizes them
    Values,         \* the values users pass: Number(n, f) and Text(s, l, c)
    Types,          \* the socket types users construct
    IntBits,        \* width of int
    WideBits,       \* width of int64_t, uint64_t
    Mantissa,       \* a double holds integers exactly up to 2^Mantissa
    StringMax,      \* the buffer for texts: 255 in the code
    MaxSets         \* bound on the options set

\* A number n, or n and a fraction of the same sign.
Number(n, f) == [kind |-> "number", whole |-> n, fraction |-> f]

\* A text: what it says, its length, and the code of its first character.
Text(s, l, c) == [kind |-> "text", says |-> s, length |-> l, code |-> c]

Error == [kind |-> "error"]     \* an exception instead of a value
None == [kind |-> "none"]

\* An int holds the defaults of the options (C has 16 bits at least).
ASSUME WidthAssumption ==
    /\ IntBits \in Nat /\ IntBits >= 3
    /\ WideBits \in Nat \ {0} /\ Mantissa \in Nat \ {0}
ASSUME StringMaxAssumption == StringMax \in Nat \ {0}
ASSUME MaxSetsAssumption == MaxSets \in Nat
ASSUME ValuesAssumption ==
    \A v \in Values :
        \/ /\ v.kind = "number" /\ v = Number(v.whole, v.fraction)
           /\ v.whole \in Int /\ v.fraction \in BOOLEAN
        \/ /\ v.kind = "text" /\ v = Text(v.says, v.length, v.code)
           /\ v.length \in Nat /\ v.code \in Nat

-----------------------------------------------------------------------------
(* The tables *)

Texts == {"ZMQ_SUBSCRIBE", "ZMQ_UNSUBSCRIBE", "ZMQ_IDENTITY", "ZMQ_LAST_ENDPOINT",
          "ZMQ_TCP_ACCEPT_FILTER", "ZMQ_PLAIN_USERNAME", "ZMQ_PLAIN_PASSWORD", "ZMQ_ZAP_DOMAIN"}

Keys == {"ZMQ_CURVE_PUBLICKEY", "ZMQ_CURVE_SECRETKEY", "ZMQ_CURVE_SERVERKEY"}

Ints == {"ZMQ_RCVMORE", "ZMQ_SNDHWM", "ZMQ_RCVHWM", "ZMQ_RATE", "ZMQ_RECOVERY_IVL", "ZMQ_SNDBUF",
         "ZMQ_RCVBUF", "ZMQ_LINGER", "ZMQ_RECONNECT_IVL", "ZMQ_RECONNECT_IVL_MAX", "ZMQ_BACKLOG",
         "ZMQ_MULTICAST_HOPS", "ZMQ_RCVTIMEO", "ZMQ_SNDTIMEO", "ZMQ_IPV6", "ZMQ_IPV4ONLY",
         "ZMQ_IMMEDIATE", "ZMQ_FD", "ZMQ_EVENTS", "ZMQ_ROUTER_MANDATORY", "ZMQ_ROUTER_RAW",
         "ZMQ_PROBE_ROUTER", "ZMQ_XPUB_VERBOSE", "ZMQ_REQ_CORRELATE", "ZMQ_REQ_RELAXED",
         "ZMQ_TCP_KEEPALIVE", "ZMQ_TCP_KEEPALIVE_IDLE", "ZMQ_TCP_KEEPALIVE_CNT",
         "ZMQ_TCP_KEEPALIVE_INTVL", "ZMQ_PLAIN_SERVER", "ZMQ_CURVE_SERVER", "ZMQ_CONFLATE"}

Rows == Texts \cup Keys \cup Ints \cup
        {"ZMQ_TYPE", "ZMQ_AFFINITY", "ZMQ_MAXMSGSIZE", "ZMQ_MECHANISM"}

\* Mutant: AFFINITY taken for a signed integer, as MAXMSGSIZE is.
sockOptLookupSigned ==
    [name \in Rows |->
        CASE name = "ZMQ_TYPE"       -> "SOCKTYPE"
          [] name = "ZMQ_AFFINITY"   -> "INT64"
          [] name = "ZMQ_MAXMSGSIZE" -> "INT64"
          [] name = "ZMQ_MECHANISM"  -> "MECHANISM"
          [] name \in Texts          -> "STRING"
          [] name \in Keys           -> "KEY"
          [] OTHER                   -> "INT"]

\* Mutant: the type of MAXMSGSIZE forgotten.
sockOptLookupShort ==
    [name \in Rows |->
        CASE name = "ZMQ_TYPE"       -> "SOCKTYPE"
          [] name = "ZMQ_AFFINITY"   -> "UINT64"
          [] name = "ZMQ_MECHANISM"  -> "MECHANISM"
          [] name \in Texts          -> "STRING"
          [] name \in Keys           -> "KEY"
          [] OTHER                   -> "INT"]

\* Where not on Windows, whose ZMQ_FD is a SOCKET.
sockOptLookup ==
    [name \in Rows |->
        CASE name = "ZMQ_TYPE"       -> "SOCKTYPE"
          [] name = "ZMQ_AFFINITY"   -> "UINT64"
          [] name = "ZMQ_MAXMSGSIZE" -> "INT64"
          [] name = "ZMQ_MECHANISM"  -> "MECHANISM"
          [] name \in Texts          -> "STRING"
          [] name \in Keys           -> "KEY"
          [] OTHER                   -> "INT"]

\* maxLen; a Z85 key has 40 characters and a terminator.
sockOptTypeLookup ==
    [UINT64 |-> WideBits, INT64 |-> WideBits, UINT32 |-> IntBits, INT |-> IntBits,
     STRING |-> StringMax, KEY |-> 41, SOCKTYPE |-> IntBits, MECHANISM |-> IntBits]

socketTypeLookup ==
    [ZMQ_PAIR |-> 0, ZMQ_PUB |-> 1, ZMQ_SUB |-> 2, ZMQ_REQ |-> 3, ZMQ_REP |-> 4,
     ZMQ_DEALER |-> 5, ZMQ_ROUTER |-> 6, ZMQ_PULL |-> 7, ZMQ_PUSH |-> 8, ZMQ_XPUB |-> 9,
     ZMQ_XSUB |-> 10, ZMQ_STREAM |-> 11]

\* Mutant: the last row forgotten.
sockOptMechanismLookupShort == [ZMQ_NULL |-> 0, ZMQ_PLAIN |-> 1]

sockOptMechanismLookup == [ZMQ_NULL |-> 0, ZMQ_PLAIN |-> 1, ZMQ_CURVE |-> 2]

-----------------------------------------------------------------------------
(* The conversions.  from_m yields the set of outcomes: none if it throws, *)
(* several if the C code is undefined.                                     *)

\* The distance of doubles around n.
Spacing(n) ==
    LET size == IF n < 0 THEN -n ELSE n
        wide == {k \in 0..WideBits : size <= 2^(Mantissa + k)}
    IN  2^(CHOOSE k \in wide : \A j \in wide : k <= j)

\* The double nearest to n; of two as near, the one with the even mantissa.
Double(n) ==
    LET s == Spacing(n)
        below == n \div s
    IN  IF 2 * (n % s) < s \/ (2 * (n % s) = s /\ below % 2 = 0) THEN below * s ELSE (below + 1) * s

\* The values of the numeric C types.
Holds(ctype) ==
    CASE ctype = "INT"    -> -(2^(IntBits - 1))..(2^(IntBits - 1) - 1)
      [] ctype = "UINT32" -> 0..(2^IntBits - 1)
      [] ctype = "INT64"  -> -(2^(WideBits - 1))..(2^(WideBits - 1) - 1)
      [] ctype = "UINT64" -> 0..(2^WideBits - 1)

Cast(ctype, n) == IF n \in Holds(ctype) THEN {n} ELSE Holds(ctype)

\* mxGetScalar drops no fraction, the cast does; of a text it returns the first
\* character's code, of an empty array anything.
scalar_from_m(ctype, v) ==
    IF v.kind = "number" THEN Cast(ctype, Double(v.whole))
    ELSE IF v.length > 0 THEN Cast(ctype, v.code) ELSE Holds(ctype)

\* mxGetString refuses what is not a text.
str_from_m(v) == IF v.kind = "text" THEN {v} ELSE {}

\* socktype_from_m, mechanism_from_m: str_from_m, find_..._by_name.
id_from_m(table, v) ==
    IF v.kind = "text" /\ v.says \in DOMAIN table THEN {table[v.says]} ELSE {}

\* socktype_to_m, mechanism_to_m: find_..._by_id, str_to_m.
id_to_m(table, id) ==
    IF \E name \in DOMAIN table : table[name] = id
    THEN Text(CHOOSE name \in DOMAIN table : table[name] = id, 0, 0)
    ELSE Error

\* Mutant: every number is read as an int.
from_m_int(type, v) ==
    CASE type = "SOCKTYPE"          -> id_from_m(socketTypeLookup, v)
      [] type = "MECHANISM"         -> id_from_m(sockOptMechanismLookup, v)
      [] type \in {"STRING", "KEY"} -> str_from_m(v)
      [] OTHER                      -> scalar_from_m("INT", v)

from_m(type, v) ==
    CASE type = "SOCKTYPE"          -> id_from_m(socketTypeLookup, v)
      [] type = "MECHANISM"         -> id_from_m(sockOptMechanismLookup, v)
      [] type \in {"STRING", "KEY"} -> str_from_m(v)
      [] OTHER                      -> scalar_from_m(type, v)

to_m(type, raw) ==
    CASE type = "SOCKTYPE"          -> id_to_m(socketTypeLookup, raw)
      [] type = "MECHANISM"         -> id_to_m(sockOptMechanismLookup, raw)
      [] type \in {"STRING", "KEY"} -> raw
      [] OTHER                      -> Number(raw, FALSE)

-----------------------------------------------------------------------------
(* libzmq: how it keeps the options of the table.  Where versions differ, *)
(* it is 4.0, whose options the table lists, with CURVE built in.         *)

\* What a socket reports of itself; and what no call changes directly.
Volatile == {"ZMQ_RCVMORE", "ZMQ_FD", "ZMQ_EVENTS", "ZMQ_LAST_ENDPOINT"}
ReadOnly == {"ZMQ_TYPE", "ZMQ_MECHANISM"} \cup Volatile

\* What can be set and not be got; which types of sockets take it makes no difference here.
Filters == {"ZMQ_SUBSCRIBE", "ZMQ_UNSUBSCRIBE", "ZMQ_TCP_ACCEPT_FILTER"}
Flags == {"ZMQ_ROUTER_MANDATORY", "ZMQ_ROUTER_RAW", "ZMQ_PROBE_ROUTER", "ZMQ_XPUB_VERBOSE",
          "ZMQ_REQ_CORRELATE", "ZMQ_REQ_RELAXED"}
SetOnly == Filters \cup Flags

Strings == {"ZMQ_IDENTITY", "ZMQ_PLAIN_USERNAME", "ZMQ_PLAIN_PASSWORD", "ZMQ_ZAP_DOMAIN"}
Switches == {"ZMQ_IPV6", "ZMQ_IPV4ONLY", "ZMQ_PLAIN_SERVER", "ZMQ_CURVE_SERVER", "ZMQ_IMMEDIATE",
             "ZMQ_CONFLATE"}
OrInfinite == {"ZMQ_LINGER", "ZMQ_RCVTIMEO", "ZMQ_SNDTIMEO", "ZMQ_RECONNECT_IVL",
               "ZMQ_TCP_KEEPALIVE_IDLE", "ZMQ_TCP_KEEPALIVE_CNT", "ZMQ_TCP_KEEPALIVE_INTVL"}
Counts == {"ZMQ_SNDHWM", "ZMQ_RCVHWM", "ZMQ_RECOVERY_IVL", "ZMQ_SNDBUF", "ZMQ_RCVBUF",
           "ZMQ_RECONNECT_IVL_MAX", "ZMQ_BACKLOG"}
Positive == {"ZMQ_RATE", "ZMQ_MULTICAST_HOPS"}

ASSUME TypesAssumption == Types \subseteq DOMAIN socketTypeLookup

IsText(name) == name \in Texts \cup Keys

CType(name) ==
    CASE name = "ZMQ_AFFINITY" -> "UINT64" [] name = "ZMQ_MAXMSGSIZE" -> "INT64" [] OTHER -> "INT"

Width(name) == IF CType(name) = "INT" THEN IntBits ELSE WideBits

\* The numbers that make sense of an option.
Limits(name) ==
    CASE name = "ZMQ_TYPE"          -> 0..11
      [] name = "ZMQ_MECHANISM"     -> 0..2
      [] name = "ZMQ_EVENTS"        -> 0..3
      [] name = "ZMQ_TCP_KEEPALIVE" -> -1..1
      [] name \in Switches \cup {"ZMQ_RCVMORE", "server"} -> {0, 1}
      [] name \in OrInfinite        -> Nat \cup {-1}
      [] name \in Counts \cup Flags \cup {"ZMQ_FD"} -> Nat
      [] name \in Positive          -> Nat \ {0}
      [] OTHER                      -> Int

\* A key is given in binary or in Z85.
Lengths(name) ==
    CASE name \in Keys    -> {32, 40}
      [] name \in Filters -> Nat
      [] name = "ZMQ_ZAP_DOMAIN" -> 0..StringMax
      [] OTHER            -> 1..StringMax

\* zmq_setsockopt: otherwise EINVAL.
Accepts(name, raw, length) ==
    /\ name \notin ReadOnly
    /\ IF IsText(name) THEN length \in Lengths(name)
       ELSE length = Width(name) /\ raw \in Limits(name)

\* What a key says is which key it is, in either form; it is shown in Z85.
Z85(key) == Text(key.says, 40, key.code)

\* A user name makes a PLAIN client, a key a CURVE socket, and that of a server a client; the
\* two server switches exclude each other.  Set-only options are not among these.
Kept(opt, name, raw) ==
    CASE name \in SetOnly          -> opt
      [] name = "ZMQ_IPV4ONLY"     -> [opt EXCEPT !["ZMQ_IPV6"] = 1 - raw]
      [] name \in {"ZMQ_PLAIN_USERNAME", "ZMQ_PLAIN_PASSWORD"} ->
            [opt EXCEPT ![name] = raw, !["ZMQ_MECHANISM"] = 1, !["server"] = 0]
      [] name \in Keys             ->
            [opt EXCEPT ![name] = Z85(raw), !["ZMQ_MECHANISM"] = 2,
                        !["server"] = IF name = "ZMQ_CURVE_SERVERKEY" THEN 0 ELSE opt["server"]]
      [] name = "ZMQ_PLAIN_SERVER" -> [opt EXCEPT !["server"] = raw, !["ZMQ_MECHANISM"] = raw]
      [] name = "ZMQ_CURVE_SERVER" -> [opt EXCEPT !["server"] = raw, !["ZMQ_MECHANISM"] = 2 * raw]
      [] OTHER                     -> [opt EXCEPT ![name] = raw]

Seen(opt, name) ==
    CASE name = "ZMQ_IPV4ONLY"     -> 1 - opt["ZMQ_IPV6"]
      [] name = "ZMQ_PLAIN_SERVER" -> IF opt["ZMQ_MECHANISM"] = 1 THEN opt["server"] ELSE 0
      [] name = "ZMQ_CURVE_SERVER" -> IF opt["ZMQ_MECHANISM"] = 2 THEN opt["server"] ELSE 0
      [] OTHER                     -> opt[name]

\* zmq_getsockopt fails if the buffer is too short for a text, which libzmq ends with a
\* terminator unless it is the identity, or has not the size of a number or of a Z85 key.
Fits(name, raw, maxLen) ==
    IF name \in Keys THEN maxLen = 41
    ELSE IF IsText(name) THEN raw.length + (IF name = "ZMQ_IDENTITY" THEN 0 ELSE 1) <= maxLen
    ELSE maxLen = Width(name)

\* What libzmq keeps; the views are made of these.
OptNames ==
    (Rows \ (SetOnly \cup {"ZMQ_IPV4ONLY", "ZMQ_PLAIN_SERVER", "ZMQ_CURVE_SERVER"})) \cup {"server"}

\* Any positive default is a 1.
Fresh(type, ipv6) ==
    [name \in OptNames |->
        CASE name = "ZMQ_TYPE" -> socketTypeLookup[type]
          [] name = "ZMQ_IPV6" -> ipv6
          [] name \in {"ZMQ_SNDHWM", "ZMQ_RCVHWM", "ZMQ_RECOVERY_IVL", "ZMQ_BACKLOG",
                       "ZMQ_RECONNECT_IVL"} \cup Positive -> 1
          [] name \in (OrInfinite \ {"ZMQ_RECONNECT_IVL"})
                     \cup {"ZMQ_MAXMSGSIZE", "ZMQ_TCP_KEEPALIVE"} -> -1
          [] name \in Keys -> Text("", 40, 0)
          [] name \in Texts -> Text("", 0, 0)
          [] OTHER -> 0]
-----------------------------------------------------------------------------
(* The state: one context, and one socket at a time.  A call that changes  *)
(* nothing is no step; what it answers is an operator on the state.        *)

CtxNames == {"ZMQ_IO_THREADS", "ZMQ_MAX_SOCKETS", "ZMQ_IPV6"}

VARIABLES
    alive,          \* the socket is open; after close its pointer is 0
    opt,            \* libzmq: its options
    ctx,            \* libzmq: the options of the context
    asked, ctxAsked,\* per option, the value last set, unless a related option was set since
    sets            \* options set so far

vars == <<alive, opt, ctx, asked, ctxAsked, sets>>

\* The numbers libzmq may keep of an option, and the lengths of texts.  (A test with ints of 3
\* bits has no room for the socket types.)
Numbers(name) == IF name = "ZMQ_TYPE" THEN 0..11 ELSE Holds(CType(name)) \cap Limits(name)

KeptLengths(name) ==
    CASE name \in Keys -> {40} [] name = "ZMQ_LAST_ENDPOINT" -> Nat [] OTHER -> 0..StringMax

Legal(name, value) ==
    IF IsText(name) THEN value.kind = "text" /\ value.length \in KeptLengths(name)
    ELSE value \in Numbers(name)

TypeOK ==
    /\ alive \in BOOLEAN
    /\ opt = [name \in OptNames |-> opt[name]] /\ \A name \in OptNames : Legal(name, opt[name])
    /\ ctx \in [CtxNames -> Holds("INT") \cap Nat] /\ ctx["ZMQ_IPV6"] \in {0, 1}
    /\ asked = [name \in Names |-> asked[name]]
    /\ ctxAsked = [name \in CtxNames |-> ctxAsked[name]]
    /\ sets \in 0..MaxSets

Init ==
    /\ alive = FALSE /\ opt = Fresh("ZMQ_PAIR", 0)
    /\ ctx = [ZMQ_IO_THREADS |-> 1, ZMQ_MAX_SOCKETS |-> 2, ZMQ_IPV6 |-> 0]
    /\ asked = [name \in Names |-> None] /\ ctxAsked = [name \in CtxNames |-> None]
    /\ sets = 0

\* A new socket takes IPV6 over from its context.
Construct(type) ==
    /\ ~alive /\ alive' = TRUE
    /\ opt' = Fresh(type, ctx["ZMQ_IPV6"])
    /\ asked' = [name \in Names |->
           CASE name = "ZMQ_TYPE" -> Text(type, 0, 0)
             [] name = "ZMQ_IPV6" -> Number(ctx["ZMQ_IPV6"], FALSE)
             [] OTHER             -> None]
    /\ UNCHANGED <<ctx, ctxAsked, sets>>

Close ==
    /\ alive /\ alive' = FALSE
    /\ UNCHANGED <<opt, ctx, asked, ctxAsked, sets>>

\* Binding, messages and their parts change what the socket reports of itself.
Traffic ==
    /\ alive
    /\ \E name \in Names \cap Volatile :
       \E raw \in IF IsText(name) THEN {v \in Values : v.kind = "text"} ELSE Numbers(name) :
           opt' = [opt EXCEPT ![name] = raw]
    /\ UNCHANGED <<alive, ctx, asked, ctxAsked, sets>>

\* The options one can be seen through another.
Related(name) ==
    CASE name \in {"ZMQ_IPV6", "ZMQ_IPV4ONLY"} -> {"ZMQ_IPV6", "ZMQ_IPV4ONLY"}
      [] name \in {"ZMQ_PLAIN_SERVER", "ZMQ_CURVE_SERVER", "ZMQ_PLAIN_USERNAME",
                   "ZMQ_PLAIN_PASSWORD"} \cup Keys -> {"ZMQ_PLAIN_SERVER", "ZMQ_CURVE_SERVER"}
      [] OTHER -> {}

\* optLen of setsockopt.c: the elements of a text, the size of anything else.
optLen(name, v) ==
    IF sockOptLookup[name] \in {"STRING", "KEY"} THEN v.length
    ELSE sockOptTypeLookup[sockOptLookup[name]]

\* setsockopt.c throws: an unknown name, a value that does not convert, or EINVAL.
Refused(name, v) ==
    \/ name \notin Rows
    \/ from_m(sockOptLookup[name], v) = {}
    \/ \E raw \in from_m(sockOptLookup[name], v) : ~Accepts(name, raw, optLen(name, v))

\* Socket.set; on a closed socket it prints a warning, where it throws nothing changes.
Set(name, v) ==
    /\ alive /\ sets < MaxSets
    /\ name \in Rows
    /\ \E raw \in from_m(sockOptLookup[name], v) :
           Accepts(name, raw, optLen(name, v)) /\ opt' = Kept(opt, name, raw)
    /\ asked' = [n \in Names |->
           IF n = name THEN v ELSE IF n \in Related(name) THEN None ELSE asked[n]]
    /\ sets' = sets + 1
    /\ UNCHANGED <<alive, ctx, ctxAsked>>

\* What getsockopt.c makes of the buffer: a text that libzmq did not terminate goes on
\* with what mxMalloc found there.
Shown(name, raw) ==
    IF name = "ZMQ_IDENTITY"
    THEN {Text(raw.says, raw.length + junk, raw.code) : junk \in 0..1}
    ELSE {to_m(sockOptLookup[name], raw)}

\* Socket.get: the answers there may be; pointer_from_m throws on a closed socket,
\* zmq_getsockopt fails on options that can only be set.
Get(name) ==
    IF alive /\ name \in Rows \ SetOnly
       /\ Fits(name, Seen(opt, name), sockOptTypeLookup[sockOptLookup[name]])
    THEN Shown(name, Seen(opt, name))
    ELSE {Error}

\* zmq_ctx_set: otherwise EINVAL.
CtxAccepts(name, raw) == raw >= (IF name = "ZMQ_MAX_SOCKETS" THEN 1 ELSE 0)

\* Context.set; ctx_set.c throws if the value is no number or libzmq refuses it.
CtxSet(name, v) ==
    /\ sets < MaxSets
    /\ v.kind = "number"
    /\ \E raw \in scalar_from_m("INT", v) :
          /\ CtxAccepts(name, raw)
          /\ ctx' = [ctx EXCEPT ![name] = IF name = "ZMQ_IPV6" /\ raw > 0 THEN 1 ELSE raw]
    /\ ctxAsked' = [ctxAsked EXCEPT ![name] = v]
    /\ sets' = sets + 1
    /\ UNCHANGED <<alive, opt, asked>>

\* Context.get.
CtxGet(name) == Number(ctx[name], FALSE)

Next ==
    \/ \E type \in Types : Construct(type)
    \/ Close
    \/ Traffic
    \/ \E name \in Names, v \in Values : Set(name, v)
    \/ \E name \in CtxNames, v \in Values : CtxSet(name, v)

Spec == Init /\ [][Next]_vars

-----------------------------------------------------------------------------
(* Properties *)

\* A value of the option's own type that a double and the C type hold exactly; a key in Z85.
Exact(name, v) ==
    IF IsText(name) \/ name \in ReadOnly THEN v.kind = "text" /\ (name \in Keys => v.length = 40)
    ELSE /\ v.kind = "number" /\ ~v.fraction
         /\ v.whole \in Holds(CType(name)) /\ Double(v.whole) = v.whole

\* What was set is what get answers, whatever other options were set in between, through
\* doubles, casts, tables, aliases (IPV4ONLY) and defaults (the context's IPV6, the type the
\* constructor was given).  Not for values that are not exact; not where get fails
\* (GettersAnswer says where); not for the identity, which libzmq returns without a terminator.
GetReturnsSet ==
    /\ \A name \in Names \ {"ZMQ_IDENTITY"} :
           alive /\ asked[name] # None /\ Exact(name, asked[name]) /\ Get(name) # {Error} =>
               Get(name) = {asked[name]}
    /\ \A name \in CtxNames :
           /\ ctxAsked[name] # None /\ Exact(name, ctxAsked[name])
           /\ name = "ZMQ_IPV6" => ctxAsked[name].whole \in {0, 1}
           => CtxGet(name) = ctxAsked[name]

\* On an open socket get throws for these options of the table and for no other, whatever
\* state any calls have brought the socket to: for the set-only ones always, as the table has
\* them although zmq_getsockopt does not; and for a text that leaves no room for a terminator
\* in the buffer, which set (or, for the last endpoint, bind) takes all the same.
GettersAnswer ==
    \A name \in Names \cap Rows :
        alive =>
            (Error \in Get(name) <=>
                \/ name \in SetOnly
                \/ /\ name \in (Strings \ {"ZMQ_IDENTITY"}) \cup {"ZMQ_LAST_ENDPOINT"}
                   /\ Seen(opt, name).length >= StringMax)

\* The numeric options that stand alone: setting a security switch drops the other one.
Alone == OrInfinite \cup Counts \cup Positive
             \cup {"ZMQ_IPV6", "ZMQ_IPV4ONLY", "ZMQ_IMMEDIATE", "ZMQ_CONFLATE", "ZMQ_TCP_KEEPALIVE",
                   "ZMQ_AFFINITY", "ZMQ_MAXMSGSIZE"}

\* A numeric option can be saved with get and restored with set at any time: what get answers
\* is accepted and changes nothing, if a double holds it.  So signs, sizes and types of the
\* table are the ones libzmq expects, for values as they come and not only for those users set.
RestoredAsSaved ==
    \A name \in Names \cap Alone :
        alive /\ Double(Seen(opt, name)) = Seen(opt, name) =>
            \A v \in Get(name) :
                /\ v # Error /\ ~Refused(name, v)
                /\ \A raw \in from_m(sockOptLookup[name], v) : Kept(opt, name, raw) = opt
=============================================================================
