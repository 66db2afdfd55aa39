---------------------------- MODULE Options_proofs ----------------------------
(***************************************************************************)
(* Proofs about Options, for any widths of the C types, any precision of   *)
(* doubles, any buffer for texts, and any names and values.                *)
(***************************************************************************)
EXTENDS Options, Induction

-----------------------------------------------------------------------------
(* The C types and the tables *)

\* The C types hold the values the options start with.
LEMMA HoldsDefaults ==
  /\ Holds("INT") \subseteq Int /\ Holds("INT64") \subseteq Int /\ Holds("UINT64") \subseteq Int
  /\ {-1, 0, 1, 2} \subseteq Holds("INT")
  /\ -1 \in Holds("INT64") /\ 0 \in Holds("UINT64")
<1> DEFINE p == 2^(IntBits - 1)
           q == 2^(WideBits - 1)
           r == 2^WideBits
<1>1. IntBits - 1 \in Nat /\ 2 <= IntBits - 1 /\ WideBits - 1 \in Nat /\ WideBits \in Nat
  BY WidthAssumption
<1>2. 2^1 = 2 /\ 2^2 = 4
  OBVIOUS
<1>3. p \in Nat /\ p >= 4
  BY <1>1, <1>2, PowersOfTwo, PowersGrow
<1>4. q \in Nat \ {0} /\ r \in Nat \ {0}
  BY <1>1, PowersOfTwo
<1>5. Holds("INT") = -p..(p - 1) /\ Holds("INT64") = -q..(q - 1) /\ Holds("UINT64") = 0..(r - 1)
  BY DEF Holds
<1> HIDE DEF p, q, r
<1> QED BY <1>3, <1>4, <1>5

\* A cast yields a value of the type, and a value of the type unchanged.
LEMMA CastHolds ==
  ASSUME NEW ctype, NEW n
  PROVE  /\ Cast(ctype, n) \subseteq Holds(ctype)
         /\ n \in Holds(ctype) => Cast(ctype, n) = {n}
  BY DEF Cast

\* The options whose numbers have names.
Named == {"ZMQ_TYPE", "ZMQ_MECHANISM"}

Views == {"ZMQ_IPV4ONLY", "ZMQ_PLAIN_SERVER", "ZMQ_CURVE_SERVER"}

\* The texts and the numbers of the table, and where libzmq keeps what.
LEMMA NamesKept ==
  /\ Texts \cap Keys = {} /\ Texts \subseteq Rows /\ Keys \subseteq Rows /\ "server" \notin Rows
  /\ Texts = Strings \cup Filters \cup {"ZMQ_LAST_ENDPOINT"}
  /\ Flags \cap (Texts \cup Keys) = {} /\ Filters \cap ReadOnly = {} /\ SetOnly \cap Keys = {}
  /\ Strings \cap (SetOnly \cup ReadOnly) = {} /\ Keys \cap ReadOnly = {}
  /\ "ZMQ_LAST_ENDPOINT" \notin SetOnly /\ "ZMQ_IDENTITY" \in Strings
  /\ Switches \cap (Texts \cup Keys \cup ReadOnly \cup SetOnly) = {}
  /\ Views \subseteq Switches /\ Switches \subseteq Rows
  /\ \A name \in Named \cup {"ZMQ_IPV6", "server", "ZMQ_AFFINITY", "ZMQ_MAXMSGSIZE"} :
         name \in OptNames /\ name \notin Texts \cup Keys
  /\ Rows \ (SetOnly \cup Views) \subseteq OptNames /\ OptNames \subseteq Rows \cup {"server"}
  /\ OptNames \cap SetOnly = {}
<1>1. /\ Texts \cap Keys = {} /\ Texts \subseteq Rows /\ Keys \subseteq Rows
      /\ Texts = Strings \cup Filters \cup {"ZMQ_LAST_ENDPOINT"}
  BY DEF Texts, Keys, Rows, Strings, Filters
<1>2. "server" \notin Rows
  BY DEF Texts, Keys, Rows, Ints
<1>3. Flags \cap (Texts \cup Keys) = {} /\ SetOnly \cap Keys = {} /\ Filters \cap ReadOnly = {}
  BY DEF Flags, Texts, Keys, SetOnly, Filters, ReadOnly, Volatile
<1>4. /\ Strings \cap (SetOnly \cup ReadOnly) = {} /\ Keys \cap ReadOnly = {}
      /\ "ZMQ_LAST_ENDPOINT" \notin SetOnly /\ "ZMQ_IDENTITY" \in Strings
  BY DEF Strings, SetOnly, Filters, Flags, ReadOnly, Volatile, Keys
<1>5. /\ Switches \cap (Texts \cup Keys \cup ReadOnly \cup SetOnly) = {} /\ Views \subseteq Switches
  BY DEF Switches, Texts, Keys, ReadOnly, Volatile, SetOnly, Filters, Flags, Views
<1>6. Switches \subseteq Rows
  BY DEF Switches, Rows, Ints
<1>7. Rows \ (SetOnly \cup Views) \subseteq OptNames /\ OptNames \subseteq Rows \cup {"server"}
  BY DEF OptNames, Views
<1>8. OptNames \cap SetOnly = {}
  <2>1. "server" \notin SetOnly
    BY DEF SetOnly, Filters, Flags
  <2> QED BY <2>1 DEF OptNames
<1>9. \A name \in Named \cup {"ZMQ_IPV6", "server", "ZMQ_AFFINITY", "ZMQ_MAXMSGSIZE"} :
         name \in OptNames /\ name \notin Texts \cup Keys
  <2>1. \A name \in Named \cup {"ZMQ_IPV6", "server", "ZMQ_AFFINITY", "ZMQ_MAXMSGSIZE"} :
            name \notin Texts \cup Keys \cup SetOnly \cup Views
    BY DEF Named, Texts, Keys, SetOnly, Filters, Flags, Views
  <2>2. \A name \in Named \cup {"ZMQ_IPV6", "ZMQ_AFFINITY", "ZMQ_MAXMSGSIZE"} : name \in Rows
    BY DEF Named, Rows, Ints
  <2> QED BY <1>7, <2>1, <2>2 DEF OptNames
<1> QED BY <1>1, <1>2, <1>3, <1>4, <1>5, <1>6, <1>7, <1>8, <1>9

\* The table gives each option the type libzmq keeps it in.
LEMMA TableTypes ==
  ASSUME NEW name \in Rows
  PROVE  /\ name \in Texts => sockOptLookup[name] = "STRING"
         /\ name \in Keys => sockOptLookup[name] = "KEY"
         /\ name = "ZMQ_TYPE" => sockOptLookup[name] = "SOCKTYPE"
         /\ name = "ZMQ_MECHANISM" => sockOptLookup[name] = "MECHANISM"
         /\ ~IsText(name) /\ name \notin Named =>
                /\ sockOptLookup[name] = CType(name)
                /\ CType(name) \in {"INT", "INT64", "UINT64"}
<1>1. sockOptLookup[name] =
        CASE name = "ZMQ_TYPE"       -> "SOCKTYPE"
          [] name = "ZMQ_AFFINITY"   -> "UINT64"
          [] name = "ZMQ_MAXMSGSIZE" -> "INT64"
          [] name = "ZMQ_MECHANISM"  -> "MECHANISM"
          [] name \in Texts          -> "STRING"
          [] name \in Keys           -> "KEY"
          [] OTHER                   -> "INT"
  BY DEF sockOptLookup
<1>2. name \in Texts => sockOptLookup[name] = "STRING"
  BY <1>1 DEF Texts, Keys
<1>3. name \in Keys => sockOptLookup[name] = "KEY"
  BY <1>1 DEF Texts, Keys
<1>4. name = "ZMQ_TYPE" => sockOptLookup[name] = "SOCKTYPE"
  BY <1>1 DEF Texts, Keys
<1>5. name = "ZMQ_MECHANISM" => sockOptLookup[name] = "MECHANISM"
  BY <1>1 DEF Texts, Keys
<1>6. ~IsText(name) /\ name \notin Named => sockOptLookup[name] = CType(name)
  BY <1>1 DEF CType, IsText, Named
<1>7. CType(name) \in {"INT", "INT64", "UINT64"}
  BY DEF CType
<1> QED BY <1>2, <1>3, <1>4, <1>5, <1>6, <1>7

\* Socket types and mechanisms are found by name and by number alike.
LEMMA TablesAgree ==
  /\ \A type \in DOMAIN socketTypeLookup :
         /\ socketTypeLookup[type] \in 0..11
         /\ id_to_m(socketTypeLookup, socketTypeLookup[type]) = Text(type, 0, 0)
  /\ \A id \in 0..11 : \E type \in DOMAIN socketTypeLookup : socketTypeLookup[type] = id
  /\ \A id \in 0..2 : \E name \in DOMAIN sockOptMechanismLookup : sockOptMechanismLookup[name] = id
<1> DEFINE t == socketTypeLookup
<1>1. DOMAIN t = {"ZMQ_PAIR", "ZMQ_PUB", "ZMQ_SUB", "ZMQ_REQ", "ZMQ_REP", "ZMQ_DEALER", "ZMQ_ROUTER",
                  "ZMQ_PULL", "ZMQ_PUSH", "ZMQ_XPUB", "ZMQ_XSUB", "ZMQ_STREAM"}
  BY DEF socketTypeLookup
<1>2. /\ t["ZMQ_PAIR"] = 0 /\ t["ZMQ_PUB"] = 1 /\ t["ZMQ_SUB"] = 2 /\ t["ZMQ_REQ"] = 3
      /\ t["ZMQ_REP"] = 4 /\ t["ZMQ_DEALER"] = 5 /\ t["ZMQ_ROUTER"] = 6 /\ t["ZMQ_PULL"] = 7
      /\ t["ZMQ_PUSH"] = 8 /\ t["ZMQ_XPUB"] = 9 /\ t["ZMQ_XSUB"] = 10 /\ t["ZMQ_STREAM"] = 11
  BY DEF socketTypeLookup
<1> HIDE DEF t
<1>3. \A type \in DOMAIN t : t[type] \in 0..11
  BY <1>1, <1>2
<1>4. \A id \in 0..11 : \E type \in DOMAIN t : t[type] = id
  BY <1>1, <1>2
<1>5. \A type, other \in DOMAIN t : t[type] = t[other] => type = other
  BY <1>1, <1>2
<1>6. ASSUME NEW type \in DOMAIN t PROVE id_to_m(t, t[type]) = Text(type, 0, 0)
  <2>1. (CHOOSE other \in DOMAIN t : t[other] = t[type]) = type
    BY <1>5
  <2> QED BY <2>1 DEF id_to_m
<1>7. \A id \in 0..2 : \E name \in DOMAIN sockOptMechanismLookup : sockOptMechanismLookup[name] = id
  <2>1. /\ DOMAIN sockOptMechanismLookup = {"ZMQ_NULL", "ZMQ_PLAIN", "ZMQ_CURVE"}
        /\ sockOptMechanismLookup["ZMQ_NULL"] = 0
        /\ sockOptMechanismLookup["ZMQ_PLAIN"] = 1
        /\ sockOptMechanismLookup["ZMQ_CURVE"] = 2
    BY DEF sockOptMechanismLookup
  <2> QED BY <2>1
<1> QED BY <1>3, <1>4, <1>6, <1>7 DEF t

-----------------------------------------------------------------------------
(* What libzmq keeps *)

\* The options of a socket, each with a value libzmq may keep of it.
Sound(options) ==
    /\ options = [name \in OptNames |-> options[name]]
    /\ \A name \in OptNames : Legal(name, options[name])

\* The type invariant is about nothing else, as far as the socket goes.
LEMMA TypeIsSound == TypeOK => Sound(opt)
  BY DEF TypeOK, Sound

\* The limits of the options, and that a zero is within most of them.
LEMMA LimitsOf ==
  /\ Limits("ZMQ_MECHANISM") = 0..2
  /\ \A name \in Switches \cup {"server"} : Limits(name) = {0, 1}
  /\ \A name \in OrInfinite \cup {"ZMQ_MAXMSGSIZE", "ZMQ_TCP_KEEPALIVE"} : -1 \in Limits(name)
  /\ \A name \in Counts \cup OrInfinite \cup Positive : 1 \in Limits(name)
  /\ \A name : name \notin Positive => 0 \in Limits(name)
<1>1. Limits("ZMQ_MECHANISM") = 0..2
  BY DEF Limits, Switches, OrInfinite, Counts, Flags, Positive
<1>2. ASSUME NEW name \in Switches \cup {"server"} PROVE Limits(name) = {0, 1}
  BY DEF Limits, Switches, OrInfinite, Counts, Flags, Positive
<1>3. ASSUME NEW name \in OrInfinite PROVE Limits(name) = Nat \cup {-1}
  BY DEF Limits, Switches, OrInfinite, Counts, Flags, Positive
<1>4. /\ Limits("ZMQ_TCP_KEEPALIVE") = -1..1
      /\ Limits("ZMQ_MAXMSGSIZE") = Int
  BY DEF Limits, Switches, OrInfinite, Counts, Flags, Positive
<1>5. ASSUME NEW name \in Counts PROVE Limits(name) = Nat
  BY DEF Limits, Switches, OrInfinite, Counts, Flags, Positive
<1>6. ASSUME NEW name \in Positive PROVE Limits(name) = Nat \ {0}
  BY DEF Limits, Switches, OrInfinite, Counts, Flags, Positive
<1>7. ASSUME NEW name, name \notin Positive PROVE 0 \in Limits(name)
  BY <1>7 DEF Limits, Switches, OrInfinite, Counts, Flags, Positive
<1> QED BY <1>1, <1>2, <1>3, <1>4, <1>5, <1>6, <1>7

\* The names libzmq keeps numbers of, with their numbers.
LEMMA NumbersOf ==
  /\ Numbers("ZMQ_TYPE") = 0..11 /\ Numbers("ZMQ_MECHANISM") = 0..2
  /\ \A name \in Switches \cup {"server"} : Numbers(name) = {0, 1}
  /\ \A name : name # "ZMQ_TYPE" => Numbers(name) = Holds(CType(name)) \cap Limits(name)
<1>1. \A name : name # "ZMQ_TYPE" => Numbers(name) = Holds(CType(name)) \cap Limits(name)
  BY DEF Numbers
<1>2. Numbers("ZMQ_TYPE") = 0..11
  BY DEF Numbers
<1>3. Numbers("ZMQ_MECHANISM") = 0..2
  <2>1. CType("ZMQ_MECHANISM") = "INT" /\ 0..2 = {0, 1, 2}
    BY DEF CType
  <2> QED BY <1>1, <2>1, LimitsOf, HoldsDefaults
<1>4. ASSUME NEW name \in Switches \cup {"server"} PROVE Numbers(name) = {0, 1}
  <2>1. CType(name) = "INT" /\ name # "ZMQ_TYPE"
    BY DEF CType, Switches
  <2>2. Numbers(name) = Holds("INT") \cap {0, 1}
    BY <1>1, <2>1, LimitsOf
  <2> QED BY <2>2, HoldsDefaults
<1> QED BY <1>1, <1>2, <1>3, <1>4

\* A number within the limits of its option that the C type holds is legal.
LEMMA LegalNumber ==
  ASSUME NEW name, ~IsText(name), name # "ZMQ_TYPE",
         NEW value \in Holds(CType(name)) \cap Limits(name)
  PROVE  Legal(name, value)
  BY NumbersOf DEF Legal

\* The kinds of values are told apart.
LEMMA Kinds ==
  /\ \A s, l, c : Text(s, l, c).kind = "text" /\ Text(s, l, c).length = l
  /\ \A n, f : Number(n, f).kind = "number" /\ Number(n, f).whole = n /\ Number(n, f).fraction = f
  /\ Error.kind = "error" /\ None.kind = "none"
  BY DEF Text, Number, Error, None

\* A fresh socket's options.
LEMMA FreshSound ==
  ASSUME NEW type \in DOMAIN socketTypeLookup, NEW ipv6 \in {0, 1}
  PROVE  Sound(Fresh(type, ipv6))
<1> DEFINE ones == {"ZMQ_SNDHWM", "ZMQ_RCVHWM", "ZMQ_RECOVERY_IVL", "ZMQ_BACKLOG",
                    "ZMQ_RECONNECT_IVL"} \cup Positive
           value(name) ==
             CASE name = "ZMQ_TYPE" -> socketTypeLookup[type]
               [] name = "ZMQ_IPV6" -> ipv6
               [] name \in ones -> 1
               [] name \in (OrInfinite \ {"ZMQ_RECONNECT_IVL"})
                          \cup {"ZMQ_MAXMSGSIZE", "ZMQ_TCP_KEEPALIVE"} -> -1
               [] name \in Keys -> Text("", 40, 0)
               [] name \in Texts -> Text("", 0, 0)
               [] OTHER -> 0
           new == Fresh(type, ipv6)
<1>1. new = [name \in OptNames |-> value(name)]
  BY Zenon DEF Fresh
<1>2. ASSUME NEW name \in OptNames PROVE Legal(name, value(name))
  <2>1. CASE name = "ZMQ_TYPE"
    <3>1. ~IsText(name) /\ value(name) = socketTypeLookup[type]
      BY <2>1 DEF IsText, Texts, Keys, OrInfinite, Positive
    <3> QED BY <2>1, <3>1, NumbersOf, TablesAgree DEF Legal
  <2>2. CASE name = "ZMQ_IPV6"
    <3>1. ~IsText(name) /\ value(name) = ipv6 /\ name \in Switches
      BY <2>2 DEF IsText, Texts, Keys, OrInfinite, Positive, Switches
    <3> QED BY <3>1, NumbersOf DEF Legal
  <2>3. CASE name \in ones
    <3>1. /\ ~IsText(name) /\ name # "ZMQ_TYPE" /\ name # "ZMQ_IPV6" /\ CType(name) = "INT"
          /\ name \in Counts \cup OrInfinite \cup Positive
      BY <2>3 DEF IsText, Texts, Keys, Positive, CType, Counts, OrInfinite
    <3>2. value(name) = 1
      BY <2>3 DEF Texts, Keys, OrInfinite, Positive
    <3> HIDE DEF value
    <3>3. value(name) \in Holds(CType(name)) \cap Limits(name)
      BY <3>1, <3>2, LimitsOf, HoldsDefaults
    <3> QED BY <3>1, <3>3, LegalNumber
  <2>4. CASE name \notin ones /\ name \in OrInfinite \cup {"ZMQ_MAXMSGSIZE", "ZMQ_TCP_KEEPALIVE"}
    <3>1. /\ ~IsText(name) /\ name # "ZMQ_TYPE" /\ name # "ZMQ_IPV6"
          /\ CType(name) \in {"INT", "INT64"}
      BY <2>4 DEF IsText, Texts, Keys, CType, OrInfinite
    <3>2. value(name) = -1
      BY <2>4 DEF Texts, Keys, OrInfinite, Positive
    <3> HIDE DEF value, ones
    <3>3. value(name) \in Holds(CType(name)) \cap Limits(name)
      BY <2>4, <3>1, <3>2, LimitsOf, HoldsDefaults
    <3> QED BY <3>1, <3>3, LegalNumber
  <2>5. CASE IsText(name)
    <3>1. /\ name \notin ones /\ name \notin OrInfinite \cup {"ZMQ_MAXMSGSIZE", "ZMQ_TCP_KEEPALIVE"}
          /\ name # "ZMQ_TYPE" /\ name # "ZMQ_IPV6"
      BY <2>5 DEF IsText, Texts, Keys, Positive, OrInfinite
    <3>2. value(name) = IF name \in Keys THEN Text("", 40, 0) ELSE Text("", 0, 0)
      BY <2>5 DEF IsText, Texts, Keys, OrInfinite, Positive
    <3>3. 0 \in KeptLengths(name) \/ name \in Keys
      BY StringMaxAssumption DEF KeptLengths
    <3>4. name \in Keys => KeptLengths(name) = {40}
      BY DEF KeptLengths, Keys
    <3> HIDE DEF value
    <3>5. CASE name \in Keys
      <4>1. value(name).kind = "text" /\ value(name).length = 40
        <5>1. value(name) = Text("", 40, 0)
          BY <3>2, <3>5
        <5>2. Text("", 40, 0).kind = "text" /\ Text("", 40, 0).length = 40
          BY DEF Text
        <5> QED BY <5>1, <5>2
      <4> QED BY <2>5, <3>4, <3>5, <4>1 DEF Legal
    <3>6. CASE name \notin Keys
      <4>1. value(name).kind = "text" /\ value(name).length = 0
        <5>1. value(name) = Text("", 0, 0)
          BY <3>2, <3>6
        <5>2. Text("", 0, 0).kind = "text" /\ Text("", 0, 0).length = 0
          BY DEF Text
        <5> QED BY <5>1, <5>2
      <4> QED BY <2>5, <3>3, <3>6, <4>1 DEF Legal
    <3> QED BY <3>5, <3>6
  <2>6. CASE /\ name # "ZMQ_TYPE" /\ name # "ZMQ_IPV6" /\ name \notin ones /\ ~IsText(name)
             /\ name \notin OrInfinite \cup {"ZMQ_MAXMSGSIZE", "ZMQ_TCP_KEEPALIVE"}
    <3>1. name \notin Positive
      BY <2>6
    <3> HIDE DEF ones
    <3>2. value(name) = 0
      BY <2>6 DEF IsText
    <3> HIDE DEF value
    <3>3. CType(name) \in {"INT", "UINT64"}
      BY <2>6 DEF CType
    <3>4. value(name) \in Holds(CType(name)) \cap Limits(name)
      BY <3>1, <3>2, <3>3, LimitsOf, HoldsDefaults
    <3> QED BY <2>6, <3>4, LegalNumber
  <2> QED BY <2>1, <2>2, <2>3, <2>4, <2>5, <2>6
<1> HIDE DEF value, new
<1>3. new = [name \in OptNames |-> new[name]] /\ \A name \in OptNames : new[name] = value(name)
  BY <1>1
<1> QED BY <1>2, <1>3 DEF Sound, new

\* A value that setsockopt.c converted and libzmq accepts.
Acceptable(name, raw) ==
    /\ name \in Rows \ ReadOnly
    /\ IF IsText(name) THEN raw.kind = "text" /\ raw.length \in Lengths(name)
       ELSE raw \in Holds(CType(name)) \cap Limits(name)

\* Several options change at once.
LEMMA SoundChange ==
  ASSUME NEW old, NEW new, Sound(old), new = [name \in OptNames |-> new[name]],
         \A name \in OptNames : new[name] = old[name] \/ Legal(name, new[name])
  PROVE  Sound(new)
  BY DEF Sound

\* The numbers that the switches and keys set along.
LEMMA SetAlong ==
  /\ \A bit \in {0, 1} : Legal("ZMQ_IPV6", bit) /\ Legal("server", bit)
  /\ \A id \in 0..2 : Legal("ZMQ_MECHANISM", id)
<1>1. ~IsText("ZMQ_IPV6") /\ ~IsText("server") /\ ~IsText("ZMQ_MECHANISM")
  BY NamesKept DEF IsText, Named
<1>2. "ZMQ_IPV6" \in Switches
  BY DEF Switches
<1> QED BY <1>1, <1>2, NumbersOf DEF Legal

\* A switch is set to 0 or 1.
LEMMA SwitchIsBit ==
  ASSUME NEW name \in Switches, NEW raw, Acceptable(name, raw)
  PROVE  raw \in {0, 1}
<1>1. ~IsText(name)
  BY NamesKept DEF IsText
<1> QED BY <1>1, LimitsOf DEF Acceptable

\* What set changes is legal again.
LEMMA KeptSound ==
  ASSUME NEW old, Sound(old), NEW name, NEW raw, Acceptable(name, raw)
  PROVE  Sound(Kept(old, name, raw))
<1> DEFINE new == Kept(old, name, raw)
<1>1. old = [n \in OptNames |-> old[n]]
  BY DEF Sound
<1>0. CASE name \in SetOnly
  <2>1. new = old
    BY <1>0 DEF Kept, SetOnly, Filters, Flags, Keys
  <2> QED BY <2>1
<1>2. CASE name = "ZMQ_IPV4ONLY"
  <2>1. new = [old EXCEPT !["ZMQ_IPV6"] = 1 - raw]
    BY <1>2, NamesKept DEF Kept, Switches
  <2>2. 1 - raw \in {0, 1}
    BY <1>2, SwitchIsBit DEF Switches
  <2>3. Legal("ZMQ_IPV6", 1 - raw)
    BY <2>2, SetAlong
  <2> HIDE DEF new
  <2>4. new = [n \in OptNames |-> new[n]] /\ \A n \in OptNames : new[n] = old[n] \/ Legal(n, new[n])
    BY <1>1, <2>1, <2>3
  <2> QED BY <2>4, SoundChange DEF new
<1>3. CASE name \in {"ZMQ_PLAIN_USERNAME", "ZMQ_PLAIN_PASSWORD"}
  <2>0. name \in Strings
    BY <1>3 DEF Strings
  <2>1. new = [old EXCEPT ![name] = raw, !["ZMQ_MECHANISM"] = 1, !["server"] = 0]
    BY <1>3, <2>0, NamesKept DEF Kept
  <2>2. /\ IsText(name) /\ Lengths(name) = 1..StringMax /\ KeptLengths(name) = 0..StringMax
    <3>1. name \notin Keys /\ name \notin Filters /\ name # "ZMQ_ZAP_DOMAIN"
          /\ name # "ZMQ_LAST_ENDPOINT"
      BY <1>3 DEF Keys, Filters
    <3> QED BY <2>0, <3>1, NamesKept DEF IsText, Lengths, KeptLengths
  <2>3. Legal(name, raw) /\ Legal("ZMQ_MECHANISM", 1) /\ Legal("server", 0)
    BY <2>2, StringMaxAssumption, SetAlong DEF Legal, Acceptable
  <2> HIDE DEF new
  <2>4. new = [n \in OptNames |-> new[n]] /\ \A n \in OptNames : new[n] = old[n] \/ Legal(n, new[n])
    BY <1>1, <2>1, <2>3
  <2> QED BY <2>4, SoundChange DEF new
<1>6. CASE name \in Keys
  <2>1. PICK role \in {0, old["server"]} :
            new = [old EXCEPT ![name] = Z85(raw), !["ZMQ_MECHANISM"] = 2, !["server"] = role]
    <3>1. name \notin SetOnly /\ name # "ZMQ_IPV4ONLY"
          /\ name \notin {"ZMQ_PLAIN_USERNAME", "ZMQ_PLAIN_PASSWORD"}
      BY <1>6, NamesKept DEF Keys
    <3> QED BY <1>6, <3>1 DEF Kept, Keys
  <2>2. Legal("server", old["server"])
    BY NamesKept DEF Sound
  <2>3. Legal("ZMQ_MECHANISM", 2) /\ Legal("server", role)
    BY <2>2, SetAlong
  <2>4. IsText(name) /\ KeptLengths(name) = {40}
    BY <1>6 DEF IsText, KeptLengths, Keys
  <2>5. Z85(raw).kind = "text" /\ Z85(raw).length = 40
    BY DEF Z85, Text
  <2>6. Legal(name, Z85(raw))
    BY <2>4, <2>5 DEF Legal
  <2> HIDE DEF new
  <2>7. new = [n \in OptNames |-> new[n]] /\ \A n \in OptNames : new[n] = old[n] \/ Legal(n, new[n])
    BY <1>1, <2>1, <2>3, <2>6
  <2> QED BY <2>7, SoundChange DEF new
<1>4. CASE name \in {"ZMQ_PLAIN_SERVER", "ZMQ_CURVE_SERVER"}
  <2>0. name \in Switches /\ name \notin Keys /\ name \notin SetOnly
    BY <1>4, NamesKept DEF Switches
  <2>1. PICK id \in {raw, 2 * raw} : new = [old EXCEPT !["server"] = raw, !["ZMQ_MECHANISM"] = id]
    BY <1>4, <2>0 DEF Kept
  <2>2. raw \in {0, 1} /\ id \in 0..2
    BY <2>0, SwitchIsBit
  <2>3. Legal("ZMQ_MECHANISM", id) /\ Legal("server", raw)
    BY <2>2, SetAlong
  <2> HIDE DEF new
  <2>4. new = [n \in OptNames |-> new[n]] /\ \A n \in OptNames : new[n] = old[n] \/ Legal(n, new[n])
    BY <1>1, <2>1, <2>3
  <2> QED BY <2>4, SoundChange DEF new
<1>5. CASE name \notin Views \cup SetOnly \cup Keys \cup {"ZMQ_PLAIN_USERNAME", "ZMQ_PLAIN_PASSWORD"}
  <2>1. new = [old EXCEPT ![name] = raw]
    BY <1>5 DEF Kept, Views
  <2>2. Legal(name, raw)
    <3>1. CASE IsText(name)
      <4>1. name \in Strings
        BY <1>5, <3>1, NamesKept DEF IsText, Acceptable, ReadOnly, Volatile, SetOnly
      <4>2. name \notin Filters /\ name # "ZMQ_LAST_ENDPOINT" /\ name \notin Keys
        BY <1>5, <4>1 DEF Strings, Filters
      <4>3. Lengths(name) \subseteq 0..StringMax /\ KeptLengths(name) = 0..StringMax
        BY <4>2, StringMaxAssumption DEF Lengths, KeptLengths
      <4> QED BY <3>1, <4>3 DEF Legal, Acceptable
    <3>2. CASE ~IsText(name)
      BY <3>2, LegalNumber DEF Acceptable, ReadOnly
    <3> QED BY <3>1, <3>2
  <2> HIDE DEF new
  <2>3. new = [n \in OptNames |-> new[n]] /\ \A n \in OptNames : new[n] = old[n] \/ Legal(n, new[n])
    BY <1>1, <2>1, <2>2
  <2> QED BY <2>3, SoundChange DEF new
<1> QED BY <1>0, <1>2, <1>3, <1>6, <1>4, <1>5 DEF Views

-----------------------------------------------------------------------------
(* TypeOK *)

\* A number that setsockopt.c or ctx_set.c converts is one of the C type.
LEMMA ScalarHolds ==
  ASSUME NEW ctype, NEW v
  PROVE  scalar_from_m(ctype, v) \subseteq Holds(ctype)
  BY CastHolds DEF scalar_from_m

\* How values of the options of a socket are converted.
LEMMA Converted ==
  ASSUME NEW name \in Rows \ Named, NEW v
  PROVE  /\ IsText(name) =>
                from_m(sockOptLookup[name], v) = str_from_m(v) /\ optLen(name, v) = v.length
         /\ ~IsText(name) =>
                /\ from_m(sockOptLookup[name], v) = scalar_from_m(CType(name), v)
                /\ optLen(name, v) = Width(name)
<1>1. CASE IsText(name)
  <2>1. sockOptLookup[name] \in {"STRING", "KEY"}
    BY <1>1, TableTypes DEF IsText
  <2>2. from_m(sockOptLookup[name], v) = str_from_m(v)
    BY <2>1 DEF from_m
  <2> QED BY <1>1, <2>1, <2>2 DEF optLen
<1>2. CASE ~IsText(name)
  <2>1. sockOptLookup[name] = CType(name) /\ CType(name) \in {"INT", "INT64", "UINT64"}
    BY <1>2, TableTypes
  <2>2. from_m(sockOptLookup[name], v) = scalar_from_m(CType(name), v)
    BY <2>1 DEF from_m
  <2>3. /\ sockOptTypeLookup["INT"] = IntBits /\ sockOptTypeLookup["INT64"] = WideBits
        /\ sockOptTypeLookup["UINT64"] = WideBits
    BY DEF sockOptTypeLookup
  <2>4. optLen(name, v) = Width(name)
    BY <2>1, <2>3 DEF optLen, Width
  <2> QED BY <1>2, <2>2, <2>4
<1> QED BY <1>1, <1>2

\* What passes the conversion and libzmq's own test is a value libzmq may keep.
LEMMA AcceptedIsAcceptable ==
  ASSUME NEW name \in Rows, NEW v,
         NEW raw \in from_m(sockOptLookup[name], v), Accepts(name, raw, optLen(name, v))
  PROVE  Acceptable(name, raw)
<1>1. name \in Rows \ ReadOnly /\ name \in Rows \ Named
  BY DEF Accepts, ReadOnly, Named
<1>2. CASE IsText(name)
  <2>1. v.kind = "text" /\ raw = v
    <3>1. raw \in str_from_m(v)
      BY <1>1, <1>2, Converted
    <3> QED BY <3>1 DEF str_from_m
  <2>2. raw.length \in Lengths(name)
    BY <1>1, <1>2, <2>1, Converted DEF Accepts
  <2> QED BY <1>1, <1>2, <2>1, <2>2 DEF Acceptable
<1>3. CASE ~IsText(name)
  <2>1. raw \in Holds(CType(name))
    BY <1>1, <1>3, Converted, ScalarHolds
  <2> QED BY <1>1, <1>3, <2>1 DEF Acceptable, Accepts
<1> QED BY <1>2, <1>3

\* The first context and socket.
LEMMA InitType == Init => TypeOK
<1> SUFFICES ASSUME Init PROVE TypeOK
  OBVIOUS
<1>1. opt = Fresh("ZMQ_PAIR", 0) /\ alive = FALSE /\ sets = 0
  BY DEF Init
<1>2. "ZMQ_PAIR" \in DOMAIN socketTypeLookup
  BY DEF socketTypeLookup
<1>3. Sound(opt)
  BY <1>1, <1>2, FreshSound
<1>4. ctx \in [CtxNames -> Holds("INT") \cap Nat] /\ ctx["ZMQ_IPV6"] \in {0, 1}
  BY HoldsDefaults DEF Init, CtxNames
<1>5. asked = [name \in Names |-> asked[name]] /\ ctxAsked = [name \in CtxNames |-> ctxAsked[name]]
  BY DEF Init
<1>6. alive \in BOOLEAN
  BY Zenon DEF Init
<1>7. sets \in 0..MaxSets
  BY <1>1, MaxSetsAssumption
<1>8. /\ opt = [name \in OptNames |-> opt[name]]
      /\ \A name \in OptNames : Legal(name, opt[name])
  BY <1>3 DEF Sound
<1> QED BY <1>4, <1>5, <1>6, <1>7, <1>8 DEF TypeOK

\* The context hands on its IPV6, which is a switch.
LEMMA ConstructType ==
  ASSUME TypeOK, NEW type \in Types, Construct(type)
  PROVE  TypeOK'
<1>1. opt' = Fresh(type, ctx["ZMQ_IPV6"]) /\ alive' = TRUE /\ UNCHANGED <<ctx, ctxAsked, sets>>
  BY DEF Construct
<1>2. Sound(opt)'
  <2>1. Sound(Fresh(type, ctx["ZMQ_IPV6"]))
    BY TypesAssumption, FreshSound DEF TypeOK
  <2> QED BY <1>1, <2>1 DEF Sound
<1>3. asked' = [name \in Names |-> asked'[name]]
  <2> DEFINE value(name) ==
        CASE name = "ZMQ_TYPE" -> Text(type, 0, 0)
          [] name = "ZMQ_IPV6" -> Number(ctx["ZMQ_IPV6"], FALSE)
          [] OTHER             -> None
  <2>1. asked' = [name \in Names |-> value(name)]
    BY Zenon DEF Construct
  <2> HIDE DEF value
  <2> QED BY <2>1
<1>4. opt' = [name \in OptNames |-> opt'[name]] /\ \A name \in OptNames : Legal(name, opt'[name])
  BY <1>2 DEF Sound
<1>5. alive' \in BOOLEAN
  BY Zenon, <1>1
<1> QED BY <1>1, <1>3, <1>4, <1>5 DEF TypeOK

\* What a socket reports of itself is a value of the option's own type.
LEMMA TrafficType ==
  ASSUME TypeOK, Traffic
  PROVE  TypeOK'
<1>1. PICK name \in Names \cap Volatile :
      \E raw \in IF IsText(name) THEN {v \in Values : v.kind = "text"} ELSE Numbers(name) :
          opt' = [opt EXCEPT ![name] = raw]
  BY DEF Traffic
<1>2. PICK raw \in IF IsText(name) THEN {v \in Values : v.kind = "text"} ELSE Numbers(name) :
          opt' = [opt EXCEPT ![name] = raw]
  BY <1>1
<1>3. Legal(name, raw)
  <2>1. CASE IsText(name)
    <3>1. raw \in Values /\ raw.kind = "text"
      BY <1>2, <2>1
    <3>2. raw.length \in Nat
      BY <3>1, ValuesAssumption
    <3>3. name = "ZMQ_LAST_ENDPOINT" /\ name \notin Keys
      BY <1>1, <2>1 DEF IsText, Volatile, Texts, Keys
    <3>4. KeptLengths(name) = Nat
      BY <3>3 DEF KeptLengths
    <3> QED BY <2>1, <3>1, <3>2, <3>4 DEF Legal
  <2>2. CASE ~IsText(name)
    BY <1>2, <2>2 DEF Legal
  <2> QED BY <2>1, <2>2
<1>4. opt' = [n \in OptNames |-> opt'[n]] /\ \A n \in OptNames : Legal(n, opt'[n])
  BY <1>2, <1>3 DEF TypeOK
<1> QED BY <1>4 DEF Traffic, TypeOK

\* A value that is set is one of the C type, a text one that fits the buffer.
LEMMA SetType ==
  ASSUME TypeOK, NEW name \in Names, NEW v \in Values, Set(name, v)
  PROVE  TypeOK'
<1>1. PICK raw \in from_m(sockOptLookup[name], v) :
          Accepts(name, raw, optLen(name, v)) /\ opt' = Kept(opt, name, raw)
  BY DEF Set
<1>2. Sound(opt)'
  <2>1. Acceptable(name, raw)
    BY <1>1, AcceptedIsAcceptable DEF Set
  <2>2. Sound(Kept(opt, name, raw))
    BY <2>1, TypeIsSound, KeptSound
  <2> QED BY <1>1, <2>2 DEF Sound
<1>3. asked' = [n \in Names |-> asked'[n]]
  <2> DEFINE value(n) == IF n = name THEN v ELSE IF n \in Related(name) THEN None ELSE asked[n]
  <2>1. asked' = [n \in Names |-> value(n)]
    BY Zenon DEF Set
  <2> HIDE DEF value
  <2> QED BY <2>1
<1>4. sets' \in 0..MaxSets /\ UNCHANGED <<alive, ctx, ctxAsked>>
  BY MaxSetsAssumption DEF Set, TypeOK
<1>5. opt' = [n \in OptNames |-> opt'[n]] /\ \A n \in OptNames : Legal(n, opt'[n])
  BY <1>2 DEF Sound
<1> QED BY <1>3, <1>4, <1>5 DEF TypeOK

\* So it is with the context.
LEMMA CtxSetType ==
  ASSUME TypeOK, NEW name \in CtxNames, NEW v \in Values, CtxSet(name, v)
  PROVE  TypeOK'
<1>1. PICK raw \in scalar_from_m("INT", v) :
          /\ CtxAccepts(name, raw)
          /\ ctx' = [ctx EXCEPT ![name] = IF name = "ZMQ_IPV6" /\ raw > 0 THEN 1 ELSE raw]
  BY DEF CtxSet
<1>2. raw \in Holds("INT") \cap Nat
  <2>1. raw \in Holds("INT") /\ raw \in Int
    BY ScalarHolds, HoldsDefaults
  <2>2. raw >= 0
    BY <1>1, <2>1 DEF CtxAccepts
  <2> QED BY <2>1, <2>2
<1>3. ctx' \in [CtxNames -> Holds("INT") \cap Nat] /\ ctx'["ZMQ_IPV6"] \in {0, 1}
  <2>1. 1 \in Holds("INT") \cap Nat
    BY HoldsDefaults
  <2>2. name = "ZMQ_IPV6" => (IF raw > 0 THEN 1 ELSE raw) \in {0, 1}
    BY <1>2
  <2> QED BY <1>1, <1>2, <2>1, <2>2 DEF TypeOK, CtxNames
<1>4. ctxAsked' = [n \in CtxNames |-> ctxAsked'[n]]
  BY DEF CtxSet, TypeOK
<1>5. sets' \in 0..MaxSets /\ opt' = opt /\ UNCHANGED <<alive, asked>>
  BY MaxSetsAssumption DEF CtxSet, TypeOK
<1> QED BY <1>3, <1>4, <1>5 DEF TypeOK

\* Every step keeps the types.
LEMMA NextType == TypeOK /\ [Next]_vars => TypeOK'
<1> SUFFICES ASSUME TypeOK, [Next]_vars PROVE TypeOK'
  OBVIOUS
<1>1. CASE \E type \in Types : Construct(type)
  BY <1>1, ConstructType
<1>2. CASE Close
  BY <1>2 DEF Close, TypeOK
<1>3. CASE \E name \in Names, v \in Values : Set(name, v)
  BY <1>3, SetType
<1>4. CASE \E name \in CtxNames, v \in Values : CtxSet(name, v)
  BY <1>4, CtxSetType
<1>5. CASE Traffic
  BY <1>5, TrafficType
<1>6. CASE UNCHANGED vars
  BY <1>6 DEF vars, TypeOK
<1> QED BY <1>1, <1>2, <1>3, <1>4, <1>5, <1>6 DEF Next

\* Whatever users pass, libzmq keeps values of the options' own types within their limits.
THEOREM TypeCorrect == Spec => []TypeOK
  BY InitType, NextType, PTL DEF Spec

-----------------------------------------------------------------------------
(* What get answers *)

\* No value is an exception.
LEMMA ValuesAreNoError ==
  /\ \A n, f : Number(n, f) # Error
  /\ \A s, l, c : Text(s, l, c) # Error
  /\ \A v : v.kind = "text" => v # Error
<1>1. Error.kind = "error"
  BY Kinds
<1>2. ASSUME NEW n, NEW f PROVE Number(n, f) # Error
  <2>1. Number(n, f).kind = "number"
    BY Kinds
  <2> QED BY <1>1, <2>1
<1>3. ASSUME NEW s, NEW l, NEW c PROVE Text(s, l, c) # Error
  <2>1. Text(s, l, c).kind = "text"
    BY Kinds
  <2> QED BY <1>1, <2>1
<1> QED BY <1>1, <1>2, <1>3

\* What libzmq shows of an option is a value libzmq may keep of it, the views included.
LEMMA SeenSound ==
  ASSUME NEW options, Sound(options), NEW name \in Rows \ SetOnly
  PROVE  /\ IsText(name) =>
                /\ Seen(options, name) = options[name] /\ name \in OptNames
                /\ Seen(options, name).kind = "text"
                /\ Seen(options, name).length \in KeptLengths(name)
         /\ ~IsText(name) => Seen(options, name) \in Numbers(name)
<1>1. CASE name \in Views
  <2>1. options["ZMQ_IPV6"] \in {0, 1} /\ options["server"] \in {0, 1}
    <3>1. ~IsText("ZMQ_IPV6") /\ ~IsText("server") /\ {"ZMQ_IPV6", "server"} \subseteq OptNames
      BY NamesKept DEF IsText
    <3>2. "ZMQ_IPV6" \in Switches
      BY DEF Switches
    <3> QED BY <3>1, <3>2, NumbersOf DEF Sound, Legal
  <2>2. Seen(options, name) \in {0, 1}
    BY <1>1, <2>1 DEF Seen, Views
  <2>3. ~IsText(name) /\ Numbers(name) = {0, 1}
    BY <1>1, NamesKept, NumbersOf DEF IsText
  <2> QED BY <2>2, <2>3
<1>2. CASE name \notin Views
  <2>1. name \in OptNames /\ Seen(options, name) = options[name]
    BY <1>2, NamesKept DEF Seen, Views
  <2>2. Legal(name, Seen(options, name))
    BY <2>1 DEF Sound
  <2> QED BY <2>1, <2>2 DEF Legal
<1> QED BY <1>1, <1>2

\* The buffer of getsockopt.c is as wide as the option, text, key or number.
LEMMA BufferFits ==
  ASSUME NEW name \in Rows
  PROVE  /\ name \in Keys => sockOptTypeLookup[sockOptLookup[name]] = 41
         /\ name \in Texts => sockOptTypeLookup[sockOptLookup[name]] = StringMax
         /\ ~IsText(name) => sockOptTypeLookup[sockOptLookup[name]] = Width(name)
<1>1. /\ sockOptTypeLookup["INT"] = IntBits /\ sockOptTypeLookup["INT64"] = WideBits
      /\ sockOptTypeLookup["UINT64"] = WideBits /\ sockOptTypeLookup["STRING"] = StringMax
      /\ sockOptTypeLookup["SOCKTYPE"] = IntBits /\ sockOptTypeLookup["MECHANISM"] = IntBits
      /\ sockOptTypeLookup["KEY"] = 41
  BY DEF sockOptTypeLookup
<1>2. name \in Keys => sockOptTypeLookup[sockOptLookup[name]] = 41
  BY <1>1, TableTypes
<1>3. name \in Texts => sockOptTypeLookup[sockOptLookup[name]] = StringMax
  BY <1>1, TableTypes
<1>4. CASE name \in Named
  <2>1. CType(name) = "INT"
    BY <1>4 DEF CType, Named
  <2> QED BY <1>1, <1>2, <1>3, <1>4, <2>1, TableTypes DEF Width, Named
<1>5. CASE name \notin Named
  BY <1>1, <1>2, <1>3, <1>5, TableTypes DEF Width
<1> QED BY <1>4, <1>5

\* What getsockopt.c makes of what libzmq shows: a number, a text, never an error.
LEMMA ShownOf ==
  ASSUME NEW options, Sound(options), NEW name \in Rows \ SetOnly
  PROVE  LET raw == Seen(options, name)
         IN  /\ ~IsText(name) /\ name \notin Named => Shown(name, raw) = {Number(raw, FALSE)}
             /\ IsText(name) /\ name # "ZMQ_IDENTITY" => Shown(name, raw) = {raw}
             /\ Error \notin Shown(name, raw)
<1> DEFINE raw == Seen(options, name)
<1>1. CASE ~IsText(name) /\ name \notin Named
  <2>1. sockOptLookup[name] \in {"INT", "INT64", "UINT64"}
    BY <1>1, TableTypes
  <2>2. to_m(sockOptLookup[name], raw) = Number(raw, FALSE)
    BY <2>1 DEF to_m
  <2>3. name # "ZMQ_IDENTITY"
    BY <1>1 DEF IsText, Texts
  <2> HIDE DEF raw
  <2>4. Shown(name, raw) = {Number(raw, FALSE)}
    BY <2>2, <2>3 DEF Shown
  <2>5. Number(raw, FALSE) # Error
    BY Zenon, ValuesAreNoError
  <2> QED BY <1>1, <2>4, <2>5 DEF raw
<1>2. CASE IsText(name)
  <2>1. sockOptLookup[name] \in {"STRING", "KEY"} /\ raw.kind = "text"
    BY <1>2, TableTypes, SeenSound DEF IsText
  <2> HIDE DEF raw
  <2>2. raw # Error
    BY Zenon, <2>1, ValuesAreNoError
  <2>3. CASE name = "ZMQ_IDENTITY"
    <3>1. \A junk \in 0..1 : Text(raw.says, raw.length + junk, raw.code) # Error
      BY Zenon, ValuesAreNoError
    <3>2. Shown(name, raw) = {Text(raw.says, raw.length + junk, raw.code) : junk \in 0..1}
      BY <2>3 DEF Shown
    <3> QED BY <1>2, <2>3, <3>1, <3>2 DEF raw
  <2>4. CASE name # "ZMQ_IDENTITY"
    <3>1. Shown(name, raw) = {raw}
      BY <2>1, <2>4 DEF Shown, to_m
    <3> QED BY <1>2, <2>2, <3>1 DEF raw
  <2> QED BY <2>3, <2>4
<1>3. CASE name \in Named
  <2>0. ~IsText(name) /\ raw \in Numbers(name)
    BY <1>3, NamesKept, SeenSound DEF IsText
  <2>1. PICK table \in {socketTypeLookup, sockOptMechanismLookup} :
          /\ Shown(name, raw) = {id_to_m(table, raw)}
          /\ \E id \in DOMAIN table : table[id] = raw
    <3>1. CASE name = "ZMQ_TYPE"
      BY <2>0, <3>1, TableTypes, TablesAgree, NumbersOf DEF Shown, to_m
    <3>2. CASE name = "ZMQ_MECHANISM"
      BY <2>0, <3>2, TableTypes, TablesAgree, NumbersOf DEF Shown, to_m
    <3> QED BY <1>3, <3>1, <3>2 DEF Named
  <2> HIDE DEF raw
  <2>2. id_to_m(table, raw) # Error
    <3>1. id_to_m(table, raw) = Text(CHOOSE id \in DOMAIN table : table[id] = raw, 0, 0)
      BY <2>1 DEF id_to_m
    <3> QED BY Zenon, <3>1, ValuesAreNoError
  <2> QED BY <1>3, <2>0, <2>1, <2>2 DEF raw
<1> QED BY <1>1, <1>2, <1>3

\* The options whose text may fill the buffer, and when it does.
Full(name) ==
    /\ name \in (Strings \ {"ZMQ_IDENTITY"}) \cup {"ZMQ_LAST_ENDPOINT"}
    /\ Seen(opt, name).length >= StringMax

\* get answers but for set-only options and for texts without room for a terminator.
LEMMA AnswersUnlessFull ==
  ASSUME TypeOK, NEW name \in Rows, alive
  PROVE  Get(name) = IF name \in SetOnly \/ Full(name) THEN {Error} ELSE Shown(name, Seen(opt, name))
<1> DEFINE raw == Seen(opt, name)
           max == sockOptTypeLookup[sockOptLookup[name]]
<1>1. Sound(opt)
  BY TypeIsSound
<1>2. Get(name) = IF name \notin SetOnly /\ Fits(name, raw, max) THEN Shown(name, raw) ELSE {Error}
  BY DEF Get
<1> SUFFICES ASSUME name \notin SetOnly
             PROVE  Fits(name, raw, max) <=> ~Full(name)
  BY <1>2
<1>3. CASE ~IsText(name)
  <2>1. max = Width(name) /\ name \notin Keys
    BY <1>3, BufferFits DEF IsText
  <2>2. ~Full(name)
    BY <1>3, NamesKept DEF Full, IsText
  <2> QED BY <1>3, <2>1, <2>2 DEF Fits
<1>4. CASE name \in Keys
  <2>1. ~Full(name)
    BY <1>4 DEF Full, Keys, Strings
  <2> QED BY <1>4, <2>1, BufferFits DEF Fits
<1>5. CASE name \in Texts
  <2>1. name \in Strings \cup {"ZMQ_LAST_ENDPOINT"} /\ name \notin Keys /\ IsText(name)
    BY <1>5, NamesKept DEF IsText, SetOnly
  <2>2. raw.length \in KeptLengths(name)
    BY <1>1, <2>1, SeenSound
  <2>3. max = StringMax /\ StringMax \in Nat
    BY <1>5, BufferFits, StringMaxAssumption
  <2>4. KeptLengths(name) = IF name = "ZMQ_LAST_ENDPOINT" THEN Nat ELSE 0..StringMax
    BY <2>1 DEF KeptLengths
  <2> HIDE DEF raw, max
  <2>5. raw.length \in Nat /\ (name = "ZMQ_IDENTITY" => raw.length <= StringMax)
    BY <2>2, <2>3, <2>4
  <2>6. CASE name = "ZMQ_IDENTITY"
    BY <2>1, <2>3, <2>5, <2>6 DEF Fits, Full
  <2>7. CASE name # "ZMQ_IDENTITY"
    <3>1. Full(name) <=> raw.length >= StringMax
      BY <2>1, <2>7 DEF Full, raw
    <3>2. Fits(name, raw, max) <=> raw.length + 1 <= StringMax
      BY <2>1, <2>3, <2>7 DEF Fits
    <3> QED BY <2>3, <2>5, <3>1, <3>2
  <2> QED BY <2>6, <2>7
<1> QED BY <1>3, <1>4, <1>5 DEF IsText

\* On an open socket get fails for the set-only options of the table, always, and for a text
\* that leaves no room for a terminator, and for nothing else of the whole table: for any
\* widths, as the table's widths are those libzmq expects, and each number libzmq may keep of
\* a type or a mechanism has its row.
THEOREM GettersFailExactly == Spec => []GettersAnswer
<1>1. TypeOK => GettersAnswer
  <2> SUFFICES ASSUME TypeOK, NEW name \in Names \cap Rows, alive
               PROVE  Error \in Get(name) <=> name \in SetOnly \/ Full(name)
    BY DEF GettersAnswer, Full
  <2>1. CASE name \in SetOnly \/ Full(name)
    BY <2>1, AnswersUnlessFull
  <2>2. CASE name \notin SetOnly /\ ~Full(name)
    <3>1. Get(name) = Shown(name, Seen(opt, name))
      BY <2>2, AnswersUnlessFull
    <3>2. Error \notin Shown(name, Seen(opt, name))
      BY <2>2, ShownOf, TypeIsSound
    <3> QED BY <2>2, <3>1, <3>2
  <2> QED BY <2>1, <2>2
<1> QED BY <1>1, TypeCorrect, PTL

-----------------------------------------------------------------------------
(* Saving and restoring *)

\* A number that a double and the C type hold converts to itself.
LEMMA NumberConverts ==
  ASSUME NEW name \in Rows \ Named, ~IsText(name),
         NEW n \in Holds(CType(name)), Double(n) = n, NEW f
  PROVE  from_m(sockOptLookup[name], Number(n, f)) = {n}
<1>1. Number(n, f).kind = "number" /\ Number(n, f).whole = n
  BY Zenon, Kinds
<1>2. scalar_from_m(CType(name), Number(n, f)) = Cast(CType(name), Double(n))
  BY <1>1 DEF scalar_from_m
<1>3. Cast(CType(name), Double(n)) = {n}
  BY CastHolds
<1> QED BY <1>2, <1>3, Converted

\* The options that stand alone are numbers that can be set and got.
LEMMA AloneIs ==
  ASSUME NEW name \in Alone
  PROVE  name \in Rows \ (SetOnly \cup ReadOnly \cup Named) /\ ~IsText(name)
<1>1. name \in Rows
  BY DEF Alone, OrInfinite, Counts, Positive, Rows, Ints
<1>2. name \notin SetOnly \cup ReadOnly \cup Named /\ ~IsText(name)
  BY DEF Alone, OrInfinite, Counts, Positive, SetOnly, Filters, Flags, ReadOnly, Volatile, Named,
         IsText, Texts, Keys
<1> QED BY <1>1, <1>2

\* To set an option that stands alone to what it is changes nothing.
LEMMA KeptAsSeen ==
  ASSUME NEW options, Sound(options), NEW name \in Alone
  PROVE  Kept(options, name, Seen(options, name)) = options
<1>1. options = [n \in OptNames |-> options[n]]
  BY DEF Sound
<1>2. name \notin SetOnly \cup Keys
  BY AloneIs DEF IsText
<1>3. name \notin {"ZMQ_PLAIN_USERNAME", "ZMQ_PLAIN_PASSWORD", "ZMQ_PLAIN_SERVER", "ZMQ_CURVE_SERVER"}
  BY DEF Alone, OrInfinite, Counts, Positive
<1>4. CASE name = "ZMQ_IPV4ONLY"
  <2>1. options["ZMQ_IPV6"] \in {0, 1}
    <3>1. ~IsText("ZMQ_IPV6") /\ "ZMQ_IPV6" \in OptNames /\ "ZMQ_IPV6" \in Switches
      BY NamesKept DEF IsText, Switches
    <3> QED BY <3>1, NumbersOf DEF Sound, Legal
  <2>2. 1 - Seen(options, name) = options["ZMQ_IPV6"]
    BY <1>4, <2>1 DEF Seen
  <2>3. Kept(options, name, Seen(options, name)) = [options EXCEPT !["ZMQ_IPV6"] = options["ZMQ_IPV6"]]
    BY <1>2, <1>3, <1>4, <2>2 DEF Kept
  <2> QED BY <1>1, <2>3
<1>5. CASE name # "ZMQ_IPV4ONLY"
  <2>1. Seen(options, name) = options[name]
    BY <1>3, <1>5 DEF Seen
  <2>2. Kept(options, name, Seen(options, name)) = [options EXCEPT ![name] = options[name]]
    BY <1>2, <1>3, <1>5, <2>1 DEF Kept
  <2> QED BY <1>1, <2>2
<1> QED BY <1>4, <1>5

\* What get answers for a numeric option that stands alone is accepted by set and changes
\* nothing, whatever was set before, if a double holds it: as libzmq keeps values of the
\* option's own type only, which the cast of the same type leaves as they are.
THEOREM SavedIsRestored == Spec => []RestoredAsSaved
<1>1. TypeOK => RestoredAsSaved
  <2> DEFINE raw(name) == Seen(opt, name)
  <2> SUFFICES ASSUME TypeOK, NEW name \in Names \cap Alone, alive, Double(raw(name)) = raw(name),
                      NEW v \in Get(name)
               PROVE  /\ v # Error /\ ~Refused(name, v)
                      /\ \A new \in from_m(sockOptLookup[name], v) : Kept(opt, name, new) = opt
    BY DEF RestoredAsSaved
  <2>1. name \in Rows \ (SetOnly \cup ReadOnly \cup Named) /\ ~IsText(name) /\ Sound(opt)
    BY AloneIs, TypeIsSound
  <2>2. v = Number(raw(name), FALSE)
    <3>1. Get(name) = Shown(name, raw(name))
      <4>1. ~Full(name)
        BY <2>1, NamesKept DEF Full, IsText
      <4> QED BY <2>1, <4>1, AnswersUnlessFull
    <3>2. Shown(name, raw(name)) = {Number(raw(name), FALSE)}
      BY <2>1, ShownOf
    <3> QED BY <3>1, <3>2
  <2>3. raw(name) \in Holds(CType(name)) \cap Limits(name)
    <3>1. raw(name) \in Numbers(name) /\ name # "ZMQ_TYPE"
      BY <2>1, SeenSound DEF Named
    <3> QED BY <3>1, NumbersOf
  <2>4. from_m(sockOptLookup[name], v) = {raw(name)}
    BY <2>1, <2>2, <2>3, NumberConverts
  <2>5. Accepts(name, raw(name), optLen(name, v))
    <3>1. optLen(name, v) = Width(name)
      BY <2>1, Converted
    <3> QED BY <2>1, <2>3, <3>1 DEF Accepts
  <2>6. Kept(opt, name, raw(name)) = opt
    BY <2>1, KeptAsSeen
  <2>7. v # Error
    BY Zenon, <2>2, ValuesAreNoError
  <2>8. ~Refused(name, v)
    BY <2>1, <2>4, <2>5 DEF Refused
  <2> QED BY <2>4, <2>6, <2>7, <2>8
<1> QED BY <1>1, TypeCorrect, PTL

-----------------------------------------------------------------------------
(* What was set is what get answers *)

\* The inductive invariant: of each option whose value is known, libzmq keeps what get makes
\* that value of.  It says so of closed sockets too, and of texts that get has no room for.
Returns ==
    /\ \A name \in Names \ (SetOnly \cup {"ZMQ_IDENTITY"}) :
           asked[name] # None /\ Exact(name, asked[name]) =>
               Shown(name, Seen(opt, name)) = {asked[name]}
    /\ \A name \in Names : asked[name] # None => name \in Rows \ (Volatile \cup {"ZMQ_MECHANISM"})
    /\ \A name \in CtxNames :
           /\ ctxAsked[name] # None /\ Exact(name, ctxAsked[name])
           /\ name = "ZMQ_IPV6" => ctxAsked[name].whole \in {0, 1}
           => CtxGet(name) = ctxAsked[name]

\* An option that is set is seen as what it was set to, a key in Z85.
LEMMA SeenAsSet ==
  ASSUME NEW old, Sound(old), NEW name \in Rows \ SetOnly, NEW raw, Acceptable(name, raw)
  PROVE  Seen(Kept(old, name, raw), name) = IF name \in Keys THEN Z85(raw) ELSE raw
<1> DEFINE new == Kept(old, name, raw)
<1>1. old = [n \in OptNames |-> old[n]] /\ {"ZMQ_IPV6", "ZMQ_MECHANISM", "server"} \subseteq OptNames
  BY NamesKept DEF Sound, Named
<1>2. CASE name = "ZMQ_IPV4ONLY"
  <2>1. new = [old EXCEPT !["ZMQ_IPV6"] = 1 - raw]
    BY <1>2, NamesKept DEF Kept, Switches
  <2>2. raw \in {0, 1} /\ name \notin Keys
    BY <1>2, SwitchIsBit DEF Switches, Keys
  <2> HIDE DEF new
  <2>3. new["ZMQ_IPV6"] = 1 - raw
    BY <1>1, <2>1
  <2> QED BY <1>2, <2>2, <2>3 DEF Seen, new
<1>3. CASE name \in {"ZMQ_PLAIN_SERVER", "ZMQ_CURVE_SERVER"}
  <2>1. PICK id : /\ id = IF name = "ZMQ_PLAIN_SERVER" THEN raw ELSE 2 * raw
                  /\ new = [old EXCEPT !["server"] = raw, !["ZMQ_MECHANISM"] = id]
    BY <1>3 DEF Kept, Keys
  <2>2. raw \in {0, 1} /\ name \notin Keys
    BY <1>3, SwitchIsBit DEF Switches, Keys
  <2> HIDE DEF new
  <2>3. new["server"] = raw /\ new["ZMQ_MECHANISM"] = id
    BY <1>1, <2>1
  <2> QED BY <1>3, <2>1, <2>2, <2>3 DEF Seen, new
<1>4. CASE name \in {"ZMQ_PLAIN_USERNAME", "ZMQ_PLAIN_PASSWORD"}
  <2>1. /\ new = [old EXCEPT ![name] = raw, !["ZMQ_MECHANISM"] = 1, !["server"] = 0]
        /\ name \notin Keys /\ name \in OptNames
    BY <1>4, NamesKept DEF Kept, Keys, Views
  <2> HIDE DEF new
  <2>2. new[name] = raw
    BY <1>1, <1>4, <2>1
  <2> QED BY <1>4, <2>1, <2>2 DEF Seen, new
<1>5. CASE name \in Keys
  <2>1. name \in OptNames \ {"ZMQ_MECHANISM", "server"}
    BY <1>5, NamesKept DEF Keys, Views
  <2>2. PICK role : new = [old EXCEPT ![name] = Z85(raw), !["ZMQ_MECHANISM"] = 2, !["server"] = role]
    BY <1>5 DEF Kept, Keys
  <2> HIDE DEF new
  <2>3. new[name] = Z85(raw)
    BY <1>1, <2>1, <2>2
  <2> QED BY <1>5, <2>3 DEF Seen, new, Keys
<1>6. CASE name \notin Views \cup Keys \cup {"ZMQ_PLAIN_USERNAME", "ZMQ_PLAIN_PASSWORD"}
  <2>1. new = [old EXCEPT ![name] = raw] /\ name \in OptNames
    BY <1>6, NamesKept DEF Kept, Views
  <2> HIDE DEF new
  <2>2. new[name] = raw
    BY <1>1, <2>1
  <2> QED BY <1>6, <2>2 DEF Seen, new, Views
<1> QED BY <1>2, <1>3, <1>4, <1>5, <1>6 DEF Views

\* What is seen of an option depends on that one, on IPV6 and on the mechanism.
LEMMA SeenAlike ==
  ASSUME NEW old, NEW new, NEW n \in Rows \ (SetOnly \cup {"ZMQ_MECHANISM"}),
         n \notin Views => new[n] = old[n],
         n = "ZMQ_IPV4ONLY" => new["ZMQ_IPV6"] = old["ZMQ_IPV6"],
         n \in {"ZMQ_PLAIN_SERVER", "ZMQ_CURVE_SERVER"} =>
             new["ZMQ_MECHANISM"] = old["ZMQ_MECHANISM"] /\ new["server"] = old["server"]
  PROVE  Seen(new, n) = Seen(old, n)
  BY DEF Seen, Views

\* Setting an option changes what is seen of that one and of those related to it only.
LEMMA SeenAsBefore ==
  ASSUME NEW old, Sound(old), NEW name, NEW raw, Acceptable(name, raw),
         NEW n \in Rows \ (SetOnly \cup {"ZMQ_MECHANISM"}), n # name, n \notin Related(name)
  PROVE  Seen(Kept(old, name, raw), n) = Seen(old, n)
<1> DEFINE new == Kept(old, name, raw)
           servers == {"ZMQ_PLAIN_SERVER", "ZMQ_CURVE_SERVER"}
<1>1. old = [m \in OptNames |-> old[m]]
  BY DEF Sound
<1>2. /\ {"ZMQ_IPV6", "ZMQ_MECHANISM", "server"} \subseteq OptNames
      /\ n \notin Views => n \in OptNames
      /\ n # "server"
  BY NamesKept DEF Named
<1>3. CASE name \in SetOnly
  <2>1. new = old
    BY <1>3 DEF Kept, SetOnly, Filters, Flags, Keys
  <2> QED BY <2>1
<1>4. CASE name = "ZMQ_IPV4ONLY"
  <2>1. n \notin {"ZMQ_IPV6", "ZMQ_IPV4ONLY"}
    BY <1>4 DEF Related, Keys
  <2>2. new = [old EXCEPT !["ZMQ_IPV6"] = 1 - raw]
    BY <1>4, NamesKept DEF Kept, Switches
  <2> HIDE DEF new
  <2>3. \A m \in OptNames : m # "ZMQ_IPV6" => new[m] = old[m]
    BY <1>1, <2>2
  <2> QED BY <1>2, <2>1, <2>3, SeenAlike DEF new
<1>5. CASE name \in Keys \cup servers \cup {"ZMQ_PLAIN_USERNAME", "ZMQ_PLAIN_PASSWORD"}
  <2>1. n \notin servers
    BY <1>5 DEF Related, Keys
  <2>2. ASSUME NEW m \in OptNames \ {name, "ZMQ_MECHANISM", "server"} PROVE new[m] = old[m]
    <3>1. CASE name \in Keys
      <4>1. PICK role : new = [old EXCEPT ![name] = Z85(raw), !["ZMQ_MECHANISM"] = 2, !["server"] = role]
        BY <3>1 DEF Kept, Keys, SetOnly, Filters, Flags
      <4> HIDE DEF new
      <4> QED BY <1>1, <2>2, <4>1
    <3>2. CASE name \in servers
      <4>1. PICK id : new = [old EXCEPT !["server"] = raw, !["ZMQ_MECHANISM"] = id]
        BY <3>2 DEF Kept, Keys, SetOnly, Filters, Flags
      <4> HIDE DEF new
      <4> QED BY <1>1, <2>2, <4>1
    <3>3. CASE name \in {"ZMQ_PLAIN_USERNAME", "ZMQ_PLAIN_PASSWORD"}
      <4>1. new = [old EXCEPT ![name] = raw, !["ZMQ_MECHANISM"] = 1, !["server"] = 0]
        BY <3>3 DEF Kept, Keys, SetOnly, Filters, Flags
      <4> HIDE DEF new
      <4> QED BY <1>1, <2>2, <4>1
    <3> QED BY <1>5, <3>1, <3>2, <3>3
  <2>3. n # "ZMQ_IPV4ONLY" \/ new["ZMQ_IPV6"] = old["ZMQ_IPV6"]
    <3>1. "ZMQ_IPV6" \in OptNames \ {name, "ZMQ_MECHANISM", "server"}
      BY <1>2, <1>5 DEF Keys
    <3> QED BY <2>2, <3>1
  <2>4. n \notin Views => new[n] = old[n]
    BY <1>2, <2>2
  <2> HIDE DEF new
  <2> QED BY <2>1, <2>3, <2>4, SeenAlike DEF new
<1>6. CASE name \notin SetOnly \cup Views \cup Keys \cup {"ZMQ_PLAIN_USERNAME", "ZMQ_PLAIN_PASSWORD"}
  <2>1. /\ name # "ZMQ_MECHANISM" /\ name # "server"
        /\ name = "ZMQ_IPV6" => n # "ZMQ_IPV4ONLY"
    BY NamesKept DEF Related, Acceptable, ReadOnly
  <2>2. new = [old EXCEPT ![name] = raw]
    BY <1>6 DEF Kept, Views
  <2> HIDE DEF new
  <2>3. \A m \in OptNames : m # name => new[m] = old[m]
    BY <1>1, <2>2
  <2> QED BY <1>2, <2>1, <2>3, SeenAlike DEF new
<1> QED BY <1>3, <1>4, <1>5, <1>6 DEF Views

\* A value of the option's own type that is exact converts to itself, and get shows it.
LEMMA ExactShown ==
  ASSUME NEW name \in Rows \ (SetOnly \cup Named \cup ReadOnly \cup {"ZMQ_IDENTITY"}),
         NEW v \in Values, Exact(name, v), NEW raw \in from_m(sockOptLookup[name], v),
         NEW options, Sound(options),
         Seen(options, name) = IF name \in Keys THEN Z85(raw) ELSE raw
  PROVE  Shown(name, Seen(options, name)) = {v}
<1>1. CASE IsText(name)
  <2>1. raw = v /\ v.kind = "text"
    <3>1. raw \in str_from_m(v)
      BY <1>1, Converted
    <3> QED BY <3>1 DEF str_from_m
  <2>2. Seen(options, name) = v
    <3>1. CASE name \in Keys
      <4>1. v.length = 40
        BY <1>1, <3>1 DEF Exact
      <4>2. v = Text(v.says, v.length, v.code)
        <5>1. "number" # "text"
          OBVIOUS
        <5> QED BY <2>1, <5>1, ValuesAssumption
      <4>3. Z85(v) = Text(v.says, 40, v.code)
        BY DEF Z85
      <4> QED BY <2>1, <3>1, <4>1, <4>2, <4>3
    <3> QED BY <2>1, <3>1
  <2> QED BY <1>1, <2>2, ShownOf
<1>2. CASE ~IsText(name)
  <2>1. v.kind = "number" /\ ~v.fraction /\ v.whole \in Holds(CType(name)) /\ Double(v.whole) = v.whole
    BY <1>2 DEF Exact
  <2>2. v = Number(v.whole, FALSE)
    <3>1. v = Number(v.whole, v.fraction) /\ v.fraction \in BOOLEAN
      BY <2>1, ValuesAssumption
    <3>2. v.fraction = FALSE
      BY <2>1, <3>1
    <3> QED BY <3>1, <3>2
  <2>3. raw = v.whole
    <3>1. from_m(sockOptLookup[name], Number(v.whole, FALSE)) = {v.whole}
      BY <1>2, <2>1, NumberConverts
    <3> QED BY <2>2, <3>1
  <2>4. Shown(name, Seen(options, name)) = {Number(raw, FALSE)}
    BY <1>2, ShownOf DEF IsText
  <2> QED BY <2>2, <2>3, <2>4
<1> QED BY <1>1, <1>2

\* At first no value is known.
LEMMA ReturnsInit == Init => Returns
<1> SUFFICES ASSUME Init PROVE Returns
  OBVIOUS
<1>1. /\ \A name \in Names : asked[name] = None
      /\ \A name \in CtxNames : ctxAsked[name] = None
  BY DEF Init
<1> QED BY <1>1 DEF Returns

\* The type that was asked for and the context's IPV6 are what a new socket starts with.
LEMMA ReturnsConstruct ==
  ASSUME TypeOK, Returns, NEW type \in Types, Construct(type)
  PROVE  Returns'
<1> DEFINE new == Fresh(type, ctx["ZMQ_IPV6"])
<1>1. opt' = new /\ UNCHANGED <<ctx, ctxAsked>>
  BY DEF Construct
<1>2. /\ type \in DOMAIN socketTypeLookup /\ ctx["ZMQ_IPV6"] \in {0, 1} /\ Sound(new)
  BY TypesAssumption, FreshSound DEF TypeOK
<1>3. new["ZMQ_TYPE"] = socketTypeLookup[type] /\ new["ZMQ_IPV6"] = ctx["ZMQ_IPV6"]
  <2>1. \A name \in OptNames : new[name] =
          CASE name = "ZMQ_TYPE" -> socketTypeLookup[type]
            [] name = "ZMQ_IPV6" -> ctx["ZMQ_IPV6"]
            [] name \in {"ZMQ_SNDHWM", "ZMQ_RCVHWM", "ZMQ_RECOVERY_IVL", "ZMQ_BACKLOG",
                         "ZMQ_RECONNECT_IVL"} \cup Positive -> 1
            [] name \in (OrInfinite \ {"ZMQ_RECONNECT_IVL"})
                            \cup {"ZMQ_MAXMSGSIZE", "ZMQ_TCP_KEEPALIVE"} -> -1
            [] name \in Keys -> Text("", 40, 0)
            [] name \in Texts -> Text("", 0, 0)
            [] OTHER -> 0
    BY Zenon DEF Fresh
  <2>2. "ZMQ_TYPE" \in OptNames /\ "ZMQ_IPV6" \in OptNames
    BY NamesKept DEF Named
  <2>3. {"ZMQ_TYPE", "ZMQ_IPV6"} \cap (Positive \cup OrInfinite \cup Keys \cup Texts) = {}
    BY DEF Positive, OrInfinite, Keys, Texts
  <2> HIDE DEF new
  <2> QED BY <2>1, <2>2, <2>3
<1>4. \A name \in Names : asked'[name] =
         CASE name = "ZMQ_TYPE" -> Text(type, 0, 0)
           [] name = "ZMQ_IPV6" -> Number(ctx["ZMQ_IPV6"], FALSE)
           [] OTHER             -> None
  BY Zenon DEF Construct
<1> HIDE DEF new
<1>5. Shown("ZMQ_TYPE", Seen(new, "ZMQ_TYPE")) = {Text(type, 0, 0)}
  <2>1. Seen(new, "ZMQ_TYPE") = socketTypeLookup[type]
    BY <1>3 DEF Seen
  <2>2. sockOptLookup["ZMQ_TYPE"] = "SOCKTYPE"
    BY TableTypes DEF Rows
  <2>3. to_m("SOCKTYPE", socketTypeLookup[type]) = id_to_m(socketTypeLookup, socketTypeLookup[type])
    BY DEF to_m
  <2> QED BY <1>2, <2>1, <2>2, <2>3, TablesAgree DEF Shown
<1>6. Shown("ZMQ_IPV6", Seen(new, "ZMQ_IPV6")) = {Number(ctx["ZMQ_IPV6"], FALSE)}
  <2>1. Seen(new, "ZMQ_IPV6") = ctx["ZMQ_IPV6"]
    BY <1>3 DEF Seen
  <2>2. "ZMQ_IPV6" \in Rows \ SetOnly /\ ~IsText("ZMQ_IPV6") /\ "ZMQ_IPV6" \notin Named
    BY NamesKept DEF Switches, IsText, Named
  <2> QED BY <1>2, <2>1, <2>2, ShownOf
<1>7. ASSUME NEW name \in Names, asked'[name] # None
      PROVE  /\ name \in Rows \ (Volatile \cup {"ZMQ_MECHANISM"})
             /\ Shown(name, Seen(new, name)) = {asked'[name]}
  <2>1. name \in {"ZMQ_TYPE", "ZMQ_IPV6"}
    BY <1>4, <1>7
  <2>2. name \in Rows \ (Volatile \cup {"ZMQ_MECHANISM"})
    BY <2>1 DEF Rows, Ints, Volatile
  <2>3. asked'["ZMQ_TYPE"] = Text(type, 0, 0) \/ name # "ZMQ_TYPE"
    BY <1>4
  <2>4. asked'["ZMQ_IPV6"] = Number(ctx["ZMQ_IPV6"], FALSE) \/ name # "ZMQ_IPV6"
    BY <1>4
  <2> QED BY <1>5, <1>6, <2>1, <2>2, <2>3, <2>4
<1>8. /\ \A name \in Names \ (SetOnly \cup {"ZMQ_IDENTITY"}) :
             asked'[name] # None /\ Exact(name, asked'[name]) =>
                 Shown(name, Seen(opt', name)) = {asked'[name]}
      /\ \A name \in Names : asked'[name] # None => name \in Rows \ (Volatile \cup {"ZMQ_MECHANISM"})
  BY <1>1, <1>7
<1>9. \A name \in CtxNames :
         /\ ctxAsked'[name] # None /\ Exact(name, ctxAsked'[name])
         /\ name = "ZMQ_IPV6" => ctxAsked'[name].whole \in {0, 1}
         => CtxGet(name)' = ctxAsked'[name]
  BY <1>1 DEF Returns, CtxGet
<1> QED BY <1>8, <1>9 DEF Returns

\* An option that is set is shown as it was set; those related to it are no longer known,
\* and the others are seen as before.
LEMMA ReturnsSet ==
  ASSUME TypeOK, Returns, NEW name \in Names, NEW v \in Values, Set(name, v)
  PROVE  Returns'
<1>1. PICK raw \in from_m(sockOptLookup[name], v) :
          Accepts(name, raw, optLen(name, v)) /\ opt' = Kept(opt, name, raw)
  BY DEF Set
<1>2. /\ Acceptable(name, raw) /\ name \in Rows \ ReadOnly /\ Sound(opt) /\ Sound(Kept(opt, name, raw))
  <2>1. Acceptable(name, raw) /\ Sound(opt)
    BY <1>1, AcceptedIsAcceptable, TypeIsSound DEF Set
  <2> QED BY <2>1, KeptSound DEF Acceptable
<1>3. /\ \A n \in Names :
            asked'[n] = IF n = name THEN v ELSE IF n \in Related(name) THEN None ELSE asked[n]
      /\ UNCHANGED <<ctx, ctxAsked>>
  BY DEF Set
<1>4. ASSUME NEW n \in Names, asked'[n] # None
      PROVE  n \in Rows \ (Volatile \cup {"ZMQ_MECHANISM"})
  <2>1. CASE n = name
    BY <1>2, <2>1 DEF ReadOnly
  <2>2. CASE n # name
    BY <1>3, <1>4, <2>2 DEF Returns
  <2> QED BY <2>1, <2>2
<1>5. ASSUME NEW n \in Names \ (SetOnly \cup {"ZMQ_IDENTITY"}), asked'[n] # None, Exact(n, asked'[n])
      PROVE  Shown(n, Seen(opt', n)) = {asked'[n]}
  <2>1. CASE n = name
    <3>1. asked'[n] = v
      BY <1>3, <2>1
    <3>2. name \in Rows \ SetOnly /\ name \in Rows \ (SetOnly \cup Named \cup ReadOnly \cup {"ZMQ_IDENTITY"})
      BY <1>2, <1>5, <2>1 DEF Named, ReadOnly
    <3>3. Seen(Kept(opt, name, raw), name) = IF name \in Keys THEN Z85(raw) ELSE raw
      BY <1>2, <3>2, SeenAsSet
    <3>4. Exact(name, v)
      BY <1>5, <2>1, <3>1
    <3>5. Shown(name, Seen(Kept(opt, name, raw), name)) = {v}
      BY <1>2, <3>2, <3>3, <3>4, ExactShown
    <3> QED BY <1>1, <2>1, <3>1, <3>5
  <2>2. CASE n # name
    <3>1. asked'[n] = asked[n] /\ n \notin Related(name)
      BY <1>3, <1>5, <2>2
    <3>2. n \in Rows \ (SetOnly \cup {"ZMQ_MECHANISM"})
      BY <1>4, <1>5
    <3>3. Seen(opt', n) = Seen(opt, n)
      BY <1>1, <1>2, <2>2, <3>1, <3>2, SeenAsBefore
    <3>4. Shown(n, Seen(opt, n)) = {asked[n]}
      BY <1>5, <3>1 DEF Returns
    <3> QED BY <3>1, <3>3, <3>4
  <2> QED BY <2>1, <2>2
<1>6. \A n \in CtxNames :
         /\ ctxAsked'[n] # None /\ Exact(n, ctxAsked'[n])
         /\ n = "ZMQ_IPV6" => ctxAsked'[n].whole \in {0, 1}
         => CtxGet(n)' = ctxAsked'[n]
  BY <1>3 DEF Returns, CtxGet
<1> QED BY <1>4, <1>5, <1>6 DEF Returns

\* The options of the context do not touch those of a socket that is there.
LEMMA ReturnsCtxSet ==
  ASSUME TypeOK, Returns, NEW name \in CtxNames, NEW v \in Values, CtxSet(name, v)
  PROVE  Returns'
<1>1. PICK raw \in scalar_from_m("INT", v) :
          /\ CtxAccepts(name, raw)
          /\ ctx' = [ctx EXCEPT ![name] = IF name = "ZMQ_IPV6" /\ raw > 0 THEN 1 ELSE raw]
  BY DEF CtxSet
<1>2. /\ v.kind = "number" /\ ctxAsked' = [ctxAsked EXCEPT ![name] = v]
      /\ UNCHANGED <<opt, asked>>
  BY DEF CtxSet
<1>3. DOMAIN ctx = CtxNames /\ DOMAIN ctxAsked = CtxNames
  BY DEF TypeOK
<1>4. ASSUME NEW n \in CtxNames, ctxAsked'[n] # None, Exact(n, ctxAsked'[n]),
             n = "ZMQ_IPV6" => ctxAsked'[n].whole \in {0, 1}
      PROVE  CtxGet(n)' = ctxAsked'[n]
  <2>1. CASE n = name
    <3>1. ctxAsked'[n] = v
      BY <1>2, <1>3, <2>1
    <3>2. ~IsText(n) /\ n \notin ReadOnly /\ CType(n) = "INT"
      BY DEF CtxNames, IsText, Texts, Keys, ReadOnly, Volatile, CType
    <3>3. /\ ~v.fraction /\ v.whole \in Holds("INT") /\ Double(v.whole) = v.whole
      BY <1>4, <3>1, <3>2 DEF Exact
    <3>4. v = Number(v.whole, FALSE)
      <4>1. v = Number(v.whole, v.fraction) /\ v.fraction \in BOOLEAN
        BY <1>2, ValuesAssumption
      <4>2. v.fraction = FALSE
        BY <3>3, <4>1
      <4> QED BY <4>1, <4>2
    <3>5. raw = v.whole
      BY <1>1, <1>2, <3>3, CastHolds DEF scalar_from_m
    <3>6. ctx'[n] = v.whole
      <4>1. ctx'[n] = IF name = "ZMQ_IPV6" /\ raw > 0 THEN 1 ELSE raw
        BY <1>1, <1>3, <2>1
      <4>2. name = "ZMQ_IPV6" => v.whole \in {0, 1}
        BY <1>4, <2>1, <3>1
      <4> QED BY <3>5, <4>1, <4>2
    <3> QED BY <3>1, <3>4, <3>6 DEF CtxGet
  <2>2. CASE n # name
    <3>1. ctxAsked'[n] = ctxAsked[n] /\ ctx'[n] = ctx[n]
      BY <1>1, <1>2, <1>3, <2>2
    <3> QED BY <1>4, <3>1 DEF Returns, CtxGet
  <2> QED BY <2>1, <2>2
<1> QED BY <1>2, <1>4 DEF Returns

\* What a socket reports of itself was not set, and is part of no view.
LEMMA ReturnsTraffic ==
  ASSUME TypeOK, Returns, Traffic
  PROVE  Returns'
<1>1. PICK name \in Volatile : \E raw : opt' = [opt EXCEPT ![name] = raw]
  BY DEF Traffic
<1>2. UNCHANGED <<ctx, asked, ctxAsked>>
  BY DEF Traffic
<1>3. \A n \in OptNames \ Volatile : opt'[n] = opt[n]
  BY <1>1 DEF TypeOK
<1>4. {"ZMQ_IPV6", "ZMQ_MECHANISM", "server"} \subseteq OptNames \ Volatile
  BY NamesKept DEF Named, Volatile
<1>5. ASSUME NEW n \in Names \ (SetOnly \cup {"ZMQ_IDENTITY"}), asked[n] # None
      PROVE  Seen(opt', n) = Seen(opt, n)
  <2>1. n \in Rows \ (SetOnly \cup {"ZMQ_MECHANISM"}) /\ n \notin Volatile
    BY <1>5 DEF Returns
  <2>2. n \notin Views => n \in OptNames
    BY <2>1, NamesKept
  <2> QED BY <1>3, <1>4, <2>1, <2>2, SeenAlike
<1>6. \A n \in Names \ (SetOnly \cup {"ZMQ_IDENTITY"}) :
          asked'[n] # None /\ Exact(n, asked'[n]) => Shown(n, Seen(opt', n)) = {asked'[n]}
  BY <1>2, <1>5 DEF Returns
<1> QED BY <1>2, <1>6 DEF Returns, CtxGet

\* Every step keeps it.
LEMMA ReturnsNext == TypeOK /\ Returns /\ [Next]_vars => Returns'
<1> SUFFICES ASSUME TypeOK, Returns, [Next]_vars PROVE Returns'
  OBVIOUS
<1>1. CASE \E type \in Types : Construct(type)
  BY <1>1, ReturnsConstruct
<1>2. CASE Close
  BY <1>2 DEF Close, Returns, CtxGet
<1>3. CASE \E name \in Names, v \in Values : Set(name, v)
  BY <1>3, ReturnsSet
<1>4. CASE \E name \in CtxNames, v \in Values : CtxSet(name, v)
  BY <1>4, ReturnsCtxSet
<1>5. CASE Traffic
  BY <1>5, ReturnsTraffic
<1>6. CASE UNCHANGED vars
  BY <1>6 DEF vars, Returns, CtxGet
<1> QED BY <1>1, <1>2, <1>3, <1>4, <1>5, <1>6 DEF Next

\* What was set is what get answers, whatever was set in between, in any order and over any
\* number of sockets and of options of the context, for any widths and any precision: a value
\* of the option's own type that is exact converts to itself, and the other options, but for
\* those related to it, leave it alone.
THEOREM SetIsReturned == Spec => []GetReturnsSet
<1>1. TypeOK /\ Returns => GetReturnsSet
  <2> SUFFICES ASSUME TypeOK, Returns PROVE GetReturnsSet
    OBVIOUS
  <2>1. ASSUME NEW name \in Names \ {"ZMQ_IDENTITY"}, alive, asked[name] # None,
               Exact(name, asked[name]), Get(name) # {Error}
        PROVE  Get(name) = {asked[name]}
    <3>1. Get(name) = Shown(name, Seen(opt, name)) /\ name \notin SetOnly
      BY <2>1 DEF Get
    <3> QED BY <2>1, <3>1 DEF Returns
  <2> QED BY <2>1 DEF GetReturnsSet, Returns
<1>2. Spec => []Returns
  BY ReturnsInit, ReturnsNext, TypeCorrect, PTL DEF Spec
<1> QED BY <1>1, <1>2, TypeCorrect, PTL

-----------------------------------------------------------------------------
(* The precision of doubles *)

\* The least number of a set is the one that CHOOSE finds.
LEMMA LeastChosen ==
  ASSUME NEW S, S \subseteq Int, NEW least \in S, \A j \in S : least <= j
  PROVE  (CHOOSE k \in S : \A j \in S : k <= j) = least
<1>1. \A k \in S : (\A j \in S : k <= j) => k = least
  OBVIOUS
<1> QED BY <1>1

\* Up to 2^Mantissa every integer is a double.
LEMMA SmallExact ==
  ASSUME NEW n \in Int, -(2^Mantissa) <= n, n <= 2^Mantissa
  PROVE  Double(n) = n
<1> DEFINE size == IF n < 0 THEN -n ELSE n
           wide == {k \in 0..WideBits : size <= 2^(Mantissa + k)}
<1>1. Mantissa + 0 = Mantissa /\ 2^Mantissa \in Nat /\ 0 \in 0..WideBits
  BY WidthAssumption, PowersOfTwo
<1>2. 0 \in wide
  BY <1>1
<1>3. Spacing(n) = 2^(CHOOSE k \in wide : \A j \in wide : k <= j)
  BY DEF Spacing
<1>4. wide \subseteq Int /\ \A k \in wide : 0 <= k
  BY WidthAssumption
<1> HIDE DEF wide
<1>5. (CHOOSE k \in wide : \A j \in wide : k <= j) = 0
  BY <1>2, <1>4, LeastChosen
<1>6. Spacing(n) = 1
  BY <1>3, <1>5, PowersOfTwo
<1>7. n \div 1 = n /\ n % 1 = 0 /\ n * 1 = n
  OBVIOUS
<1> QED BY <1>6, <1>7 DEF Double

\* Where the mantissa is as wide as an int without its sign, doubles hold all ints.
LEMMA IntsExact ==
  ASSUME IntBits - 1 <= Mantissa, NEW n \in Holds("INT")
  PROVE  n \in Int /\ Double(n) = n
<1> DEFINE p == 2^(IntBits - 1)
<1>1. IntBits - 1 \in Nat /\ Mantissa \in Nat
  BY WidthAssumption
<1>2. p \in Nat /\ 2^Mantissa \in Nat /\ p <= 2^Mantissa
  BY <1>1, PowersOfTwo, PowersGrow
<1>3. n \in -p..(p - 1)
  BY DEF Holds
<1> HIDE DEF p
<1> QED BY <1>2, <1>3, SmallExact


\* GetReturnsSet and RestoredAsSaved for the options that are ints, with no word of doubles.
IntsReturned ==
    \A name \in Names \ (Texts \cup Keys \cup SetOnly \cup ReadOnly
                               \cup {"ZMQ_AFFINITY", "ZMQ_MAXMSGSIZE"}) :
        \A n \in Holds("INT") :
            alive /\ asked[name] = Number(n, FALSE) => Get(name) = {Number(n, FALSE)}

IntsRestored ==
    \A name \in (Names \cap Alone) \ {"ZMQ_AFFINITY", "ZMQ_MAXMSGSIZE"} :
        alive => \A v \in Get(name) :
                     /\ v # Error /\ ~Refused(name, v)
                     /\ \A raw \in from_m(sockOptLookup[name], v) : Kept(opt, name, raw) = opt

\* So, with doubles as precise as that (53 bits, and 32 of an int), every integer option that
\* was set to an int is got as it was set, and can be saved and restored whatever its value:
\* the detour through a double does no harm to them.
THEOREM IntsComeBack ==
  ASSUME IntBits - 1 <= Mantissa
  PROVE  Spec => [](IntsReturned /\ IntsRestored)
<1> DEFINE wide == {"ZMQ_AFFINITY", "ZMQ_MAXMSGSIZE"}
<1>1. ASSUME TypeOK, Returns PROVE IntsReturned
  <2> SUFFICES ASSUME NEW name \in Names \ (Texts \cup Keys \cup SetOnly \cup ReadOnly \cup wide),
                      NEW n \in Holds("INT"), alive, asked[name] = Number(n, FALSE)
               PROVE  Get(name) = {Number(n, FALSE)}
    BY DEF IntsReturned
  <2>0. /\ Number(n, FALSE).kind = "number" /\ Number(n, FALSE).whole = n
        /\ ~Number(n, FALSE).fraction /\ None.kind = "none"
    BY ZenonT(30), Kinds
  <2>1. asked[name] # None
    BY <2>0
  <2>2. name \in Rows /\ CType(name) = "INT" /\ name # "ZMQ_IDENTITY" /\ ~IsText(name)
    BY <1>1, <2>1 DEF Returns, CType, Texts, IsText
  <2>3. Exact(name, asked[name])
    BY <2>0, <2>2, IntsExact DEF Exact
  <2>4. Get(name) = Shown(name, Seen(opt, name))
    <3>1. ~Full(name)
      BY <2>2, NamesKept DEF Full, IsText
    <3> QED BY <1>1, <2>2, <3>1, AnswersUnlessFull
  <2> QED BY <1>1, <2>1, <2>2, <2>3, <2>4 DEF Returns
<1>2. ASSUME TypeOK, RestoredAsSaved PROVE IntsRestored
  <2> SUFFICES ASSUME NEW name \in (Names \cap Alone) \ wide, alive
               PROVE  Double(Seen(opt, name)) = Seen(opt, name)
    BY <1>2 DEF RestoredAsSaved, IntsRestored
  <2>1. name \in Rows \ (SetOnly \cup Named) /\ ~IsText(name) /\ CType(name) = "INT"
    BY AloneIs DEF CType
  <2>2. Seen(opt, name) \in Holds("INT")
    <3>1. Seen(opt, name) \in Numbers(name) /\ name # "ZMQ_TYPE"
      BY <1>2, <2>1, SeenSound, TypeIsSound DEF Named
    <3> QED BY <2>1, <3>1, NumbersOf
  <2> QED BY <2>2, IntsExact
<1>3. Spec => []Returns
  BY ReturnsInit, ReturnsNext, TypeCorrect, PTL DEF Spec
<1> QED BY <1>1, <1>2, <1>3, TypeCorrect, SavedIsRestored, PTL

\* Not so the wide ones: of the integers beyond the mantissa every other one is rounded, so
\* that a set of the first of them, which the C type holds, sets the one before.
THEOREM WideRounded ==
  ASSUME 2 <= Mantissa, Mantissa < WideBits
  PROVE  LET n == 2^Mantissa + 1
         IN  n \in Holds("UINT64") /\ from_m("UINT64", Number(n, FALSE)) = {n - 1}
<1> DEFINE m == 2^Mantissa
           n == m + 1
           wide == {k \in 0..WideBits : n <= 2^(Mantissa + k)}
<1>1. /\ Mantissa \in Nat /\ WideBits \in Nat /\ WideBits >= 1
      /\ Mantissa - 1 \in Nat /\ (Mantissa - 1) + 1 = Mantissa /\ Mantissa + 0 = Mantissa
      /\ Mantissa - 2 \in Nat /\ (Mantissa - 2) + 1 = Mantissa - 1
      /\ Mantissa + 1 \in Nat /\ Mantissa + 1 <= WideBits
  BY WidthAssumption
<1>2. 2^(Mantissa - 2) \in Nat \ {0} /\ 2^(Mantissa - 1) = 2 * 2^(Mantissa - 2)
  BY <1>1, PowersOfTwo
<1>3. PICK quarter \in Nat : quarter >= 1 /\ m = 4 * quarter
  BY <1>1, <1>2, PowersOfTwo
<1>4. 2^(Mantissa + 1) = 2 * m
  BY <1>1, PowersOfTwo
<1>5. PICK r \in Nat : r = 2^WideBits /\ 2 * m <= r
  BY <1>1, <1>4, PowersOfTwo, PowersGrow
<1>6. 1 \in wide /\ 0 \notin wide /\ wide \subseteq Nat
  <2>1. n <= 2^(Mantissa + 1) /\ ~(n <= 2^(Mantissa + 0)) /\ 1 \in 0..WideBits
    BY <1>1, <1>3, <1>4
  <2> QED BY <2>1, <1>1
<1>7. Spacing(n) = 2
  <2>1. Spacing(n) = 2^(CHOOSE k \in wide : \A j \in wide : k <= j)
    <3>1. n = IF n < 0 THEN -n ELSE n
      BY <1>3
    <3> HIDE DEF n
    <3>2. wide = {k \in 0..WideBits : (IF n < 0 THEN -n ELSE n) <= 2^(Mantissa + k)}
      BY <3>1
    <3> HIDE DEF wide
    <3> QED BY <3>2 DEF Spacing
  <2> HIDE DEF wide, n
  <2>2. (CHOOSE k \in wide : \A j \in wide : k <= j) = 1
    <3>1. wide \subseteq Int /\ \A j \in wide : 1 <= j
      BY <1>6
    <3> QED BY <1>6, <3>1, LeastChosen
  <2>3. 2^1 = 2
    OBVIOUS
  <2> QED BY <2>1, <2>2, <2>3
<1> HIDE DEF m
<1>8. Double(n) = n - 1
  <2>1. n = 4 * quarter + 1
    BY <1>3
  <2>2. n \div 2 = 2 * quarter /\ n % 2 = 1 /\ (2 * quarter) % 2 = 0
    BY <2>1
  <2> HIDE DEF n
  <2>3. Double(n) = (2 * quarter) * 2
    BY <1>7, <2>2 DEF Double
  <2> QED BY <2>1, <2>3
<1>9. n \in Holds("UINT64") /\ n - 1 \in Holds("UINT64")
  <2>1. Holds("UINT64") = 0..(r - 1)
    BY <1>5 DEF Holds
  <2> QED BY <1>3, <1>5, <2>1
<1>10. from_m("UINT64", Number(n, FALSE)) = Cast("UINT64", Double(n))
  <2>1. Number(n, FALSE).kind = "number" /\ Number(n, FALSE).whole = n
    BY Zenon, Kinds
  <2> QED BY <2>1 DEF from_m, scalar_from_m
<1>11. Cast("UINT64", n - 1) = {n - 1}
  BY <1>9, CastHolds
<1> QED BY <1>8, <1>9, <1>10, <1>11 DEF m
=============================================================================
