------------------------------ MODULE MCOptions ------------------------------
(* Instances of Options for TLC. *)
EXTENDS Options

\* With ints of 3 bits, wide integers of 5 and 3 bits of mantissa: ordinary values, one
\* with a fraction, the first that is no int, one that a double rounds, one too large for
\* any type; texts of no and of some characters, one that fills the buffer (a mechanism's
\* name), one too long for it that is a key in Z85.
MCValues == {
    Number(-1, FALSE), Number(0, FALSE), Number(1, FALSE), Number(0, TRUE),
    Number(4, FALSE), Number(9, FALSE), Number(32, FALSE),
    Text("", 0, 0), Text("abc", 3, 2), Text("ZMQ_PLAIN", 9, 3), Text("key", 40, 2)}

\* One or more of each type and behaviour.
MCNames == {
    "ZMQ_TYPE", "ZMQ_SNDHWM", "ZMQ_LINGER", "ZMQ_AFFINITY", "ZMQ_MAXMSGSIZE", "ZMQ_IDENTITY",
    "ZMQ_IPV6", "ZMQ_IPV4ONLY", "ZMQ_PLAIN_USERNAME", "ZMQ_PLAIN_SERVER", "ZMQ_CURVE_SERVER",
    "ZMQ_CURVE_SERVERKEY", "ZMQ_MECHANISM", "ZMQ_LAST_ENDPOINT", "ZMQ_SUBSCRIBE",
    "ZMQ_ROUTER_MANDATORY", "ZMQ_NOSUCH"}
=============================================================================
