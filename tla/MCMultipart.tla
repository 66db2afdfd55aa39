----------------------------- MODULE MCMultipart -----------------------------
(* Instances of Multipart for TLC. *)
EXTENDS Multipart

Uint8(n) == [len |-> n, row |-> TRUE]
Other(n) == [len |-> n, row |-> FALSE]

\* Nothing; a part that cannot be sent first, in the middle, last; an empty part; a cell
\* that can be sent whole.
MCCells == {
    <<>>,
    <<Other(2), Uint8(3)>>,
    <<Uint8(1), Other(1), Uint8(0)>>,
    <<Uint8(1), Other(2)>>,
    <<Uint8(1), Uint8(2)>> }
=============================================================================
