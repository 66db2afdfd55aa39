------------------------ MODULE MultipartCount_proofs ------------------------
(***************************************************************************)
(* Proofs of what the byte counts of Multipart tell.                       *)
(*                                                                         *)
(* Sums and Selections are recursive functions: that they are what their   *)
(* equations say follows from the lemmas of Induction.  Counted, the       *)
(* invariant, compares what the call in progress has counted with what it  *)
(* was asked for so far: it never counts more, and where it counts the     *)
(* same, the parts it has staged are all that are not empty.               *)
(***************************************************************************)
EXTENDS Multipart_proofs, Induction

-----------------------------------------------------------------------------
(* Sums *)

\* Sums is the function its definition describes.
LEMMA SumsEquation ==
  ASSUME NEW asked \in Seq(Pieces)
  PROVE  /\ Sums(asked) \in [0..Len(asked) -> Nat]
         /\ Sums(asked)[0] = 0
         /\ \A n \in 1..Len(asked) : Sums(asked)[n] = Sums(asked)[n - 1] + asked[n].len
<1> DEFINE step == [n \in 1..Len(asked) |-> [v \in Nat |-> v + asked[n].len]]
<1>1. Len(asked) \in Nat /\ \A n \in 1..Len(asked) : asked[n].len \in Nat
  <2>1. \A n \in 1..Len(asked) : asked[n] \in Pieces
    BY Element
  <2> QED BY <2>1 DEF Pieces
<1>2. step \in [1..Len(asked) -> [Nat -> Nat]]
  BY <1>1
<1>3. PICK f \in [0..Len(asked) -> Nat] : Recursion(f, Len(asked), 0, step)
  <2> HIDE DEF step
  <2> QED BY <1>1, <1>2, RecursionExists
<1>4. \A n \in 1..Len(asked) : n - 1 \in 0..Len(asked) /\ f[n - 1] \in Nat
  <2>1. \A n \in 1..Len(asked) : n - 1 \in 0..Len(asked)
    BY <1>1
  <2> HIDE DEF step
  <2> QED BY <2>1
<1>5. f = [n \in 0..Len(asked) |-> IF n = 0 THEN 0 ELSE f[n - 1] + asked[n].len]
  <2>1. \A n \in 0..Len(asked) : f[n] = IF n = 0 THEN 0 ELSE step[n][f[n - 1]]
    BY <1>3, Zenon DEF Recursion
  <2>2. ASSUME NEW n \in 0..Len(asked)
        PROVE  f[n] = IF n = 0 THEN 0 ELSE f[n - 1] + asked[n].len
    <3>1. CASE n = 0
      BY <2>1, <3>1
    <3>2. CASE n # 0
      <4>1. n \in 1..Len(asked)
        BY <1>1, <3>2
      <4>2. step[n][f[n - 1]] = f[n - 1] + asked[n].len
        BY <1>4, <4>1
      <4> QED BY <2>1, <3>2, <4>2
    <3> QED BY <3>1, <3>2
  <2> QED BY <2>2
<1>6. Sums(asked) = [n \in 0..Len(asked) |->
                        IF n = 0 THEN 0 ELSE Sums(asked)[n - 1] + asked[n].len]
  BY <1>5 DEF Sums
<1>7. /\ Sums(asked)[0] = 0
      /\ \A n \in 1..Len(asked) : Sums(asked)[n] = Sums(asked)[n - 1] + asked[n].len
  BY <1>1, <1>6
<1>8. \A n \in 0..Len(asked) : Sums(asked)[n] \in Nat
  <2> DEFINE S == {n \in 0..Len(asked) : Sums(asked)[n] \in Nat}
  <2>1. 0 \in S
    BY <1>1, <1>7
  <2>2. ASSUME NEW n \in 0..Len(asked) - 1, n \in S PROVE n + 1 \in S
    <3>1. n + 1 \in 1..Len(asked) /\ (n + 1) - 1 = n
      BY <1>1
    <3>2. Sums(asked)[n + 1] = Sums(asked)[n] + asked[n + 1].len /\ asked[n + 1].len \in Nat
      BY <1>1, <1>7, <3>1
    <3> QED BY <2>2, <3>1, <3>2
  <2>3. 0..Len(asked) \subseteq S
    <3> HIDE DEF S
    <3> QED BY <1>1, <2>1, <2>2, BoundedInduction
  <2> QED BY <2>3
<1>9. Sums(asked) \in [0..Len(asked) -> Nat]
  BY <1>6, <1>8
<1> QED BY <1>7, <1>9

\* All parts but the last as long as the buffer, the last what remains: together the array.
THEOREM ChunksTotal ==
  ASSUME NEW length \in Nat, NEW bufLen \in Nat \ {0}, NEW shape
  PROVE  Total(Chunks(length, bufLen, shape)) = length
<1> DEFINE asked == Chunks(length, bufLen, shape)
           m == Len(asked)
           S == {n \in 0..m - 1 : Sums(asked)[n] = n * bufLen}
<1>1. /\ m \in Nat \ {0} /\ m - 1 \in Nat
      /\ \A n \in 1..m - 1 : asked[n].len = bufLen
      /\ (m - 1) * bufLen + asked[m].len = length
  <2>1. /\ m \in Nat \ {0}
        /\ \A n \in 1..m - 1 : asked[n].len = bufLen
        /\ (m - 1) * bufLen + asked[m].len = length
    <3>1. /\ m \in Nat \ {0}
          /\ \A n \in 1..m - 1 : asked[n].len = bufLen
          /\ (m - 1) * bufLen + asked[m].len = length
      BY ChunksCover, ZenonT(30)
    <3> QED BY <3>1
  <2> QED BY <2>1
<1>2. asked \in Seq(Pieces)
  BY ChunksArePieces
<1> HIDE DEF asked
<1>3. /\ Sums(asked)[0] = 0
      /\ \A n \in 1..m : Sums(asked)[n] = Sums(asked)[n - 1] + asked[n].len
  BY <1>2, SumsEquation
<1>4. 0 \in S
  BY <1>1, <1>3
<1>5. ASSUME NEW n \in 0..(m - 1) - 1, n \in S PROVE n + 1 \in S
  <2>1. n + 1 \in 1..m - 1 /\ n + 1 \in 1..m /\ (n + 1) - 1 = n /\ n + 1 \in 0..m - 1
    BY <1>1
  <2>2. Sums(asked)[n + 1] = Sums(asked)[n] + bufLen
    BY <1>1, <1>3, <2>1
  <2>3. (n + 1) * bufLen = n * bufLen + bufLen
    BY <1>1
  <2> QED BY <1>5, <2>1, <2>2, <2>3
<1>6. 0..m - 1 \subseteq S
  <2> HIDE DEF S, m
  <2> QED BY <1>1, <1>4, <1>5, BoundedInduction
<1>7. Sums(asked)[m - 1] = (m - 1) * bufLen
  BY <1>1, <1>6
<1>8. Sums(asked)[m] = Sums(asked)[m - 1] + asked[m].len
  BY <1>1, <1>3
<1> QED BY <1>1, <1>7, <1>8 DEF Total, asked
-----------------------------------------------------------------------------
(* Selections *)

Counts(call, part) == part.call = call /\ part.len > 0

\* Selections is the function its definition describes.
LEMMA SelectionsEquation ==
  ASSUME NEW call, NEW message \in Seq(Part)
  PROVE  /\ Selections(call, message) \in [0..Len(message) -> Seq(Part)]
         /\ Selections(call, message)[0] = <<>>
         /\ \A n \in 1..Len(message) :
                Selections(call, message)[n] =
                    IF Counts(call, message[n])
                    THEN Append(Selections(call, message)[n - 1], message[n])
                    ELSE Selections(call, message)[n - 1]
<1> DEFINE step == [n \in 1..Len(message) |->
                      [v \in Seq(Part) |-> IF Counts(call, message[n]) THEN Append(v, message[n]) ELSE v]]
           sel == Selections(call, message)
<1>1. Len(message) \in Nat /\ \A n \in 1..Len(message) : message[n] \in Part
  BY Element
<1>2. step \in [1..Len(message) -> [Seq(Part) -> Seq(Part)]]
  <2>1. \A n \in 1..Len(message) : \A v \in Seq(Part) :
            (IF Counts(call, message[n]) THEN Append(v, message[n]) ELSE v) \in Seq(Part)
    BY <1>1
  <2> QED BY <2>1
<1>3. PICK f \in [0..Len(message) -> Seq(Part)] : Recursion(f, Len(message), <<>>, step)
  <2>1. <<>> \in Seq(Part)
    OBVIOUS
  <2> HIDE DEF step
  <2> QED BY <1>1, <1>2, <2>1, RecursionExists
<1>4. f = [n \in 0..Len(message) |->
              IF n = 0 THEN <<>>
              ELSE IF Counts(call, message[n]) THEN Append(f[n - 1], message[n]) ELSE f[n - 1]]
  <2>1. \A n \in 0..Len(message) : f[n] = IF n = 0 THEN <<>> ELSE step[n][f[n - 1]]
    BY <1>3, Zenon DEF Recursion
  <2>2. ASSUME NEW n \in 0..Len(message)
        PROVE  f[n] = IF n = 0 THEN <<>>
                      ELSE IF Counts(call, message[n]) THEN Append(f[n - 1], message[n])
                      ELSE f[n - 1]
    <3>1. CASE n = 0
      BY <2>1, <3>1
    <3>2. CASE n # 0
      <4>1. n \in 1..Len(message) /\ n - 1 \in 0..Len(message)
        BY <1>1, <3>2
      <4>2. f[n - 1] \in Seq(Part)
        BY <4>1
      <4>3. step[n][f[n - 1]] =
                IF Counts(call, message[n]) THEN Append(f[n - 1], message[n]) ELSE f[n - 1]
        BY <4>1, <4>2
      <4> QED BY <2>1, <3>2, <4>3
    <3> QED BY <3>1, <3>2
  <2> QED BY <2>2
<1>5. sel = [n \in 0..Len(message) |->
                IF n = 0 THEN <<>>
                ELSE IF Counts(call, message[n]) THEN Append(sel[n - 1], message[n]) ELSE sel[n - 1]]
  BY <1>4, Zenon DEF Selections, Counts
<1> HIDE DEF sel
<1>6. /\ sel[0] = <<>>
      /\ \A n \in 1..Len(message) :
             sel[n] = IF Counts(call, message[n]) THEN Append(sel[n - 1], message[n]) ELSE sel[n - 1]
  <2>1. 0 \in 0..Len(message) /\ \A n \in 1..Len(message) : n \in 0..Len(message) /\ n # 0
    BY <1>1
  <2>2. \A n \in 0..Len(message) :
            sel[n] = IF n = 0 THEN <<>>
                     ELSE IF Counts(call, message[n]) THEN Append(sel[n - 1], message[n])
                     ELSE sel[n - 1]
    BY <1>5, Zenon
  <2> QED BY <2>1, <2>2, Zenon
<1>7. \A n \in 0..Len(message) : sel[n] \in Seq(Part)
  <2> DEFINE S == {n \in 0..Len(message) : sel[n] \in Seq(Part)}
  <2>1. 0 \in S
    <3>1. <<>> \in Seq(Part) /\ 0 \in 0..Len(message)
      BY <1>1
    <3> QED BY <1>6, <3>1
  <2>2. ASSUME NEW n \in 0..Len(message) - 1, n \in S PROVE n + 1 \in S
    <3>1. n + 1 \in 1..Len(message) /\ (n + 1) - 1 = n /\ sel[n] \in Seq(Part)
      BY <1>1, <2>2
    <3>2. sel[n + 1] = IF Counts(call, message[n + 1]) THEN Append(sel[n], message[n + 1]) ELSE sel[n]
      BY <1>6, <3>1
    <3>3. sel[n + 1] \in Seq(Part)
      BY <1>1, <3>1, <3>2
    <3> QED BY <3>1, <3>3
  <2>3. 0..Len(message) \subseteq S
    <3> HIDE DEF S
    <3> QED BY <1>1, <2>1, <2>2, BoundedInduction
  <2> QED BY <2>3
<1>8. sel \in [0..Len(message) -> Seq(Part)]
  BY <1>5, <1>7
<1> QED BY <1>6, <1>8 DEF sel

\* An empty message holds nothing of a call.
LEMMA PartsOfNothing ==
  ASSUME NEW call
  PROVE  PartsOf(call, <<>>) = <<>>
<1>1. <<>> \in Seq(Part) /\ Len(<<>>) = 0
  OBVIOUS
<1> QED BY <1>1, SelectionsEquation DEF PartsOf

\* One part more is one part of the call more, or none.
LEMMA PartsOfAppend ==
  ASSUME NEW call, NEW message \in Seq(Part), NEW part \in Part
  PROVE  PartsOf(call, Append(message, part)) =
             IF Counts(call, part) THEN Append(PartsOf(call, message), part)
             ELSE PartsOf(call, message)
<1> DEFINE longer == Append(message, part)
           n == Len(message)
           old == Selections(call, message)
           new == Selections(call, longer)
           step == [k \in 1..n |-> [v \in Seq(Part) |->
                       IF Counts(call, message[k]) THEN Append(v, message[k]) ELSE v]]
<1>1. /\ longer \in Seq(Part) /\ n \in Nat /\ Len(longer) = n + 1
      /\ longer[n + 1] = part /\ \A k \in 1..n : longer[k] = message[k]
  OBVIOUS
<1>2. /\ old \in [0..n -> Seq(Part)] /\ old[0] = <<>>
      /\ \A k \in 1..n :
             old[k] = IF Counts(call, message[k]) THEN Append(old[k - 1], message[k]) ELSE old[k - 1]
  BY SelectionsEquation
<1> HIDE DEF longer
<1>3. /\ new \in [0..n + 1 -> Seq(Part)] /\ new[0] = <<>>
      /\ \A k \in 1..n + 1 :
             new[k] = IF Counts(call, longer[k]) THEN Append(new[k - 1], longer[k]) ELSE new[k - 1]
  BY <1>1, SelectionsEquation
<1> HIDE DEF old, new
<1>4. Follows(old, n, step) /\ Follows(new, n, step)
  <2>1. ASSUME NEW k \in 1..n
        PROVE  old[k] = step[k][old[k - 1]] /\ new[k] = step[k][new[k - 1]]
    <3>1. k - 1 \in 0..n /\ k - 1 \in 0..n + 1 /\ k \in 1..n + 1 /\ longer[k] = message[k]
      BY <1>1
    <3>2. old[k - 1] \in Seq(Part) /\ new[k - 1] \in Seq(Part)
      BY <1>2, <1>3, <3>1
    <3> QED BY <1>2, <1>3, <3>1, <3>2
  <2> QED BY <2>1 DEF Follows
<1>5. \A k \in 0..n : old[k] = new[k]
  <2>1. old[0] = new[0] /\ n \in Nat
    BY <1>1, <1>2, <1>3
  <2> HIDE DEF n, step
  <2> QED BY <1>4, <2>1, RecursionUnique
<1>6. new[n + 1] = IF Counts(call, part) THEN Append(old[n], part) ELSE old[n]
  <2>1. n + 1 \in 1..n + 1 /\ (n + 1) - 1 = n /\ n \in 0..n
    BY <1>1
  <2> QED BY <1>1, <1>3, <1>5, <2>1
<1> QED BY <1>1, <1>6 DEF PartsOf, old, new, longer

\* A message without parts of a call.
LEMMA PartsOfOthers ==
  ASSUME NEW call, NEW message \in Seq(Part), \A k \in 1..Len(message) : message[k].call # call
  PROVE  PartsOf(call, message) = <<>>
<1> DEFINE n == Len(message)
           sel == Selections(call, message)
           S == {k \in 0..n : sel[k] = <<>>}
<1>1. n \in Nat
  OBVIOUS
<1>2. sel[0] = <<>> /\ \A k \in 1..n : sel[k] = sel[k - 1]
  BY SelectionsEquation DEF Counts
<1> HIDE DEF sel
<1>3. 0 \in S
  BY <1>1, <1>2
<1>4. ASSUME NEW k \in 0..n - 1, k \in S PROVE k + 1 \in S
  <2>1. k + 1 \in 1..n /\ (k + 1) - 1 = k /\ k + 1 \in 0..n
    BY <1>1
  <2> QED BY <1>2, <1>4, <2>1
<1>5. 0..n \subseteq S
  <2> HIDE DEF S, n
  <2> QED BY <1>1, <1>3, <1>4, BoundedInduction
<1>6. sel[n] = <<>>
  BY <1>1, <1>5
<1> QED BY <1>6 DEF PartsOf, sel
-----------------------------------------------------------------------------
(* The invariant *)

\* What the call in progress has counted is not more than it was asked to send so far, and
\* the same only if the parts that count are all staged; a failure ends an unguarded call.
InStep ==
    Sending =>
        LET asked == Current.asked
            c == Len(calls)
        IN  /\ Current.nbytes <= Sums(asked)[next - 1]
            /\ Current.nbytes = Sums(asked)[next - 1] =>
                   PartsOf(c, staged) = PartsOf(c, Whole(c, asked, next - 1))
            /\ ~Current.guarded => Current.nbytes = Sums(asked)[next - 1]

Counted == InStep /\ CountTells /\ ReturnedIsWhole

\* A message of one piece more.
LEMMA WholeGrows ==
  ASSUME NEW c \in 1..MaxCalls, NEW asked \in Seq(Pieces), NEW n \in 1..Len(asked)
  PROVE  LET part == [call |-> c, nr |-> n, len |-> asked[n].len]
         IN  /\ Whole(c, asked, n - 1) \in Seq(Part) /\ part \in Part
             /\ Whole(c, asked, n) = Append(Whole(c, asked, n - 1), part)
<1> DEFINE part(k) == [call |-> c, nr |-> k, len |-> asked[k].len]
           old == Whole(c, asked, n - 1)
           new == Whole(c, asked, n)
<1>1. n \in Nat /\ n - 1 \in Nat /\ (n - 1) + 1 = n /\ Len(asked) \in Nat
  OBVIOUS
<1>2. \A k \in 1..n : part(k) \in Part
  <2>1. \A k \in 1..n : asked[k] \in Pieces
    BY <1>1, Element
  <2> QED BY <1>1, <2>1 DEF Pieces, Part
<1>3. old = [k \in 1..n - 1 |-> part(k)] /\ new = [k \in 1..n |-> part(k)]
  BY DEF Whole
<1> HIDE DEF part, old, new
<1>4. old \in Seq(Part) /\ Len(old) = n - 1 /\ new \in Seq(Part) /\ Len(new) = n
  BY <1>1, <1>2, <1>3
<1>5. Append(old, part(n)) \in Seq(Part) /\ Len(Append(old, part(n))) = n
  BY <1>1, <1>2, <1>4
<1>6. ASSUME NEW k \in 1..n PROVE Append(old, part(n))[k] = new[k]
  <2>1. CASE k = n
    BY <1>1, <1>3, <1>4, <2>1
  <2>2. CASE k # n
    <3>1. k \in 1..n - 1
      BY <1>1, <2>2
    <3> QED BY <1>1, <1>3, <1>4, <3>1
  <2> QED BY <2>1, <2>2
<1>7. Append(old, part(n)) = new
  BY <1>4, <1>5, <1>6, SeqEqual
<1>8. n \in 1..n
  BY <1>1
<1> QED BY <1>2, <1>4, <1>7, <1>8 DEF part, old, new

\* What a call was asked for so far, before and after the part it has come to.
LEMMA AskedGrows ==
  ASSUME TypeOK, Sending
  PROVE  LET c == Len(calls)
             asked == Current.asked
         IN  /\ Sums(asked)[next] = Sums(asked)[next - 1] + Piece.len
             /\ Sums(asked)[next - 1] \in Nat /\ Piece.len \in Nat /\ Current.nbytes \in Nat
             /\ PartsOf(c, Whole(c, asked, next)) =
                    IF Piece.len > 0 THEN Append(PartsOf(c, Whole(c, asked, next - 1)), ThisPart)
                    ELSE PartsOf(c, Whole(c, asked, next - 1))
<1> DEFINE c == Len(calls)
           asked == Current.asked
<1>1. /\ c \in 1..MaxCalls /\ asked \in Seq(Pieces) /\ next \in 1..Len(asked)
      /\ Piece \in Pieces /\ Current \in Call
  BY InProgress
<1>2. ThisPart = [call |-> c, nr |-> next, len |-> asked[next].len] /\ Piece = asked[next]
  BY DEF ThisPart, Piece
<1> HIDE DEF c, asked
<1>3. next - 1 \in 0..Len(asked) /\ Piece.len \in Nat /\ Current.nbytes \in Nat
  BY <1>1 DEF Pieces, Call
<1>4. Sums(asked)[next] = Sums(asked)[next - 1] + Piece.len /\ Sums(asked)[next - 1] \in Nat
  BY <1>1, <1>2, <1>3, SumsEquation
<1>5. /\ Whole(c, asked, next - 1) \in Seq(Part) /\ ThisPart \in Part
      /\ Whole(c, asked, next) = Append(Whole(c, asked, next - 1), ThisPart)
  BY <1>1, <1>2, WholeGrows
<1>6. Counts(c, ThisPart) <=> Piece.len > 0
  BY <1>2 DEF Counts
<1>7. PartsOf(c, Whole(c, asked, next)) =
          IF Piece.len > 0 THEN Append(PartsOf(c, Whole(c, asked, next - 1)), ThisPart)
          ELSE PartsOf(c, Whole(c, asked, next - 1))
  BY <1>5, <1>6, PartsOfAppend
<1> QED BY <1>3, <1>4, <1>7 DEF c, asked

\* The part is accepted: count and message grow alike.
LEMMA AcceptedCounts ==
  ASSUME TypeOK, Sending, InStep
  PROVE  LET c == Len(calls)
             asked == Current.asked
             more == Current.nbytes + Piece.len
         IN  /\ more <= Sums(asked)[next]
             /\ more = Sums(asked)[next] =>
                    PartsOf(c, Append(staged, ThisPart)) = PartsOf(c, Whole(c, asked, next))
             /\ ~Current.guarded => more = Sums(asked)[next]
<1> DEFINE c == Len(calls)
           asked == Current.asked
           before == PartsOf(c, Whole(c, asked, next - 1))
           after == PartsOf(c, Whole(c, asked, next))
<1>1. /\ Current.nbytes <= Sums(asked)[next - 1]
      /\ Current.nbytes = Sums(asked)[next - 1] => PartsOf(c, staged) = before
      /\ ~Current.guarded => Current.nbytes = Sums(asked)[next - 1]
  BY DEF InStep
<1>2. /\ Sums(asked)[next] = Sums(asked)[next - 1] + Piece.len
      /\ Sums(asked)[next - 1] \in Nat /\ Piece.len \in Nat /\ Current.nbytes \in Nat
      /\ after = IF Piece.len > 0 THEN Append(before, ThisPart) ELSE before
  BY AskedGrows
<1>3. PartsOf(c, Append(staged, ThisPart)) =
          IF Piece.len > 0 THEN Append(PartsOf(c, staged), ThisPart) ELSE PartsOf(c, staged)
  <2>1. staged \in Seq(Part) /\ ThisPart \in Part
    BY InProgress DEF TypeOK
  <2>2. Counts(c, ThisPart) <=> Piece.len > 0
    BY DEF Counts, ThisPart
  <2> QED BY <2>1, <2>2, PartsOfAppend
<1> HIDE DEF c, asked, before, after
<1>4. /\ Current.nbytes + Piece.len <= Sums(asked)[next]
      /\ Current.nbytes + Piece.len = Sums(asked)[next] => Current.nbytes = Sums(asked)[next - 1]
      /\ ~Current.guarded => Current.nbytes + Piece.len = Sums(asked)[next]
  BY <1>1, <1>2
<1>5. Current.nbytes = Sums(asked)[next - 1] => PartsOf(c, Append(staged, ThisPart)) = after
  BY <1>1, <1>2, <1>3
<1> QED BY <1>4, <1>5 DEF c, asked, after
-----------------------------------------------------------------------------
(* Every step keeps it *)

\* What a returned call is owed stays in the pipe; a call that returns now must bring its own.
LEMMA ReturnedStay ==
  ASSUME TypeOK, CountTells, ReturnedIsWhole,
         Len(sent') \in Nat, Len(sent') >= Len(sent), \A m \in 1..Len(sent) : sent'[m] = sent[m],
         \A c \in 1..Len(calls') : calls'[c].state = "returned" =>
             \/ c \in 1..Len(calls) /\ calls'[c] = calls[c]
             \/ /\ calls'[c].nbytes = Total(calls'[c].asked) => InOneMessage(c)'
                /\ ~calls'[c].guarded => calls'[c].nbytes = Total(calls'[c].asked)
  PROVE  CountTells' /\ ReturnedIsWhole'
<1>1. ASSUME NEW c \in 1..Len(calls), calls'[c] = calls[c], InOneMessage(c)
      PROVE  InOneMessage(c)'
  <2>1. PICK i \in 1..Len(sent) :
            PartsOf(c, sent[i]) = PartsOf(c, Whole(c, calls[c].asked, Len(calls[c].asked)))
    BY <1>1 DEF InOneMessage
  <2>2. i \in 1..Len(sent') /\ sent'[i] = sent[i]
    OBVIOUS
  <2>3. PartsOf(c, sent'[i]) = PartsOf(c, Whole(c, calls'[c].asked, Len(calls'[c].asked)))
    BY <1>1, <2>1, <2>2
  <2> QED BY <2>2, <2>3 DEF InOneMessage
<1>2. ASSUME NEW c \in 1..Len(calls'), calls'[c].state = "returned",
             c \in 1..Len(calls), calls'[c] = calls[c]
      PROVE  /\ calls'[c].nbytes = Total(calls'[c].asked) => InOneMessage(c)'
             /\ ~calls'[c].guarded => calls'[c].nbytes = Total(calls'[c].asked)
  BY <1>1, <1>2 DEF CountTells, ReturnedIsWhole
<1>3. \A c \in 1..Len(calls') : calls'[c].state = "returned" =>
          /\ calls'[c].nbytes = Total(calls'[c].asked) => InOneMessage(c)'
          /\ ~calls'[c].guarded => calls'[c].nbytes = Total(calls'[c].asked)
  BY <1>2
<1>4. CountTells'
  BY <1>3 DEF CountTells
<1>5. ReturnedIsWhole'
  BY <1>3 DEF ReturnedIsWhole
<1> QED BY <1>4, <1>5

\* Nothing is asked of a new call yet, and none of the parts left behind are its own.
LEMMA CountedBegin ==
  ASSUME Inv, Orderly, Counted,
         NEW guarded \in BOOLEAN, NEW asked \in Seq(Pieces), Begin(guarded, asked)
  PROVE  Counted'
<1>1. TypeOK /\ CountTells /\ ReturnedIsWhole /\ StagedInOrder /\ staged \in Seq(Part)
  BY DEF Inv, Counted, Orderly, TypeOK
<1>2. sent' = sent /\ staged' = staged /\ next' = 1 /\ Len(sent) \in Nat /\ Len(calls) \in Nat
  <2>1. sent' = sent /\ staged' = staged /\ next' = 1
    BY DEF Begin
  <2>2. Len(sent) \in Nat /\ Len(calls) \in Nat
    BY <1>1 DEF TypeOK
  <2> QED BY <2>1, <2>2
<1>3. /\ Len(calls') = Len(calls) + 1 /\ \A c \in 1..Len(calls) : calls'[c] = calls[c]
      /\ Current'.asked = asked /\ Current'.nbytes = 0 /\ Current'.state # "returned"
  BY <1>1, BeginChanges
<1>4. CountTells' /\ ReturnedIsWhole'
  <2>1. calls'[Len(calls')] = Current'
    BY DEF Current
  <2>2. \A c \in 1..Len(calls') : c \in 1..Len(calls) \/ c = Len(calls')
    BY <1>2, <1>3
  <2>3. \A c \in 1..Len(calls') : calls'[c].state = "returned" => c \in 1..Len(calls) /\ calls'[c] = calls[c]
    BY <1>3, <2>1, <2>2
  <2> QED BY <1>1, <1>2, <2>3, ReturnedStay
<1>5. InStep'
  <2>1. Sums(asked)[0] = 0
    BY SumsEquation
  <2>2. \A k \in 1..Len(staged) : staged[k].call # Len(calls) + 1
    BY <1>1, <1>2 DEF StagedInOrder
  <2>3. PartsOf(Len(calls) + 1, staged) = <<>>
    BY <1>1, <2>2, PartsOfOthers
  <2>4. Whole(Len(calls) + 1, asked, 0) = <<>>
    BY DEF Whole
  <2>5. PartsOf(Len(calls) + 1, Whole(Len(calls) + 1, asked, 0)) = <<>>
    BY <2>4, PartsOfNothing
  <2>6. next' - 1 = 0
    BY <1>2
  <2> QED BY <1>2, <1>3, <2>1, <2>3, <2>5, <2>6 DEF InStep
<1> QED BY <1>4, <1>5 DEF Counted

\* A swallowed failure counts nothing: the count falls behind unless the part was empty.
LEMMA CountedSendFails == Inv /\ Counted /\ SendFails => Counted'
<1> SUFFICES ASSUME Inv, Counted, SendFails PROVE Counted'
  OBVIOUS
<1>1. /\ TypeOK /\ InStep /\ CountTells /\ ReturnedIsWhole /\ Sending
      /\ sent' = sent /\ staged' = staged /\ Len(sent) \in Nat /\ Len(calls) \in Nat
  BY DEF Inv, Counted, SendFails, TypeOK
<1>2. CASE Current.guarded /\ ~IsLast
  <2>1. calls' = calls /\ next' = next + 1 /\ Current' = Current
    BY <1>2 DEF SendFails, Current
  <2>2. CountTells' /\ ReturnedIsWhole'
    BY <1>1, <2>1, ReturnedStay
  <2>3. InStep'
    <3> DEFINE c == Len(calls)
               asked == Current.asked
               before == PartsOf(c, Whole(c, asked, next - 1))
               after == PartsOf(c, Whole(c, asked, next))
    <3>1. /\ Current.nbytes <= Sums(asked)[next - 1]
          /\ Current.nbytes = Sums(asked)[next - 1] => PartsOf(c, staged) = before
      BY <1>1 DEF InStep
    <3>2. /\ Sums(asked)[next] = Sums(asked)[next - 1] + Piece.len
          /\ Sums(asked)[next - 1] \in Nat /\ Piece.len \in Nat /\ Current.nbytes \in Nat
          /\ after = IF Piece.len > 0 THEN Append(before, ThisPart) ELSE before
      BY <1>1, AskedGrows
    <3> HIDE DEF c, asked, before, after
    <3>3. /\ Current.nbytes <= Sums(asked)[next]
          /\ Current.nbytes = Sums(asked)[next] => PartsOf(c, staged) = after
      BY <3>1, <3>2
    <3>4. next' - 1 = next
      BY <1>1, <2>1, InProgress
    <3> QED BY <1>1, <1>2, <2>1, <3>3, <3>4 DEF InStep, c, asked, after
  <2> QED BY <2>2, <2>3 DEF Counted
<1>3. CASE ~(Current.guarded /\ ~IsLast)
  <2>1. Ended("threw", Current.nbytes) /\ Current.nbytes \in Nat
    BY <1>1, <1>3, InProgress DEF SendFails, Call
  <2>2. /\ Len(calls') = Len(calls) /\ Current'.state = "threw"
        /\ \A c \in 1..Len(calls) - 1 : calls'[c] = calls[c]
    BY <1>1, <2>1, EndedChanges
  <2>3. CountTells' /\ ReturnedIsWhole'
    <3>1. calls'[Len(calls)].state = "threw"
      BY <2>2 DEF Current
    <3>2. \A c \in 1..Len(calls') : c \in 1..Len(calls) - 1 \/ c = Len(calls)
      BY <1>1, <2>2
    <3>3. \A c \in 1..Len(calls') : calls'[c].state = "returned" => c \in 1..Len(calls) /\ calls'[c] = calls[c]
      BY <1>1, <2>2, <3>1, <3>2
    <3> QED BY <1>1, <3>3, ReturnedStay
  <2>4. InStep'
    BY <2>2 DEF InStep, Sending
  <2> QED BY <2>3, <2>4 DEF Counted
<1> QED BY <1>2, <1>3

\* A part is staged and counted.
LEMMA CountedSendMore == Inv /\ Counted /\ SendMore => Counted'
<1> SUFFICES ASSUME Inv, Counted, SendMore PROVE Counted'
  OBVIOUS
<1>1. /\ TypeOK /\ InStep /\ CountTells /\ ReturnedIsWhole /\ Sending
      /\ sent' = sent /\ staged' = Append(staged, ThisPart) /\ next' = next + 1
      /\ Len(sent) \in Nat /\ Len(calls) \in Nat
  <2>1. TypeOK /\ InStep /\ CountTells /\ ReturnedIsWhole
    BY DEF Inv, Counted
  <2>2. Len(sent) \in Nat /\ Len(calls) \in Nat
    BY <2>1 DEF TypeOK
  <2>3. Sending /\ sent' = sent /\ staged' = Append(staged, ThisPart) /\ next' = next + 1
    BY DEF SendMore
  <2> QED BY <2>1, <2>2, <2>3
<1>2. Ended("sending", Current.nbytes + Piece.len) /\ Current.nbytes + Piece.len \in Nat
  BY <1>1, InProgress DEF SendMore, Call, Pieces
<1>3. /\ Len(calls') = Len(calls) /\ Current'.state = "sending"
      /\ Current'.asked = Current.asked /\ Current'.guarded = Current.guarded
      /\ Current'.nbytes = Current.nbytes + Piece.len
      /\ \A c \in 1..Len(calls) - 1 : calls'[c] = calls[c]
  BY <1>1, <1>2, EndedChanges
<1>4. CountTells' /\ ReturnedIsWhole'
  <2>1. calls'[Len(calls)].state = "sending"
    BY <1>3 DEF Current
  <2>2. \A c \in 1..Len(calls') : c \in 1..Len(calls) - 1 \/ c = Len(calls)
    BY <1>1, <1>3
  <2>3. \A c \in 1..Len(calls') : calls'[c].state = "returned" => c \in 1..Len(calls) /\ calls'[c] = calls[c]
    BY <1>1, <1>3, <2>1, <2>2
  <2> QED BY <1>1, <2>3, ReturnedStay
<1>5. InStep'
  <2>1. next' - 1 = next
    BY <1>1, InProgress
  <2>2. /\ Current.nbytes + Piece.len <= Sums(Current.asked)[next]
        /\ Current.nbytes + Piece.len = Sums(Current.asked)[next] =>
               PartsOf(Len(calls), Append(staged, ThisPart)) =
               PartsOf(Len(calls), Whole(Len(calls), Current.asked, next))
        /\ ~Current.guarded => Current.nbytes + Piece.len = Sums(Current.asked)[next]
    BY <1>1, AcceptedCounts
  <2> QED BY <1>1, <1>3, <2>1, <2>2 DEF InStep
<1> QED BY <1>4, <1>5 DEF Counted

\* The last part: what was counted together is what the call returns, what was staged
\* together the message.
LEMMA CountedSendLast == Inv /\ Counted /\ SendLast => Counted'
<1> SUFFICES ASSUME Inv, Counted, SendLast PROVE Counted'
  OBVIOUS
<1> DEFINE c == Len(calls)
           asked == Current.asked
           message == Append(staged, ThisPart)
<1>1. TypeOK /\ InStep /\ CountTells /\ ReturnedIsWhole /\ Sending /\ c \in Nat /\ Len(sent) \in Nat
  <2>1. TypeOK /\ InStep /\ CountTells /\ ReturnedIsWhole /\ Sending
    BY DEF Inv, Counted, SendLast
  <2>2. Len(sent) \in Nat /\ Len(calls) \in Nat
    BY <2>1 DEF TypeOK
  <2> QED BY <2>1, <2>2
<1>2. /\ Len(sent') = Len(sent) + 1 /\ sent'[Len(sent) + 1] = message
      /\ \A m \in 1..Len(sent) : sent'[m] = sent[m]
  BY <1>1, SendLastSends
<1>3. Ended("returned", Current.nbytes + Piece.len) /\ Current.nbytes + Piece.len \in Nat
  BY <1>1, InProgress DEF SendLast, Call, Pieces
<1>4. /\ Len(calls') = c /\ Current'.state = "returned"
      /\ Current'.asked = asked /\ Current'.guarded = Current.guarded
      /\ Current'.nbytes = Current.nbytes + Piece.len
      /\ \A d \in 1..c - 1 : calls'[d] = calls[d]
  BY <1>1, <1>3, EndedChanges
<1>5. next = Len(asked) /\ c \in 1..MaxCalls
  BY <1>1, InProgress DEF SendLast, IsLast
<1>6. /\ Current.nbytes + Piece.len = Total(asked) =>
             PartsOf(c, message) = PartsOf(c, Whole(c, asked, Len(asked)))
      /\ ~Current.guarded => Current.nbytes + Piece.len = Total(asked)
  <2>1. /\ Current.nbytes + Piece.len = Sums(asked)[next] =>
               PartsOf(c, message) = PartsOf(c, Whole(c, asked, next))
        /\ ~Current.guarded => Current.nbytes + Piece.len = Sums(asked)[next]
    BY <1>1, AcceptedCounts
  <2> QED BY <1>5, <2>1 DEF Total
<1>7. calls'[c] = Current'
  BY <1>4 DEF Current
<1> HIDE DEF asked, message
<1>8. calls'[c].nbytes = Total(calls'[c].asked) => InOneMessage(c)'
  <2> SUFFICES ASSUME calls'[c].nbytes = Total(calls'[c].asked) PROVE InOneMessage(c)'
    OBVIOUS
  <2>1. PICK d : d = c
    OBVIOUS
  <2>2. PartsOf(d, sent'[Len(sent) + 1]) = PartsOf(d, Whole(d, calls'[d].asked, Len(calls'[d].asked)))
    BY <1>2, <1>4, <1>6, <1>7, <2>1
  <2>3. Len(sent) + 1 \in 1..Len(sent')
    BY <1>1, <1>2
  <2>4. InOneMessage(d)'
    BY <2>2, <2>3 DEF InOneMessage
  <2> QED BY <1>4, <2>1, <2>4
<1>9. ~calls'[c].guarded => calls'[c].nbytes = Total(calls'[c].asked)
  BY <1>4, <1>6, <1>7
<1>10. CountTells' /\ ReturnedIsWhole'
  <2>1. \A d \in 1..Len(calls') : d \in 1..c - 1 \/ d = c
    BY <1>1, <1>4
  <2> QED BY <1>1, <1>2, <1>4, <1>8, <1>9, <2>1, ReturnedStay
<1>11. InStep'
  BY <1>4 DEF InStep, Sending
<1> QED BY <1>10, <1>11 DEF Counted

\* The receiver changes nothing of it.
LEMMA CountedRecv ==
  ASSUME Inv, Counted, UNCHANGED <<senderVars, sent>>
  PROVE  Counted'
<1>1. /\ TypeOK /\ InStep /\ CountTells /\ ReturnedIsWhole /\ Len(sent) \in Nat
      /\ calls' = calls /\ next' = next /\ staged' = staged /\ sent' = sent
  BY DEF Inv, Counted, TypeOK, senderVars
<1>2. CountTells' /\ ReturnedIsWhole'
  BY <1>1, ReturnedStay
<1>3. InStep'
  BY <1>1 DEF InStep, Sending, Current
<1> QED BY <1>2, <1>3 DEF Counted

\* Every step keeps the count true.
LEMMA CountedNext == Inv /\ Orderly /\ Counted /\ [Next]_vars => Counted'
<1> SUFFICES ASSUME Inv, Orderly, Counted, [Next]_vars PROVE Counted'
  OBVIOUS
<1>1. CASE SendCell \/ SendParts \/ SendArray
  BY <1>1, CallsBegin, CountedBegin
<1>2. CASE SendStep
  BY <1>2, CountedSendFails, CountedSendMore, CountedSendLast DEF SendStep
<1>3. CASE RecvCall \/ RecvPart \/ RecvFails
  BY <1>3, CountedRecv DEF RecvCall, RecvPart, RecvFails
<1>4. CASE UNCHANGED vars
  BY <1>4, CountedRecv DEF vars
<1> QED BY <1>1, <1>2, <1>3, <1>4 DEF Next

\* No call, no count.
LEMMA CountedInit == Init => Counted
<1> SUFFICES ASSUME Init PROVE Counted
  OBVIOUS
<1>1. calls = <<>> /\ Len(calls) = 0
  BY DEF Init
<1> QED BY <1>1 DEF Counted, InStep, Sending, CountTells, ReturnedIsWhole

\* The order of the parts and the count hold for good.
LEMMA SpecCounted == Spec => []Counted
  BY CountedInit, CountedNext, SpecInv, SpecOrderly, PTL DEF Spec

\* Although send_multipart swallows errors, its result tells: what returned the length of all
\* it was asked to send has put all of it, in order, into one message.
THEOREM CountsAreTrue == Spec => []CountTells
<1>1. Counted => CountTells
  BY DEF Counted
<1> QED BY SpecCounted, <1>1, PTL

\* Where nothing is swallowed, whatever returned has sent everything.
THEOREM ArraysAreWhole == Spec => []ReturnedIsWhole
<1>1. Counted => ReturnedIsWhole
  BY DEF Counted
<1> QED BY SpecCounted, <1>1, PTL

-----------------------------------------------------------------------------
(* Strings *)

\* Nothing is cut into parts: arrays and strings are shorter than the buffer, cells have one
\* element at most.
Short ==
    /\ \A length \in Lengths, bufLen \in SendBuffers : length < bufLen
    /\ \A cell \in Cells : Len(cell) <= 1

\* So each part is a message.
OneByOne ==
    /\ staged = <<>>
    /\ Sending => Len(Current.asked) = 1
    /\ \A m \in 1..Len(sent) : Len(sent[m]) = 1

\* An array shorter than the buffer is one part.
LEMMA ShortArray ==
  ASSUME NEW length \in Nat, NEW bufLen \in Nat \ {0}, length < bufLen, NEW shape
  PROVE  Len(Chunks(length, bufLen, shape)) <= 1
<1>1. length \div bufLen = 0
  OBVIOUS
<1> DEFINE chunk(i) == [len |-> ChunkLength(length, bufLen, i),
                        row |-> shape = "row" \/ (shape = "column" /\ ChunkLength(length, bufLen, i) = 1)]
<1>2. Chunks(length, bufLen, shape) = [i \in 1..1 |-> chunk(i)]
  BY <1>1 DEF Chunks
<1> HIDE DEF chunk
<1> QED BY <1>2

\* Each step keeps it.
LEMMA OneByOneNext ==
  ASSUME Short
  PROVE  Inv /\ OneByOne /\ [Next]_vars => OneByOne'
<1> SUFFICES ASSUME Inv, OneByOne, [Next]_vars PROVE OneByOne'
  OBVIOUS
<1>1. TypeOK /\ Len(sent) \in Nat
  BY DEF Inv, TypeOK
<1>2. Sending => next = 1 /\ IsLast
  <2> SUFFICES ASSUME Sending PROVE next = 1 /\ IsLast
    OBVIOUS
  <2>1. next \in 1..Len(Current.asked) /\ Len(Current.asked) = 1
    BY <1>1, InProgress DEF OneByOne
  <2>2. next = 1
    BY <2>1
  <2> QED BY <2>1, <2>2 DEF IsLast
<1>3. CASE SendCell \/ SendParts \/ SendArray
  <2>1. PICK guarded \in BOOLEAN, asked \in Seq(Pieces) : Begin(guarded, asked) /\ Len(asked) <= 1
    <3>1. CASE SendCell \/ SendParts
      <4>1. PICK guarded \in BOOLEAN, cell \in Cells : Begin(guarded, cell)
        BY <3>1 DEF SendCell, SendParts
      <4>2. cell \in Seq(Pieces) /\ Len(cell) <= 1
        BY CellsAssumption DEF Short
      <4> QED BY <4>1, <4>2
    <3>2. CASE SendArray
      <4>1. PICK length \in Lengths, bufLen \in SendBuffers, shape \in {"row", "column", "not uint8"} :
              Begin(FALSE, Chunks(length, bufLen, shape))
        BY <3>2 DEF SendArray
      <4>2. length \in Nat /\ bufLen \in Nat \ {0} /\ length < bufLen
        BY LengthsAssumption, BuffersAssumption DEF Short
      <4>3. PICK asked : asked = Chunks(length, bufLen, shape)
        OBVIOUS
      <4>4. asked \in Seq(Pieces) /\ Len(asked) <= 1
        BY <4>2, <4>3, ShortArray, ChunksArePieces
      <4>5. Begin(FALSE, asked)
        BY <4>1, <4>3
      <4> QED BY <4>4, <4>5
    <3> QED BY <1>3, <3>1, <3>2
  <2>2. Current'.asked = asked /\ (Sending' => asked # <<>>)
    BY <1>1, <2>1, BeginChanges
  <2>3. Sending' => Len(Current'.asked) = 1
    <3>1. asked # <<>> => Len(asked) = 1
      <4>1. asked \in Seq(Pieces) /\ Len(asked) <= 1
        BY <2>1
      <4>2. PICK n \in Nat : n = Len(asked)
        BY <4>1
      <4>3. n <= 1 /\ (n = 0 => asked = <<>>)
        BY <4>1, <4>2
      <4> QED BY <4>2, <4>3
    <3> QED BY <2>2, <3>1
  <2>4. UNCHANGED <<staged, sent>>
    BY <2>1 DEF Begin
  <2> QED BY <2>3, <2>4 DEF OneByOne
<1>4. CASE SendFails
  <2>1. Ended("threw", Current.nbytes) /\ UNCHANGED <<staged, sent>>
    BY <1>2, <1>4 DEF SendFails
  <2>2. Current.nbytes \in Nat
    BY <1>1, <1>4, InProgress DEF SendFails, Call
  <2>3. Current'.state = "threw"
    BY <1>1, <1>4, <2>1, <2>2, EndedChanges DEF SendFails
  <2> QED BY <2>1, <2>3 DEF OneByOne, Sending
<1>5. CASE SendMore
  BY <1>2, <1>5 DEF SendMore
<1>6. CASE SendLast
  <2>1. Ended("returned", Current.nbytes + Piece.len) /\ staged' = <<>>
    BY <1>6 DEF SendLast
  <2>2. Current.nbytes + Piece.len \in Nat
    BY <1>1, <1>6, InProgress DEF SendLast, Call, Pieces
  <2>3. Current'.state = "returned"
    BY <1>1, <1>6, <2>1, <2>2, EndedChanges DEF SendLast
  <2>4. /\ Len(sent') = Len(sent) + 1 /\ sent'[Len(sent) + 1] = Append(staged, ThisPart)
        /\ \A m \in 1..Len(sent) : sent'[m] = sent[m]
    BY <1>1, <1>6, SendLastSends
  <2>5. Len(Append(staged, ThisPart)) = 1
    BY DEF OneByOne
  <2>6. \A m \in 1..Len(sent') : Len(sent'[m]) = 1
    <3>1. ASSUME NEW m \in 1..Len(sent') PROVE m \in 1..Len(sent) \/ m = Len(sent) + 1
      BY <1>1, <2>4
    <3>2. \A m \in 1..Len(sent) : Len(sent'[m]) = 1
      BY <2>4 DEF OneByOne
    <3> QED BY <2>4, <2>5, <3>1, <3>2
  <2> QED BY <2>1, <2>3, <2>6 DEF OneByOne, Sending
<1>7. CASE RecvCall \/ RecvPart \/ RecvFails
  BY <1>7 DEF RecvCall, RecvPart, RecvFails, senderVars, OneByOne, Sending, Current
<1>8. CASE UNCHANGED vars
  BY <1>8 DEF vars, senderVars, OneByOne, Sending, Current
<1> QED BY <1>3, <1>4, <1>5, <1>6, <1>7, <1>8 DEF Next, SendStep

\* What Socket.m:253 says of recv_string is true where every string sent is shorter than the
\* buffer: it returns all of one message, whatever failed or timed out before.
THEOREM ShortStringsWhole ==
  ASSUME Short
  PROVE  Spec => []StringsWhole
<1>1. Init => OneByOne
  BY DEF Init, OneByOne, Sending
<1>2. Inv /\ OneByOne /\ [Next]_vars => OneByOne'
  BY OneByOneNext
<1>3. OneByOne /\ ReceivedWhole /\ TypeOK => StringsWhole
  <2> SUFFICES ASSUME OneByOne, ReceivedWhole, TypeOK, NEW j \in 1..Len(received),
                      received[j].method = "string"
               PROVE  Len(received[j].parts) = Len(sent[j])
    BY DEF StringsWhole
  <2>1. j \in 1..taken /\ j \in 1..Len(sent)
    BY DEF ReceivedWhole, TypeOK
  <2>2. PICK parts : received[j].parts = <<parts[1]>>
    BY <2>1 DEF ReceivedWhole, Returned
  <2> QED BY <2>1, <2>2 DEF OneByOne
<1> QED BY <1>1, <1>2, <1>3, SpecInv, MessagesWhole, TypeCorrect, PTL DEF Spec
=============================================================================
