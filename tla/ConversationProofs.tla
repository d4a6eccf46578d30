------------------------- MODULE ConversationProofs -------------------------
(***************************************************************************)
(* Theorems about Conversation: for every id, opening, number of handlers  *)
(* and descriptors, the server reads what the client says as it was meant, *)
(* the two agree on the client's id, what the client is told of a session  *)
(* was true, all of it is bytes, and the server remains a Server.          *)
(*                                                                         *)
(* The first part is about module Wire: reading finds exactly what writing *)
(* wrote, whatever follows it, and nothing where nothing is.  Then Inv:    *)
(* what is on its way to Mine is the Greeting if it has not been read, then*)
(* the payload that is due, then whole requests.  Then FullInv: what is on *)
(* its way to the client is what it waits for, and of the list, sessions   *)
(* as they are or were.  Last, ClientType: whatever is read of bytes, also *)
(* what was not meant for the reader, leaves bytes.                        *)
(***************************************************************************)
EXTENDS Conversation, Induction, SequenceTheorems, FiniteSetTheorems

-----------------------------------------------------------------------------
(* Reading back what was written.                                          *)
Values == Int \cup Seq(Int)
Reading(values, rest, then) ==
  [status |-> "ok", values |-> values, rest |-> rest, then |-> then]

LEMMA Assoc ==
  ASSUME NEW a \in Seq(Int), NEW b \in Seq(Int), NEW c \in Seq(Int)
  PROVE  (a \o b) \o c = a \o (b \o c)
  BY SMTT(30)

(* One stream before another, and a value after others.                    *)
Before(a, b) == a \o b
With(v, value) == Append(v, value)
NoValues       == <<>>

LEMMA BeforeSeq ==
  ASSUME NEW a \in Seq(Int), NEW b \in Seq(Int)
  PROVE  Before(a, b) \in Seq(Int)
  BY DEF Before

LEMMA BeforeAssoc ==
  ASSUME NEW a \in Seq(Int), NEW b \in Seq(Int), NEW c \in Seq(Int)
  PROVE  Before(Before(a, b), c) = Before(a, Before(b, c))
  BY Assoc DEF Before

LEMMA WithSeq ==
  ASSUME NEW v \in Seq(Values), NEW value \in Values
  PROVE  With(v, value) \in Seq(Values)
  BY DEF With

(* A reading, its parts, and a reading with some of them changed.          *)
LEMMA Parts ==
  ASSUME NEW v, NEW b, NEW x
  PROVE  /\ Reading(v, b, x).status = "ok" /\ Reading(v, b, x).values = v
         /\ Reading(v, b, x).rest = b /\ Reading(v, b, x).then = x
  BY DEF Reading

Holding(r, w) == [r EXCEPT !.values = w]

LEMMA NewValues ==
  ASSUME NEW v, NEW w, NEW b, NEW x
  PROVE  Holding(Reading(v, b, x), w) = Reading(w, b, x)
  BY DEF Reading, Holding

LEMMA NewRest ==
  ASSUME NEW v, NEW b, NEW c, NEW x
  PROVE  [Reading(v, b, x) EXCEPT !.rest = c] = Reading(v, c, x)
  BY DEF Reading

Further(r, w, c) == [r EXCEPT !.values = w, !.rest = c]

LEMMA NewBoth ==
  ASSUME NEW v, NEW w, NEW b, NEW c, NEW x
  PROVE  Further(Reading(v, b, x), w, c) = Reading(w, c, x)
<1> DEFINE r == Reading(v, b, x)
           s == Holding(r, w)
<1>1. Further(r, w, c) = [s EXCEPT !.rest = c]
  BY DEF Further, Holding
<1>2. s = Reading(w, b, x)
  BY NewValues
<1> HIDE DEF s
<1> QED BY <1>1, <1>2, NewRest

\* An array, and no more than the array, is taken off the front.
LEMMA TakeReads ==
  ASSUME NEW v \in Seq(Values), NEW a \in Seq(Int), NEW b \in Seq(Int), NEW x
  PROVE  T!Take(Reading(v, a \o b, x), Len(a)) = Reading(Append(v, a), b, x)
<1> DEFINE all == a \o b
           w   == Append(v, a)
           r   == Reading(v, all, x)
           taken == [r EXCEPT !.values = Append(@, SubSeq(r.rest, 1, Len(a))),
                              !.rest   = SubSeq(@, Len(a) + 1, Len(@))]
<1>1. Len(a) <= Len(all) /\ SubSeq(all, 1, Len(a)) = a /\ SubSeq(all, Len(a) + 1, Len(all)) = b
  OBVIOUS
<1>2. Append(v, a) = w
  OBVIOUS
<1> HIDE DEF all, w
<1>3. r.status = "ok" /\ r.rest = all /\ r.values = v
  BY Parts
<1>4. taken = Further(r, w, b)
  BY <1>1, <1>2, <1>3 DEF Further
<1>5. taken = Reading(w, b, x)
  BY <1>4, NewBoth
<1>6. T!Take(r, Len(a)) = taken
  <2> HIDE DEF r
  <2> QED BY <1>1, <1>3 DEF T!Take, T!Then, T!Once
<1> QED BY <1>5, <1>6 DEF all, w

LEMMA LatestReads ==
  ASSUME NEW v \in Seq(Values), NEW a \in Values, NEW b, NEW x
  PROVE  T!Latest(Reading(Append(v, a), b, x)) = a
<1> DEFINE w == Append(v, a)
           r == Reading(w, b, x)
<1>1. w[Len(w)] = a
  OBVIOUS
<1> HIDE DEF w
<1>2. r.values = w
  BY Parts
<1> HIDE DEF r
<1>3. T!Latest(r) = a
  BY <1>1, <1>2 DEF T!Latest
<1> QED BY <1>3 DEF r, w

LEMMA DropReads ==
  ASSUME NEW v \in Seq(Values), NEW a \in Values, NEW b, NEW x
  PROVE  T!Drop(Reading(Append(v, a), b, x)) = Reading(v, b, x)
<1> DEFINE w == Append(v, a)
           r == Reading(w, b, x)
<1>1. SubSeq(w, 1, Len(w) - 1) = v
  OBVIOUS
<1> HIDE DEF w
<1>2. T!Drop(r) = Holding(r, v)
  BY <1>1, Parts DEF T!Drop, Holding
<1> QED BY <1>2, NewValues DEF w

LEMMA ReplaceReads ==
  ASSUME NEW v \in Seq(Values), NEW a \in Values, NEW value \in Values, NEW b, NEW x
  PROVE  T!Replace(Reading(Append(v, a), b, x), value) = Reading(Append(v, value), b, x)
<1> DEFINE w == Append(v, a)
           r == Reading(w, b, x)
           y == Append(v, value)
           z == [w EXCEPT ![Len(w)] = value]
<1>1. z = y
  <2>1. Len(w) = Len(v) + 1 /\ DOMAIN z = 1..(Len(v) + 1) /\ DOMAIN y = 1..(Len(v) + 1)
    OBVIOUS
  <2>2. w \in Seq(Values) /\ y \in Seq(Values)
    OBVIOUS
  <2>3. z \in Seq(Values)
    BY <2>1, <2>2
  <2>4. \A i \in 1..Len(v) : z[i] = y[i]
    <3>1. \A i \in 1..Len(v) : w[i] = v[i]
      OBVIOUS
    <3>2. \A i \in 1..Len(v) : y[i] = v[i]
      OBVIOUS
    <3>3. \A i \in 1..Len(v) : i \in DOMAIN w /\ i # Len(w)
      BY <2>1
    <3> HIDE DEF w, y
    <3>4. \A i \in 1..Len(v) : z[i] = w[i]
      BY <3>3
    <3> QED BY <3>1, <3>2, <3>4
  <2>5. z[Len(v) + 1] = value /\ y[Len(v) + 1] = value
    BY <2>1
  <2>6. \A i \in 1..(Len(v) + 1) : i \in 1..Len(v) \/ i = Len(v) + 1
    OBVIOUS
  <2> HIDE DEF z, y
  <2> QED BY <2>1, <2>2, <2>3, <2>4, <2>5, <2>6
<1> HIDE DEF w, y, z
<1>2. r.values = w
  BY Parts
<1>3. T!Replace(r, value) = Holding(r, z)
  BY <1>2 DEF T!Replace, Holding, z
<1> QED BY <1>1, <1>3, NewValues DEF w, y

\* A number of two bytes is written as its high and its low byte.
Says(w, n) == w \in Seq(Int) /\ Len(w) = 2 /\ 256 * w[1] + w[2] = n

LEMMA TwoBytes ==
  ASSUME NEW n \in Nat, n < 65536
  PROVE  Says(T!WriteUint16(n), n)
<1> DEFINE high == n \div 256
           low  == n % 256
<1>01. low \in Nat /\ low < 256
  OBVIOUS
<1>02. high \in Int
  OBVIOUS
<1>03. n = 256 * high + low
  OBVIOUS
<1> HIDE DEF high, low
<1>1. high \in 0..255 /\ low \in 0..255 /\ 256 * high + low = n
  BY <1>01, <1>02, <1>03
<1>2. high % 256 = high
  BY <1>1
<1> QED BY <1>1, <1>2 DEF Says, T!WriteUint16, high, low

\* What Write... wrote, Read... reads.
LEMMA Uint16Reads ==
  ASSUME NEW v \in Seq(Values), NEW n \in Nat, n < 65536, NEW b \in Seq(Int), NEW x
  PROVE  T!ReadUint16(Reading(v, T!WriteUint16(n) \o b, x)) = Reading(Append(v, n), b, x)
<1> DEFINE a == T!WriteUint16(n)
           t == Reading(Append(v, a), b, x)
<1>0. Says(a, n)
  BY TwoBytes
<1> HIDE DEF a
<1>1. a \in Values /\ n \in Values
  BY <1>0 DEF Values, Says
<1>2. T!Take(Reading(v, a \o b, x), 2) = t
  <2>1. a \in Seq(Int)
    BY <1>0 DEF Says
  <2>2. T!Take(Reading(v, a \o b, x), Len(a)) = t
    BY <2>1, TakeReads
  <2>3. Len(a) = 2
    BY <1>0 DEF Says
  <2> HIDE DEF t
  <2> QED BY <2>2, <2>3
<1>3. T!Latest(t) = a
  BY <1>1, LatestReads
<1>4. T!Replace(t, n) = Reading(Append(v, n), b, x)
  BY <1>1, ReplaceReads
<1>5. t.status = "ok"
  BY Parts
<1> HIDE DEF t
<1>6. T!ReadUint16(Reading(v, a \o b, x)) = T!Replace(t, 256 * T!Latest(t)[1] + T!Latest(t)[2])
  BY <1>2, <1>5 DEF T!ReadUint16, T!Then, T!Once
<1> QED BY <1>0, <1>3, <1>4, <1>6 DEF Says, a

LEMMA Uint8Reads ==
  ASSUME NEW v \in Seq(Values), NEW n \in Nat, n < 256, NEW b \in Seq(Int), NEW x
  PROVE  T!ReadUint8(Reading(v, T!WriteUint8(n) \o b, x)) = Reading(Append(v, n), b, x)
<1> DEFINE a == T!WriteUint8(n)
           t == Reading(Append(v, a), b, x)
<1>0. a \in Seq(Int) /\ Len(a) = 1 /\ a[1] = n
  BY DEF T!WriteUint8
<1> HIDE DEF a
<1>1. a \in Values /\ n \in Values
  BY <1>0 DEF Values
<1>2. T!Take(Reading(v, a \o b, x), 1) = t
  <2>1. a \in Seq(Int)
    BY <1>0
  <2>2. T!Take(Reading(v, a \o b, x), Len(a)) = t
    BY <2>1, TakeReads
  <2>3. Len(a) = 1
    BY <1>0
  <2> HIDE DEF t
  <2> QED BY <2>2, <2>3
<1>3. T!Latest(t) = a
  BY <1>1, LatestReads
<1>4. T!Replace(t, n) = Reading(Append(v, n), b, x)
  BY <1>1, ReplaceReads
<1>5. t.status = "ok"
  BY Parts
<1> HIDE DEF t
<1>6. T!ReadUint8(Reading(v, a \o b, x)) = T!Replace(t, T!Latest(t)[1])
  BY <1>2, <1>5 DEF T!ReadUint8, T!Then, T!Once
<1> QED BY <1>0, <1>3, <1>4, <1>6 DEF a

\* A PID that is the expected one is read and dropped.
LEMMA ExpectedReads ==
  ASSUME NEW v \in Seq(Values), NEW pid \in Nat, pid < 65536, NEW b \in Seq(Int), NEW x
  PROVE  T!ReadField(Reading(v, Before(T!WriteUint16(pid), b), x), T!PidOf(pid))
           = Reading(v, b, x)
<1> DEFINE r == Reading(v, T!WriteUint16(pid) \o b, x)
           t == Reading(Append(v, pid), b, x)
<1>1. pid \in Values
  BY DEF Values
<1>2. T!ReadUint16(r) = t
  BY Uint16Reads
<1>3. T!Latest(t) = pid
  BY <1>1, LatestReads
<1>4. T!Drop(t) = Reading(v, b, x)
  BY <1>1, DropReads
<1>5. t.status = "ok"
  BY Parts
<1> HIDE DEF t, r
<1>6. T!PidOf(pid).is = "expected" /\ T!PidOf(pid).arg = pid
  BY DEF T!PidOf, T!Field
<1>7. T!ReadField(r, T!PidOf(pid)) =
        T!Then(T!ReadUint16(r), LAMBDA u :
          IF T!Latest(u) = T!PidOf(pid).arg THEN T!Drop(u) ELSE [u EXCEPT !.status = "unexpected"])
  BY <1>6 DEF T!ReadField
<1>8. T!ReadField(r, T!PidOf(pid)) = T!Drop(t)
  BY <1>2, <1>3, <1>5, <1>6, <1>7 DEF T!Then, T!Once
<1> QED BY <1>4, <1>8 DEF r, Before

\* A text within its limit is read whole.
LEMMA StringReads ==
  ASSUME NEW v \in Seq(Values), NEW text \in Seq(Int), NEW max \in Nat,
         Len(text) <= max, max < 65536, NEW b \in Seq(Int), NEW x
  PROVE  T!ReadField(Reading(v, Before(T!WriteString(text), b), x), T!String(max))
           = Reading(With(v, text), b, x)
<1> DEFINE n == Len(text)
           more == text \o b
           r == Reading(v, T!WriteUint16(n) \o more, x)
           t == Reading(Append(v, n), more, x)
<1>1. n \in Nat /\ n < 65536 /\ more \in Seq(Int)
  OBVIOUS
<1>2. n \in Values
  BY <1>1 DEF Values
<1>3. T!WriteUint16(n) \in Seq(Int)
  <2> HIDE DEF n
  <2>1. Says(T!WriteUint16(n), n)
    BY <1>1, TwoBytes
  <2> QED BY <2>1 DEF Says
<1>4. T!WriteString(text) \o b = T!WriteUint16(n) \o more
  <2> DEFINE w == T!WriteUint16(n)
  <2>1. w \in Seq(Int)
    BY <1>3
  <2>2. w \o text = T!WriteString(text)
    BY DEF T!WriteString
  <2> HIDE DEF w
  <2>3. Before(Before(w, text), b) = Before(w, Before(text, b))
    BY <2>1, BeforeAssoc
  <2> QED BY <2>2, <2>3 DEF Before, w
<1>5. T!Take(Reading(v, more, x), n) = Reading(Append(v, text), b, x)
  BY TakeReads
<1> HIDE DEF more
<1>6. n <= max
  OBVIOUS
<1> HIDE DEF n
<1>7. T!ReadUint16(r) = t
  BY <1>1, Uint16Reads
<1>8. T!Latest(t) = n
  BY <1>2, LatestReads
<1>9. T!Drop(t) = Reading(v, more, x)
  BY <1>2, DropReads
<1>10. t.status = "ok"
  BY Parts
<1> HIDE DEF t, r
<1>11. T!ReadString(r, max) = T!Take(T!Drop(t), n)
  BY <1>1, <1>6, <1>7, <1>8, <1>10 DEF T!ReadString, T!Then, T!Once
<1>12. T!ReadField(r, T!String(max)) = T!ReadString(r, max)
  BY DEF T!ReadField, T!String, T!Field
<1> QED BY <1>4, <1>5, <1>9, <1>11, <1>12 DEF r, Before, With

LEMMA ArrayReads ==
  ASSUME NEW v \in Seq(Values), NEW a \in Seq(Int), NEW n, Len(a) = n, NEW b \in Seq(Int), NEW x
  PROVE  T!ReadField(Reading(v, Before(a, b), x), T!Array(n)) = Reading(With(v, a), b, x)
<1> DEFINE r == Reading(v, Before(a, b), x)
<1>1. T!Take(r, Len(a)) = Reading(With(v, a), b, x)
  BY TakeReads DEF Before, With
<1> HIDE DEF r
<1>2. T!Array(n).is = "array" /\ T!Array(n).arg = n
  BY DEF T!Array, T!Field
<1> QED BY <1>1, <1>2 DEF T!ReadField, r

LEMMA Uint16FieldReads ==
  ASSUME NEW v \in Seq(Values), NEW n \in Nat, n < 65536, NEW b \in Seq(Int), NEW x
  PROVE  T!ReadField(Reading(v, Before(T!WriteUint16(n), b), x), T!Uint16)
           = Reading(With(v, n), b, x)
<1>1. T!Uint16.is = "uint16"
  BY DEF T!Uint16, T!Field
<1> QED BY <1>1, Uint16Reads DEF T!ReadField, Before, With

(* Field by field.                                                         *)
LEMMA FieldsOneByOne ==
  ASSUME NEW stream, NEW more, NEW fields, Len(fields) \in Nat
  PROVE  /\ T!ReadUpTo(stream, more, fields)[0] = T!Start(stream, more)
         /\ \A n \in 1..Len(fields) :
              T!ReadUpTo(stream, more, fields)[n] =
                T!ReadField(T!ReadUpTo(stream, more, fields)[n - 1], fields[n])
<1> DEFINE size == Len(fields)
           next(f, n) == IF n = 0 THEN T!Start(stream, more) ELSE T!ReadField(f[n - 1], fields[n])
           upTo(f, n) == f = [m \in 0..n |-> next(f, m)]
           Done == {n \in Nat : \E f : upTo(f, n)}
<1>0. size \in Nat
  OBVIOUS
<1>1. 0 \in Done
  <2>1. upTo([m \in 0..0 |-> T!Start(stream, more)], 0)
    OBVIOUS
  <2> QED BY <2>1
<1>2. ASSUME NEW n \in Nat, n \in Done
      PROVE  n + 1 \in Done
  <2>1. PICK f : upTo(f, n)
    BY <1>2
  <2> DEFINE it(m) == IF m = n + 1 THEN T!ReadField(f[n], fields[n + 1]) ELSE f[m]
             g     == [m \in 0..(n + 1) |-> it(m)]
  <2>2. n + 1 \in 0..(n + 1) /\ \A m \in 0..n : m \in 0..(n + 1) /\ m # n + 1
    OBVIOUS
  <2>3. /\ it(n + 1) = T!ReadField(f[n], fields[n + 1])
        /\ \A m \in 0..n : it(m) = f[m]
    BY <2>2
  <2> HIDE DEF it
  <2>4. /\ g = [m \in 0..(n + 1) |-> it(m)]
        /\ \A m \in 0..(n + 1) : g[m] = it(m)
        /\ g[n + 1] = T!ReadField(f[n], fields[n + 1])
        /\ \A m \in 0..n : g[m] = f[m]
    BY <2>2, <2>3
  <2>5. \A m \in 0..n : f[m] = next(f, m)
    BY <2>1
  <2> HIDE DEF g
  <2>6. ASSUME NEW m \in 0..(n + 1)
        PROVE  g[m] = next(g, m)
    <3>1. CASE m = n + 1
      <4>1. m # 0 /\ m - 1 = n /\ n \in 0..n
        BY <3>1
      <4> QED BY <2>4, <3>1, <4>1
    <3>2. CASE m = 0
      <4>1. 0 \in 0..n
        OBVIOUS
      <4> QED BY <2>4, <2>5, <3>2, <4>1
    <3>3. CASE m \in 1..n
      <4>1. m # 0 /\ m \in 0..n /\ m - 1 \in 0..n
        BY <3>3
      <4> QED BY <2>4, <2>5, <4>1
    <3> QED BY <3>1, <3>2, <3>3
  <2> HIDE DEF next
  <2>7. upTo(g, n + 1)
    BY <2>4, <2>6
  <2> QED BY <2>7
<1> HIDE DEF Done
<1>3. size \in Done
  BY <1>0, <1>1, <1>2, InductionOnSet
<1>4. \E f : upTo(f, size)
  BY <1>3 DEF Done
<1>5. T!ReadUpTo(stream, more, fields) = CHOOSE f : upTo(f, size)
  BY DEF T!ReadUpTo
<1>6. upTo(T!ReadUpTo(stream, more, fields), size)
  BY <1>4, <1>5
<1> HIDE DEF size
<1>8. \A n \in 0..size :
        T!ReadUpTo(stream, more, fields)[n] = next(T!ReadUpTo(stream, more, fields), n)
  BY <1>6
<1>9. 0 \in 0..size /\ \A n \in 1..size : n \in 0..size /\ n # 0
  BY <1>0
<1> QED BY <1>0, <1>8, <1>9 DEF size

Begun(more) == IF more THEN "more" ELSE "end"

LEMMA Starts ==
  ASSUME NEW stream, NEW more
  PROVE  T!Start(stream, more) = Reading(NoValues, stream, Begun(more))
  BY DEF T!Start, Reading, Begun, NoValues

LEMMA ReadOne ==
  ASSUME NEW stream, NEW more, NEW f1
  PROVE  T!Read(stream, more, <<f1>>) = T!ReadField(T!Start(stream, more), f1)
<1> DEFINE fields == <<f1>>
           upTo   == T!ReadUpTo(stream, more, fields)
<1>1. Len(fields) = 1 /\ fields[1] = f1
  OBVIOUS
<1> HIDE DEF fields
<1>2. upTo[0] = T!Start(stream, more) /\ upTo[1] = T!ReadField(upTo[1 - 1], fields[1])
  BY <1>1, FieldsOneByOne
<1> QED BY <1>1, <1>2 DEF T!Read, fields

LEMMA ReadTwo ==
  ASSUME NEW stream, NEW more, NEW f1, NEW f2
  PROVE  T!Read(stream, more, <<f1, f2>>)
           = T!ReadField(T!ReadField(T!Start(stream, more), f1), f2)
<1> DEFINE fields == <<f1, f2>>
           upTo   == T!ReadUpTo(stream, more, fields)
<1>1. Len(fields) = 2 /\ fields[1] = f1 /\ fields[2] = f2
  OBVIOUS
<1> HIDE DEF fields
<1>2. /\ upTo[0] = T!Start(stream, more)
      /\ upTo[1] = T!ReadField(upTo[1 - 1], fields[1])
      /\ upTo[2] = T!ReadField(upTo[2 - 1], fields[2])
  <2>1. 1 \in 1..Len(fields) /\ 2 \in 1..Len(fields) /\ Len(fields) \in Nat
    BY <1>1
  <2> QED BY <2>1, FieldsOneByOne
<1> QED BY <1>1, <1>2 DEF T!Read, fields

LEMMA ReadFour ==
  ASSUME NEW stream, NEW more, NEW f1, NEW f2, NEW f3, NEW f4
  PROVE  T!Read(stream, more, <<f1, f2, f3, f4>>)
           = T!ReadField(T!ReadField(T!ReadField(T!ReadField(T!Start(stream, more),
                                                             f1), f2), f3), f4)
<1> DEFINE fields == <<f1, f2, f3, f4>>
           upTo   == T!ReadUpTo(stream, more, fields)
<1>1. Len(fields) = 4 /\ fields[1] = f1 /\ fields[2] = f2 /\ fields[3] = f3 /\ fields[4] = f4
  OBVIOUS
<1> HIDE DEF fields
<1>2. /\ upTo[0] = T!Start(stream, more)
      /\ upTo[1] = T!ReadField(upTo[1 - 1], fields[1])
      /\ upTo[2] = T!ReadField(upTo[2 - 1], fields[2])
      /\ upTo[3] = T!ReadField(upTo[3 - 1], fields[3])
      /\ upTo[4] = T!ReadField(upTo[4 - 1], fields[4])
  <2>1. /\ 1 \in 1..Len(fields) /\ 2 \in 1..Len(fields)
        /\ 3 \in 1..Len(fields) /\ 4 \in 1..Len(fields) /\ Len(fields) \in Nat
    BY <1>1
  <2> QED BY <2>1, FieldsOneByOne
<1> QED BY <1>1, <1>2 DEF T!Read, fields

LEMMA WriteSeq ==
  /\ \A n \in Nat : n < 65536 => T!WriteUint16(n) \in Seq(Int)
  /\ \A text \in Seq(Int) : Len(text) < 65536 => T!WriteString(text) \in Seq(Int)
<1>1. \A n \in Nat : n < 65536 => T!WriteUint16(n) \in Seq(Int)
  BY TwoBytes DEF Says
<1>2. ASSUME NEW text \in Seq(Int), Len(text) < 65536
      PROVE  T!WriteString(text) \in Seq(Int)
  <2>1. T!WriteUint16(Len(text)) \in Seq(Int)
    BY <1>1, <1>2
  <2> QED BY <2>1 DEF T!WriteString
<1> QED BY <1>1, <1>2

(* A Greeting is read to its last byte, whoever sends it.                  *)
LEMMA GreetingReads ==
  ASSUME NEW version \in Nat, version < 65536,
         NEW name \in Seq(Int), Len(name) <= 63, NEW id \in Seq(Int), Len(id) <= 127,
         NEW b \in Seq(Int), NEW more
  PROVE  T!Read(T!Greeting(version, name, id) \o b, more, T!GreetingFields)
           = Reading(With(With(With(NoValues, version), name), id), b, Begun(more))
<1> DEFINE x  == Begun(more)
           a1 == T!WriteUint16(T!PidGreeting)
           a2 == T!WriteUint16(version)
           a3 == T!WriteString(name)
           a4 == T!WriteString(id)
           b3 == Before(a4, b)
           b2 == Before(a3, b3)
           b1 == Before(a2, b2)
           stream == Before(a1, b1)
           v1 == With(NoValues, version)
           v2 == With(v1, name)
           v3 == With(v2, id)
<1>1. T!PidGreeting \in Nat /\ T!PidGreeting < 65536
  BY DEF T!PidGreeting
<1>2. Len(name) \in Nat /\ Len(id) \in Nat
  OBVIOUS
<1>3. a1 \in Seq(Int) /\ a2 \in Seq(Int) /\ a3 \in Seq(Int) /\ a4 \in Seq(Int)
  <2>1. Len(name) < 65536 /\ Len(id) < 65536
    BY <1>2
  <2> QED BY <1>1, <2>1, WriteSeq
<1>4. version \in Values /\ name \in Values /\ id \in Values /\ NoValues \in Seq(Values)
  BY DEF Values, NoValues
<1>5. v1 \in Seq(Values) /\ v2 \in Seq(Values)
  BY <1>4, WithSeq
<1> HIDE DEF a1, a2, a3, a4, v1, v2, v3
<1>7. b3 \in Seq(Int) /\ b2 \in Seq(Int) /\ b1 \in Seq(Int)
  BY <1>3, BeforeSeq
<1>8. Before(Before(Before(Before(a1, a2), a3), a4), b) = stream
  <2>1. Before(a1, a2) \in Seq(Int) /\ Before(Before(a1, a2), a3) \in Seq(Int)
    BY <1>3, BeforeSeq
  <2>2. Before(Before(Before(Before(a1, a2), a3), a4), b) = Before(Before(Before(a1, a2), a3), b3)
    BY <1>3, <2>1, BeforeAssoc
  <2>3. Before(Before(Before(a1, a2), a3), b3) = Before(Before(a1, a2), b2)
    BY <1>3, <1>7, <2>1, BeforeAssoc
  <2>4. Before(Before(a1, a2), b2) = stream
    BY <1>3, <1>7, <2>1, BeforeAssoc
  <2> QED BY <2>2, <2>3, <2>4
<1>9. T!Greeting(version, name, id) \o b = stream
  BY <1>8 DEF T!Greeting, a1, a2, a3, a4, Before
<1> HIDE DEF b3, b2, b1, stream, x
<1>10. T!ReadField(Reading(NoValues, stream, x), T!PidOf(T!PidGreeting)) = Reading(NoValues, b1, x)
  BY <1>1, <1>4, <1>7, ExpectedReads DEF a1, stream
<1>11. T!ReadField(Reading(NoValues, b1, x), T!Uint16) = Reading(v1, b2, x)
  BY <1>4, <1>7, Uint16FieldReads DEF b1, a2, v1
<1>12. T!ReadField(Reading(v1, b2, x), T!String(63)) = Reading(v2, b3, x)
  BY <1>5, <1>7, StringReads DEF b2, a3, v2
<1>13. T!ReadField(Reading(v2, b3, x), T!String(127)) = Reading(v3, b, x)
  BY <1>5, <1>7, StringReads DEF b3, a4, v3
<1>14. T!Start(stream, more) = Reading(NoValues, stream, x)
  BY Starts DEF x
<1>15. T!Read(stream, more, T!GreetingFields) = Reading(v3, b, x)
  BY <1>10, <1>11, <1>12, <1>13, <1>14, ReadFour DEF T!GreetingFields
<1> QED BY <1>9, <1>15 DEF x, v1, v2, v3

\* A PID, a move, a report of no men, and no payload at all.
LEMMA PidReads ==
  ASSUME NEW pid \in Nat, pid < 65536, NEW b \in Seq(Int), NEW more
  PROVE  T!Read(Before(T!WriteUint16(pid), b), more, T!PidFields)
           = Reading(With(NoValues, pid), b, Begun(more))
<1>1. NoValues \in Seq(Values)
  BY DEF Values, NoValues
<1> QED BY <1>1, Starts, ReadOne, Uint16FieldReads DEF T!PidFields

LEMMA MoveReads ==
  ASSUME NEW from \in Seq(Int), Len(from) = 4, NEW to \in Seq(Int), Len(to) = 4,
         NEW b \in Seq(Int), NEW more
  PROVE  T!Read(Before(Before(from, to), b), more, T!MoveFields)
           = Reading(With(With(NoValues, from), to), b, Begun(more))
<1> DEFINE x  == Begun(more)
           b1 == Before(to, b)
           v1 == With(NoValues, from)
           stream == Before(from, b1)
<1>0. NoValues \in Seq(Values)
  BY DEF Values, NoValues
<1>1. from \in Values
  BY DEF Values
<1>2. v1 \in Seq(Values) /\ b1 \in Seq(Int)
  BY <1>0, <1>1, WithSeq, BeforeSeq
<1>3. Before(Before(from, to), b) = stream
  BY BeforeAssoc
<1> HIDE DEF x, b1, v1, stream
<1>4. T!ReadField(Reading(NoValues, stream, x), T!Array(4)) = Reading(v1, b1, x)
  <2>1. b1 \in Seq(Int)
    BY <1>2
  <2>2. \A n : Len(from) = n =>
          T!ReadField(Reading(NoValues, Before(from, b1), x), T!Array(n))
            = Reading(With(NoValues, from), b1, x)
    BY <1>0, <2>1, ArrayReads
  <2> QED BY <2>2 DEF v1, stream
<1>5. T!ReadField(Reading(v1, b1, x), T!Array(4)) = Reading(With(v1, to), b, x)
  <2>1. \A n : Len(to) = n =>
          T!ReadField(Reading(v1, Before(to, b), x), T!Array(n)) = Reading(With(v1, to), b, x)
    BY <1>2, ArrayReads
  <2> QED BY <2>1 DEF b1
<1>6. T!Start(stream, more) = Reading(NoValues, stream, x)
  BY Starts DEF x
<1> QED BY <1>3, <1>4, <1>5, <1>6, ReadTwo DEF T!MoveFields, v1, x

\* A report of no men.
LEMMA VerifyReads ==
  ASSUME NEW b \in Seq(Int), NEW more
  PROVE  T!Read(Before(T!WriteUint8(0), b), more, T!VerifyFields)
           = Reading(With(NoValues, <<>>), b, Begun(more))
<1> DEFINE x == Begun(more)
           r == Reading(NoValues, Before(T!WriteUint8(0), b), x)
           t == Reading(With(NoValues, 0), b, x)
           f == T!Arrays(4)
<1>1. NoValues \in Seq(Values) /\ 0 \in Values
  BY DEF Values, NoValues
<1>2. T!ReadUint8(r) = t
  BY <1>1, Uint8Reads DEF Before, With
<1>3. T!Latest(t) = 0
  BY <1>1, LatestReads DEF With
<1>4. T!Drop(t) = Reading(NoValues, b, x)
  BY <1>1, DropReads DEF With
<1>5. t.status = "ok"
  BY Parts
<1>6. T!Take(Reading(NoValues, b, x), 0) = Reading(With(NoValues, <<>>), b, x)
  <2> DEFINE e == <<>>
  <2>1. e \in Seq(Int) /\ Len(e) = 0 /\ e \o b = b
    OBVIOUS
  <2> HIDE DEF e
  <2>2. T!Take(Reading(NoValues, e \o b, x), Len(e)) = Reading(With(NoValues, e), b, x)
    BY <1>1, <2>1, TakeReads DEF With
  <2> QED BY <2>1, <2>2 DEF e
<1> HIDE DEF t, r
<1>7. f.is = "arrays" /\ f.arg = 4
  BY DEF T!Arrays, T!Field
<1> HIDE DEF f
<1>8. T!ReadField(r, f) =
        T!Then(T!ReadUint8(r), LAMBDA u : T!Take(T!Drop(u), f.arg * T!Latest(u)))
  BY <1>7 DEF T!ReadField
<1>9. T!ReadField(r, f) = T!Take(T!Drop(t), 0)
  BY <1>2, <1>3, <1>5, <1>7, <1>8 DEF T!Then, T!Once
<1>10. T!Start(Before(T!WriteUint8(0), b), more) = r
  BY Starts DEF r
<1> QED BY <1>4, <1>6, <1>9, <1>10, ReadOne DEF T!VerifyFields, f

LEMMA NothingMore ==
  ASSUME NEW stream, NEW more
  PROVE  T!Read(stream, more, <<>>) = Reading(NoValues, stream, Begun(more))
<1> DEFINE fields == <<>>
<1>1. Len(fields) = 0
  OBVIOUS
<1> HIDE DEF fields
<1>2. T!ReadUpTo(stream, more, fields)[0] = T!Start(stream, more)
  BY <1>1, FieldsOneByOne
<1> QED BY <1>1, <1>2, Starts DEF T!Read, fields

(* Where there is nothing, nothing is read: what has not come is awaited,  *)
(* what will not come is missed, and neither is mistaken for something     *)
(* else.                                                                   *)
Stopped(status, rest, x) ==
  [status |-> status, values |-> NoValues, rest |-> rest, then |-> x]
Missing(more) == Stopped(IF more THEN "wait" ELSE "failed", <<>>, Begun(more))

Stop(r, status) == [r EXCEPT !.status = status]
Lose(r, rest)   == [r EXCEPT !.rest = rest]

LEMMA NewStatus ==
  ASSUME NEW status, NEW b, NEW c, NEW x
  PROVE  /\ Stop(Reading(NoValues, b, x), status) = Stopped(status, b, x)
         /\ Lose(Stopped(status, b, x), c) = Stopped(status, c, x)
         /\ Stopped(status, b, x).status = status
  BY DEF Reading, Stopped, Stop, Lose

\* Nothing is taken where nothing is, and a reading that has stopped stays.
LEMMA TakeMisses ==
  ASSUME NEW more \in BOOLEAN, NEW n \in Nat, n > 0
  PROVE  T!Take(T!Start(<<>>, more), n) = Missing(more)
<1> DEFINE e == <<>>
           r == Reading(NoValues, e, Begun(more))
<1>1. T!Start(e, more) = r
  BY Starts
<1>2. r.status = "ok" /\ r.rest = e /\ r.then = Begun(more)
  BY Parts
<1>3. Len(e) = 0
  OBVIOUS
<1> HIDE DEF e
<1>4. CASE more
  <2>1. Stop(r, "wait") = Missing(more)
    BY <1>4, NewStatus DEF Missing, e
  <2> HIDE DEF r
  <2>2. T!Take(r, n) = Stop(r, "wait")
    <3>1. r.status = "ok" /\ ~(Len(r.rest) >= n) /\ r.then = "more"
      BY <1>2, <1>3, <1>4 DEF Begun
    <3> QED BY <3>1, Zenon DEF Stop, T!Take, T!Then, T!Once
  <2> QED BY <1>1, <2>1, <2>2 DEF e
<1>5. CASE ~more
  <2>1. Lose(Stop(r, "failed"), <<>>) = Missing(more)
    BY <1>5, NewStatus DEF Missing
  <2> HIDE DEF r
  <2>2. T!Take(r, n) = [r EXCEPT !.status = "failed", !.rest = <<>>]
    BY <1>2, <1>3, <1>5 DEF T!Take, T!Then, T!Once, Begun
  <2>3. [r EXCEPT !.status = "failed", !.rest = <<>>]
          = Lose(Stop(r, "failed"), <<>>)
    BY DEF Stop, Lose
  <2> QED BY <1>1, <2>1, <2>2, <2>3 DEF e
<1> QED BY <1>4, <1>5

LEMMA MissedStays ==
  ASSUME NEW r, r.status # "ok", NEW max
  PROVE  /\ T!ReadField(r, T!Uint16) = r
         /\ T!ReadField(r, T!String(max)) = r
<1>1. T!Uint16.is = "uint16" /\ T!String(max).is = "string"
  BY DEF T!Uint16, T!String, T!Field
<1>2. T!Take(r, 2) = r
  BY DEF T!Take, T!Then, T!Once
<1>3. T!ReadUint16(r) = r
  BY <1>2 DEF T!ReadUint16, T!Then, T!Once
<1>4. T!ReadString(r, T!String(max).arg) = r
  BY <1>3 DEF T!ReadString, T!Then, T!Once
<1> QED BY <1>1, <1>3, <1>4 DEF T!ReadField

LEMMA NothingReads ==
  ASSUME NEW more \in BOOLEAN
  PROVE  /\ T!Read(<<>>, more, T!GreetingFields) = Missing(more)
         /\ T!Read(<<>>, more, T!PidFields) = Missing(more)
<1> DEFINE r == T!Start(<<>>, more)
           m == Missing(more)
<1>1. T!Take(r, 2) = m
  BY TakeMisses
<1>2. m.status # "ok"
  BY NewStatus DEF Missing
<1> HIDE DEF r, m
<1>3. T!ReadUint16(r) = m
  BY <1>1, <1>2 DEF T!ReadUint16, T!Then, T!Once
<1>4. T!PidOf(T!PidGreeting).is = "expected" /\ T!Uint16.is = "uint16"
  BY DEF T!PidOf, T!Field, T!Uint16
<1>5. T!ReadField(r, T!PidOf(T!PidGreeting)) = m
  BY <1>2, <1>3, <1>4 DEF T!ReadField, T!Then, T!Once
<1>6. T!ReadField(r, T!Uint16) = m
  BY <1>3, <1>4 DEF T!ReadField
<1>7. T!ReadField(m, T!Uint16) = m /\ \A max : T!ReadField(m, T!String(max)) = m
  BY <1>2, MissedStays
<1> QED BY <1>5, <1>6, <1>7, ReadOne, ReadFour DEF T!GreetingFields, T!PidFields, r, m

LEMMA NothingReadsPayload ==
  ASSUME NEW more \in BOOLEAN
  PROVE  /\ T!Read(<<>>, more, T!MoveFields).status # "ok"
         /\ T!Read(<<>>, more, T!VerifyFields).status # "ok"
<1> DEFINE r == T!Start(<<>>, more)
           m == Missing(more)
<1>1. T!Take(r, 4) = m /\ T!Take(r, 1) = m
  BY TakeMisses
<1>2. m.status # "ok"
  BY NewStatus DEF Missing
<1> HIDE DEF r, m
<1>3. T!Take(m, 4) = m
  BY <1>2 DEF T!Take, T!Then, T!Once
<1>4. T!ReadUint8(r) = m
  BY <1>1, <1>2 DEF T!ReadUint8, T!Then, T!Once
<1>5. /\ T!Array(4).is = "array" /\ T!Array(4).arg = 4
      /\ T!Arrays(4).is = "arrays" /\ T!Arrays(4).arg = 4
  BY DEF T!Array, T!Arrays, T!Field
<1>6. T!ReadField(r, T!Array(4)) = m /\ T!ReadField(m, T!Array(4)) = m
  BY <1>1, <1>3, <1>5 DEF T!ReadField
<1>7. T!ReadField(r, T!Arrays(4)) = m
  BY <1>2, <1>4, <1>5 DEF T!ReadField, T!Then, T!Once
<1> QED BY <1>2, <1>6, <1>7, ReadOne, ReadTwo DEF T!MoveFields, T!VerifyFields, r

-----------------------------------------------------------------------------
(* What the client reads of the server's answers.                          *)
LEMMA Uint8FieldReads ==
  ASSUME NEW v \in Seq(Values), NEW n \in Nat, n < 256, NEW b \in Seq(Int), NEW x
  PROVE  T!ReadField(Reading(v, Before(T!WriteUint8(n), b), x), T!Uint8)
           = Reading(With(v, n), b, x)
<1>1. T!Uint8.is = "uint8"
  BY DEF T!Uint8, T!Field
<1> QED BY <1>1, Uint8Reads DEF T!ReadField, Before, With

\* A text with a length of one byte.
LEMMA ShortReads ==
  ASSUME NEW v \in Seq(Values), NEW text \in Seq(Int), Len(text) < 256, NEW b \in Seq(Int), NEW x
  PROVE  T!ReadField(Reading(v, Before(T!WriteUint8(Len(text)), Before(text, b)), x), T!ShortText)
           = Reading(With(v, text), b, x)
<1> DEFINE n == Len(text)
           more == Before(text, b)
           r == Reading(v, Before(T!WriteUint8(n), more), x)
           t == Reading(With(v, n), more, x)
           f == T!ShortText
<1>1. n \in Nat /\ n < 256
  OBVIOUS
<1>2. more \in Seq(Int)
  BY BeforeSeq
<1>3. T!Take(Reading(v, more, x), n) = Reading(With(v, text), b, x)
  BY TakeReads DEF Before, With
<1> HIDE DEF n, more
<1>4. n \in Values
  BY <1>1 DEF Values
<1>5. T!ReadUint8(r) = t
  BY <1>1, <1>2, Uint8Reads DEF Before, With
<1>6. T!Latest(t) = n /\ T!Drop(t) = Reading(v, more, x)
  BY <1>4, LatestReads, DropReads DEF With
<1>7. t.status = "ok"
  BY Parts
<1> HIDE DEF r, t
<1>8. f.is = "short"
  BY DEF T!ShortText, T!Field
<1> HIDE DEF f
<1>9. T!ReadField(r, f) = T!Then(T!ReadUint8(r), LAMBDA u : T!Take(T!Drop(u), T!Latest(u)))
  BY <1>8 DEF T!ReadField
<1>10. T!ReadField(r, f) = T!Take(T!Drop(t), n)
  BY <1>5, <1>6, <1>7, <1>9 DEF T!Then, T!Once
<1> QED BY <1>3, <1>6, <1>10 DEF r, f, n, more

LEMMA ReadFive ==
  ASSUME NEW stream, NEW more, NEW f1, NEW f2, NEW f3, NEW f4, NEW f5
  PROVE  T!Read(stream, more, <<f1, f2, f3, f4, f5>>)
           = T!ReadField(T!ReadField(T!ReadField(T!ReadField(T!ReadField(T!Start(stream, more),
                                                     f1), f2), f3), f4), f5)
<1> DEFINE fields == <<f1, f2, f3, f4, f5>>
           upTo   == T!ReadUpTo(stream, more, fields)
<1>1. Len(fields) = 5 /\ fields[1] = f1 /\ fields[2] = f2 /\ fields[3] = f3 /\ fields[4] = f4
      /\ fields[5] = f5
  OBVIOUS
<1> HIDE DEF fields
<1>2. /\ upTo[0] = T!Start(stream, more)
      /\ upTo[1] = T!ReadField(upTo[1 - 1], fields[1])
      /\ upTo[2] = T!ReadField(upTo[2 - 1], fields[2])
      /\ upTo[3] = T!ReadField(upTo[3 - 1], fields[3])
      /\ upTo[4] = T!ReadField(upTo[4 - 1], fields[4])
      /\ upTo[5] = T!ReadField(upTo[5 - 1], fields[5])
  <2>1. /\ 1 \in 1..Len(fields) /\ 2 \in 1..Len(fields) /\ 3 \in 1..Len(fields)
        /\ 4 \in 1..Len(fields) /\ 5 \in 1..Len(fields) /\ Len(fields) \in Nat
    BY <1>1
  <2> QED BY <2>1, FieldsOneByOne
<1> QED BY <1>1, <1>2 DEF T!Read, fields

LEMMA Uint8Seq ==
  ASSUME NEW n \in Nat
  PROVE  T!WriteUint8(n) \in Seq(Int)
  BY DEF T!WriteUint8

\* A ConnectionSucceeded is read to its last byte.
LEMMA SucceededReads ==
  ASSUME NEW text \in Seq(Int), Len(text) <= 255, NEW b \in Seq(Int), NEW more
  PROVE  T!Read(Before(T!ConnectionSucceeded(text), b), more, T!SucceededFields)
           = Reading(With(NoValues, text), b, Begun(more))
<1> DEFINE x  == Begun(more)
           a1 == T!WriteUint16(T!PidConnectionSucceeded)
           a2 == T!WriteString(text)
           b1 == Before(a2, b)
           stream == Before(a1, b1)
<1>1. T!PidConnectionSucceeded \in Nat /\ T!PidConnectionSucceeded < 65536
  BY DEF T!PidConnectionSucceeded
<1>2. a1 \in Seq(Int) /\ a2 \in Seq(Int)
  <2>1. Len(text) < 65536
    OBVIOUS
  <2> QED BY <1>1, <2>1, WriteSeq
<1>3. NoValues \in Seq(Values)
  BY DEF NoValues
<1>4. T!ConnectionSucceeded(text) = Before(a1, a2)
  BY DEF T!ConnectionSucceeded, Before
<1> HIDE DEF a1, a2
<1>5. b1 \in Seq(Int) /\ Before(T!ConnectionSucceeded(text), b) = stream
  BY <1>2, <1>4, BeforeSeq, BeforeAssoc
<1> HIDE DEF b1, stream, x
<1>6. T!ReadField(Reading(NoValues, stream, x), T!PidOf(T!PidConnectionSucceeded))
        = Reading(NoValues, b1, x)
  BY <1>1, <1>3, <1>5, ExpectedReads DEF a1, stream
<1>7. T!ReadField(Reading(NoValues, b1, x), T!String(255)) = Reading(With(NoValues, text), b, x)
  BY <1>3, StringReads DEF b1, a2
<1>8. T!Start(stream, more) = Reading(NoValues, stream, x)
  BY Starts DEF x
<1> QED BY <1>5, <1>6, <1>7, <1>8, ReadTwo DEF T!SucceededFields, x

(* A GameSessionInfo is read to its last byte.                             *)
Word(n) == n \in Nat /\ n < 65536
Byte(n) == n \in Nat /\ n < 256

LEMMA WordReads ==
  ASSUME NEW v \in Seq(Values), NEW n, Word(n), NEW b \in Seq(Int), NEW x
  PROVE  /\ T!WriteUint16(n) \in Seq(Int) /\ n \in Values
         /\ T!ReadField(Reading(v, Before(T!WriteUint16(n), b), x), T!Uint16)
              = Reading(With(v, n), b, x)
         /\ T!ReadField(Reading(v, Before(T!WriteUint16(n), b), x), T!PidOf(n))
              = Reading(v, b, x)
<1>1. n \in Nat /\ n < 65536
  BY DEF Word
<1>2. n \in Values
  BY <1>1 DEF Values
<1> QED BY <1>1, <1>2, WriteSeq, Uint16FieldReads, ExpectedReads

LEMMA ByteReads ==
  ASSUME NEW v \in Seq(Values), NEW n, Byte(n), NEW b \in Seq(Int), NEW x
  PROVE  /\ T!WriteUint8(n) \in Seq(Int) /\ n \in Values
         /\ T!ReadField(Reading(v, Before(T!WriteUint8(n), b), x), T!Uint8)
              = Reading(With(v, n), b, x)
<1>1. n \in Nat /\ n < 256
  BY DEF Byte
<1>2. n \in Values
  BY <1>1 DEF Values
<1>3. T!WriteUint8(n) \in Seq(Int)
  BY <1>1, Uint8Seq
<1> QED BY <1>1, <1>2, <1>3, Uint8FieldReads

LEMMA InfoReads ==
  ASSUME NEW id, Word(id), NEW players, Byte(players), NEW name \in Seq(Int), Byte(Len(name)),
         NEW state, Byte(state), NEW b \in Seq(Int), NEW more
  PROVE  /\ T!GameSessionInfo(id, players, name, state) \in Seq(Int)
         /\ T!Read(Before(T!GameSessionInfo(id, players, name, state), b), more, T!InfoFields)
              = Reading(With(With(With(With(NoValues, id), players), name), state), b, Begun(more))
<1> DEFINE x  == Begun(more)
           a1 == T!WriteUint16(T!PidGameSessionInfo)
           a2 == T!WriteUint16(id)
           a3 == T!WriteUint8(players)
           a4 == T!WriteUint8(Len(name))
           a5 == T!WriteUint8(state)
           b5 == Before(a5, b)
           b4 == Before(a4, Before(name, b5))
           b3 == Before(a3, b4)
           b2 == Before(a2, b3)
           stream == Before(a1, b2)
           v1 == With(NoValues, id)
           v2 == With(v1, players)
           v3 == With(v2, name)
           v4 == With(v3, state)
<1>1. Word(T!PidGameSessionInfo)
  BY DEF T!PidGameSessionInfo, Word
<1>2. a1 \in Seq(Int) /\ a2 \in Seq(Int) /\ a3 \in Seq(Int) /\ a4 \in Seq(Int) /\ a5 \in Seq(Int)
  <2>1. <<>> \in Seq(Values) /\ <<>> \in Seq(Int)
    OBVIOUS
  <2> QED BY <1>1, <2>1, WordReads, ByteReads
<1>3. id \in Values /\ players \in Values /\ name \in Values /\ state \in Values
      /\ NoValues \in Seq(Values)
  BY DEF Values, NoValues, Word, Byte
<1>4. v1 \in Seq(Values) /\ v2 \in Seq(Values) /\ v3 \in Seq(Values)
  BY <1>3, WithSeq
<1> DEFINE c2  == Before(a1, a2)
           c3  == Before(c2, a3)
           c4  == Before(c3, a4)
           c5  == Before(c4, name)
           all == Before(c5, a5)
<1>5. T!GameSessionInfo(id, players, name, state) = all
  BY DEF T!GameSessionInfo, Before
<1> HIDE DEF a1, a2, a3, a4, a5, v1, v2, v3, v4
<1>6. b5 \in Seq(Int) /\ Before(name, b5) \in Seq(Int) /\ b4 \in Seq(Int) /\ b3 \in Seq(Int)
      /\ b2 \in Seq(Int)
  BY <1>2, BeforeSeq
<1> HIDE DEF b5, b4, b3, b2, stream, x, all, c5, c4, c3, c2
<1>7. all \in Seq(Int) /\ Before(all, b) = stream
  <2>1. c2 \in Seq(Int)
    BY <1>2, BeforeSeq DEF c2
  <2>2. c3 \in Seq(Int)
    BY <1>2, <2>1, BeforeSeq DEF c3
  <2>3. c4 \in Seq(Int)
    BY <1>2, <2>2, BeforeSeq DEF c4
  <2>4. c5 \in Seq(Int)
    BY <2>3, BeforeSeq DEF c5
  <2>5. all \in Seq(Int)
    BY <1>2, <2>4, BeforeSeq DEF all
  <2>6. Before(all, b) = Before(c5, b5)
    <3>1. c5 \in Seq(Int) /\ a5 \in Seq(Int)
      BY <1>2, <2>4
    <3> QED BY <3>1, BeforeAssoc DEF all, b5
  <2>7. Before(c5, b5) = Before(c4, Before(name, b5))
    <3>1. c4 \in Seq(Int) /\ b5 \in Seq(Int)
      BY <1>6, <2>3
    <3> QED BY <3>1, BeforeAssoc DEF c5
  <2>8. Before(c4, Before(name, b5)) = Before(c3, b4)
    <3>1. c3 \in Seq(Int) /\ a4 \in Seq(Int) /\ Before(name, b5) \in Seq(Int)
      BY <1>2, <1>6, <2>2
    <3> QED BY <3>1, BeforeAssoc DEF c4, b4
  <2>9. Before(c3, b4) = Before(c2, b3)
    <3>1. c2 \in Seq(Int) /\ a3 \in Seq(Int) /\ b4 \in Seq(Int)
      BY <1>2, <1>6, <2>1
    <3> QED BY <3>1, BeforeAssoc DEF c3, b3
  <2>10. Before(c2, b3) = stream
    <3>1. a1 \in Seq(Int) /\ a2 \in Seq(Int) /\ b3 \in Seq(Int)
      BY <1>2, <1>6
    <3> QED BY <3>1, BeforeAssoc DEF c2, b2, stream
  <2> QED BY <2>5, <2>6, <2>7, <2>8, <2>9, <2>10
<1>8. T!ReadField(Reading(NoValues, stream, x), T!PidOf(T!PidGameSessionInfo))
        = Reading(NoValues, b2, x)
  BY <1>1, <1>3, <1>6, WordReads DEF a1, stream
<1>9. T!ReadField(Reading(NoValues, b2, x), T!Uint16) = Reading(v1, b3, x)
  BY <1>3, <1>6, WordReads DEF b2, a2, v1
<1>10. T!ReadField(Reading(v1, b3, x), T!Uint8) = Reading(v2, b4, x)
  BY <1>4, <1>6, ByteReads DEF b3, a3, v2
<1>11. T!ReadField(Reading(v2, b4, x), T!ShortText) = Reading(v3, b5, x)
  BY <1>4, <1>6, ShortReads DEF b4, a4, v3, Byte
<1>12. T!ReadField(Reading(v3, b5, x), T!Uint8) = Reading(v4, b, x)
  BY <1>4, ByteReads DEF b5, a5, v4
<1>13. T!Start(stream, more) = Reading(NoValues, stream, x)
  BY Starts DEF x
<1>14. T!Read(stream, more, T!InfoFields) = Reading(v4, b, x)
  BY <1>8, <1>9, <1>10, <1>11, <1>12, <1>13, ReadFive DEF T!InfoFields
<1> QED BY <1>5, <1>7, <1>14 DEF x, v1, v2, v3, v4

LEMMA FourValues ==
  ASSUME NEW a \in Values, NEW b \in Values, NEW c \in Values, NEW d \in Values
  PROVE  /\ With(With(With(With(NoValues, a), b), c), d)[1] = a
         /\ With(With(With(With(NoValues, a), b), c), d)[2] = b
         /\ With(With(With(With(NoValues, a), b), c), d)[3] = c
         /\ With(With(With(With(NoValues, a), b), c), d)[4] = d
  BY DEF With, NoValues

LEMMA MissedShort ==
  ASSUME NEW r, r.status # "ok"
  PROVE  /\ T!ReadField(r, T!Uint8) = r
         /\ T!ReadField(r, T!ShortText) = r
<1>1. T!Uint8.is = "uint8" /\ T!ShortText.is = "short"
  BY DEF T!Uint8, T!ShortText, T!Field
<1>2. T!Take(r, 1) = r
  BY DEF T!Take, T!Then, T!Once
<1>3. T!ReadUint8(r) = r
  BY <1>2 DEF T!ReadUint8, T!Then, T!Once
<1> QED BY <1>1, <1>3 DEF T!ReadField, T!Then, T!Once

LEMMA NothingHeard ==
  ASSUME NEW more \in BOOLEAN
  PROVE  /\ T!Read(<<>>, more, T!SucceededFields) = Missing(more)
         /\ T!Read(<<>>, more, T!InfoFields) = Missing(more)
<1> DEFINE r == T!Start(<<>>, more)
           m == Missing(more)
<1>1. T!Take(r, 2) = m
  BY TakeMisses
<1>2. m.status # "ok"
  BY NewStatus DEF Missing
<1> HIDE DEF r, m
<1>3. T!ReadUint16(r) = m
  BY <1>1, <1>2 DEF T!ReadUint16, T!Then, T!Once
<1>4. \A pid : T!PidOf(pid).is = "expected"
  BY DEF T!PidOf, T!Field
<1>5. \A pid : T!ReadField(r, T!PidOf(pid)) = m
  BY <1>2, <1>3, <1>4 DEF T!ReadField, T!Then, T!Once
<1>6. /\ T!ReadField(m, T!Uint16) = m /\ \A max : T!ReadField(m, T!String(max)) = m
      /\ T!ReadField(m, T!Uint8) = m /\ T!ReadField(m, T!ShortText) = m
  BY <1>2, MissedStays, MissedShort
<1> QED BY <1>5, <1>6, ReadTwo, ReadFive DEF T!SucceededFields, T!InfoFields, r, m

-----------------------------------------------------------------------------
(* A stream that can be cut into parts: one of them lies between each cut  *)
(* and the next, and nothing behind the last.                              *)
CutAt(parts, stream, n, rest) ==
  /\ rest \in [0..n -> Seq(Int)]
  /\ rest[0] = stream /\ rest[n] = <<>>
  /\ \A i \in 0..(n - 1) : \E part \in parts : rest[i] = Before(part, rest[i + 1])

Chain(parts, stream) == \E n \in Nat : \E rest : CutAt(parts, stream, n, rest)

LEMMA ChainSeq ==
  ASSUME NEW parts, NEW stream, Chain(parts, stream)
  PROVE  stream \in Seq(Int)
<1>1. PICK n \in Nat : \E rest : CutAt(parts, stream, n, rest)
  BY DEF Chain
<1>2. PICK rest : CutAt(parts, stream, n, rest)
  BY <1>1
<1> QED BY <1>2 DEF CutAt

LEMMA ChainEmpty ==
  ASSUME NEW parts
  PROVE  Chain(parts, <<>>)
<1> DEFINE rest == [i \in 0..0 |-> <<>>]
<1>1. CutAt(parts, <<>>, 0, rest)
  <2>1. rest \in [0..0 -> Seq(Int)] /\ rest[0] = <<>>
    OBVIOUS
  <2>2. 0..(0 - 1) = {}
    OBVIOUS
  <2> HIDE DEF rest
  <2> QED BY <2>1, <2>2 DEF CutAt
<1> QED BY <1>1 DEF Chain

\* More kinds of parts.
LEMMA ChainMore ==
  ASSUME NEW parts, NEW others, parts \subseteq others, NEW stream, Chain(parts, stream)
  PROVE  Chain(others, stream)
<1>1. PICK n \in Nat : \E rest : CutAt(parts, stream, n, rest)
  BY DEF Chain
<1>2. PICK rest : CutAt(parts, stream, n, rest)
  BY <1>1
<1>3. CutAt(others, stream, n, rest)
  BY <1>2 DEF CutAt
<1> QED BY <1>3 DEF Chain

\* The first part is found, and what is behind it is a chain again.
LEMMA ChainFirst ==
  ASSUME NEW parts, parts \subseteq Seq(Int), NEW stream, Chain(parts, stream), stream # <<>>
  PROVE  \E part \in parts : \E more : Chain(parts, more) /\ stream = Before(part, more)
<1>1. PICK n \in Nat : \E rest : CutAt(parts, stream, n, rest)
  BY DEF Chain
<1>2. PICK rest : CutAt(parts, stream, n, rest)
  BY <1>1
<1>3. n # 0
  BY <1>2 DEF CutAt
<1>4. n - 1 \in Nat /\ 0 \in 0..(n - 1)
  BY <1>3
<1>5. PICK part \in parts : rest[0] = Before(part, rest[0 + 1])
  BY <1>2, <1>4 DEF CutAt
<1> DEFINE after == [i \in 0..(n - 1) |-> rest[i + 1]]
<1>6. CutAt(parts, rest[1], n - 1, after)
  <2>1. \A i \in 0..(n - 1) : i + 1 \in 0..n /\ after[i] = rest[i + 1]
    BY <1>4
  <2>2. after \in [0..(n - 1) -> Seq(Int)]
    BY <1>2, <2>1 DEF CutAt
  <2>3. after[0] = rest[1] /\ after[n - 1] = <<>>
    BY <1>2, <1>4, <2>1 DEF CutAt
  <2>4. ASSUME NEW i \in 0..((n - 1) - 1)
        PROVE  \E p \in parts : after[i] = Before(p, after[i + 1])
    <3>1. i + 1 \in 0..(n - 1) /\ i \in 0..(n - 1)
      BY <1>4
    <3>2. \E p \in parts : rest[i + 1] = Before(p, rest[(i + 1) + 1])
      BY <1>2, <3>1 DEF CutAt
    <3> QED BY <2>1, <3>1, <3>2
  <2> HIDE DEF after
  <2> QED BY <2>2, <2>3, <2>4 DEF CutAt
<1>7. Chain(parts, rest[1])
  BY <1>4, <1>6 DEF Chain
<1> QED BY <1>2, <1>5, <1>7 DEF CutAt

\* A part more, and the stream is still a chain.
LEMMA ChainLast ==
  ASSUME NEW parts, parts \subseteq Seq(Int), NEW stream, Chain(parts, stream), NEW last \in parts
  PROVE  Chain(parts, Before(stream, last))
<1>1. last \in Seq(Int)
  OBVIOUS
<1>2. PICK n \in Nat : \E rest : CutAt(parts, stream, n, rest)
  BY DEF Chain
<1>3. PICK rest : CutAt(parts, stream, n, rest)
  BY <1>2
<1> DEFINE value(i) == IF i = n + 1 THEN <<>> ELSE Before(rest[i], last)
           then == [i \in 0..(n + 1) |-> value(i)]
<1>4. \A i \in 0..(n + 1) : i # n + 1 => i \in 0..n
  OBVIOUS
<1>5. \A i \in 0..n : i \in 0..(n + 1) /\ i # n + 1
  OBVIOUS
<1>6. then[n + 1] = <<>> /\ \A i \in 0..n : then[i] = Before(rest[i], last)
  BY <1>5
<1>7. \A i \in 0..(n + 1) : then[i] \in Seq(Int)
  <2>1. \A i \in 0..n : Before(rest[i], last) \in Seq(Int)
    BY <1>1, <1>3, BeforeSeq DEF CutAt
  <2>2. <<>> \in Seq(Int)
    OBVIOUS
  <2> HIDE DEF then
  <2> QED BY <1>4, <1>6, <2>1, <2>2
<1>8. then \in [0..(n + 1) -> Seq(Int)]
  BY <1>7
<1> HIDE DEF then
<1>9. Before(<<>>, last) = last /\ Before(last, <<>>) = last
  BY <1>1 DEF Before
<1>10. ASSUME NEW i \in 0..((n + 1) - 1)
       PROVE  \E part \in parts : then[i] = Before(part, then[i + 1])
  <2>1. CASE i = n
    <3>1. then[i] = last /\ then[i + 1] = <<>>
      BY <1>3, <1>6, <1>9, <2>1 DEF CutAt
    <3> QED BY <1>9, <3>1
  <2>2. CASE i # n
    <3>1. i \in 0..(n - 1) /\ i \in 0..n /\ i + 1 \in 0..n
      BY <2>2
    <3>2. PICK part \in parts : rest[i] = Before(part, rest[i + 1])
      BY <1>3, <3>1 DEF CutAt
    <3>3. rest[i + 1] \in Seq(Int) /\ part \in Seq(Int)
      BY <1>3, <3>1 DEF CutAt
    <3>4. then[i] = Before(part, Before(rest[i + 1], last))
      BY <1>1, <1>6, <3>1, <3>2, <3>3, BeforeAssoc
    <3> QED BY <1>6, <3>1, <3>4
  <2> QED BY <2>1, <2>2
<1>11. then[0] = Before(stream, last)
  <2>1. 0 \in 0..n /\ rest[0] = stream
    BY <1>3 DEF CutAt
  <2> QED BY <1>6, <2>1
<1>12. CutAt(parts, Before(stream, last), n + 1, then)
  BY <1>6, <1>8, <1>10, <1>11 DEF CutAt
<1>13. n + 1 \in Nat
  OBVIOUS
<1> QED BY <1>12, <1>13 DEF Chain

-----------------------------------------------------------------------------
(* What the client says.                                                   *)
Hello == T!Greeting(1, T!Text(10), <<>>)

ClientPids == {T!PidInquireGameSessions, T!PidMove, T!PidRequestGameState,
               T!PidVerifyGameState, T!PidResign}

Payloads(request) ==
  CASE request = "Move"   -> {Before(opening[1], opening[2]) : opening \in Openings}
    [] request = "Verify" -> {T!WriteUint8(0)}
    [] OTHER              -> {<<>>}

Request(pid, payload, more) == Before(T!WriteUint16(pid), Before(payload, more))

Requests ==
  {r \in Seq(Int) : \E pid \in ClientPids : \E payload \in Payloads(RequestOf(pid)) :
                      r = Before(T!WriteUint16(pid), payload)}

\* A stream of whole requests.
Whole(stream) == Chain(Requests, stream)

\* The client sends the PIDs of five requests.
LEMMA Pids ==
  ASSUME NEW pid \in ClientPids
  PROVE  /\ pid \in Nat /\ pid < 65536
         /\ RequestOf(pid) \in {"Inquire", "Move", "Verify", "RequestGameState", "Resign"}
  BY DEF ClientPids, RequestOf, T!PidInquireGameSessions, T!PidMove, T!PidRequestGameState,
         T!PidVerifyGameState, T!PidResign

\* What it sends is numbers.
LEMMA OpeningsSeq ==
  ASSUME NEW opening \in Openings
  PROVE  /\ opening[1] \in Seq(Int) /\ Len(opening[1]) = 4
         /\ opening[2] \in Seq(Int) /\ Len(opening[2]) = 4
<1>1. opening[1] \in Locators /\ opening[2] \in Locators
  BY OpeningsAssumption
<1>2. \A loc \in Locators : loc \in Seq(Int) /\ Len(loc) = 4
  <2>1. ASSUME NEW loc \in Locators
        PROVE  loc \in Seq(Int) /\ Len(loc) = 4
    <3>1. loc \in [1..4 -> Int]
      BY DEF Locators, T!Bytes
    <3>2. loc \in Seq(Int)
      <4>1. 4 \in Nat
        OBVIOUS
      <4>2. loc \in UNION {[1..n -> Int] : n \in Nat}
        BY <3>1, <4>1
      <4> QED BY <4>2, SeqDef, Zenon
    <3> QED BY <3>1, <3>2, LenProperties
  <2> QED BY <2>1
<1> QED BY <1>1, <1>2

LEMMA PayloadSeq ==
  ASSUME NEW request, NEW payload \in Payloads(request)
  PROVE  payload \in Seq(Int)
<1>1. CASE request = "Move"
  BY <1>1, OpeningsSeq, BeforeSeq DEF Payloads
<1>2. CASE request = "Verify"
  <2>1. payload = T!WriteUint8(0)
    BY <1>2 DEF Payloads
  <2> QED BY <2>1 DEF T!WriteUint8
<1>3. CASE request \notin {"Move", "Verify"}
  <2>1. payload = <<>>
    BY <1>3 DEF Payloads
  <2> QED BY <2>1
<1> QED BY <1>1, <1>2, <1>3

LEMMA WholeSeq ==
  ASSUME NEW stream, Whole(stream)
  PROVE  stream \in Seq(Int)
  BY ChainSeq DEF Whole

LEMMA WholeEmpty == Whole(<<>>)
  BY ChainEmpty DEF Whole

LEMMA RequestSeq ==
  ASSUME NEW pid \in ClientPids, NEW payload \in Payloads(RequestOf(pid)), NEW more \in Seq(Int)
  PROVE  /\ T!WriteUint16(pid) \in Seq(Int) /\ payload \in Seq(Int)
         /\ Request(pid, payload, more) \in Seq(Int)
<1>1. T!WriteUint16(pid) \in Seq(Int)
  BY Pids, WriteSeq
<1>2. payload \in Seq(Int)
  BY PayloadSeq
<1> QED BY <1>1, <1>2, BeforeSeq DEF Request

(* The first request is found, and what is behind it is whole again.       *)
LEMMA WholeFirst ==
  ASSUME NEW stream, Whole(stream), stream # <<>>
  PROVE  \E pid \in ClientPids : \E payload \in Payloads(RequestOf(pid)) : \E more :
           Whole(more) /\ stream = Request(pid, payload, more)
<1>1. PICK r \in Requests : \E more : Whole(more) /\ stream = Before(r, more)
  <2>1. Requests \subseteq Seq(Int)
    BY DEF Requests
  <2> QED BY <2>1, ChainFirst DEF Whole
<1>2. PICK more : Whole(more) /\ stream = Before(r, more)
  BY <1>1
<1>3. PICK pid \in ClientPids : \E payload \in Payloads(RequestOf(pid)) :
        r = Before(T!WriteUint16(pid), payload)
  BY DEF Requests
<1>4. PICK payload \in Payloads(RequestOf(pid)) : r = Before(T!WriteUint16(pid), payload)
  BY <1>3
<1>5. more \in Seq(Int)
  BY <1>2, WholeSeq
<1>6. T!WriteUint16(pid) \in Seq(Int) /\ payload \in Seq(Int)
  BY <1>5, RequestSeq
<1>7. stream = Request(pid, payload, more)
  BY <1>2, <1>4, <1>5, <1>6, BeforeAssoc DEF Request
<1> QED BY <1>2, <1>7

(* A request more, and the stream is still whole.                          *)
LEMMA WholeLast ==
  ASSUME NEW stream, Whole(stream),
         NEW pid \in ClientPids, NEW payload \in Payloads(RequestOf(pid))
  PROVE  Whole(Before(stream, Request(pid, payload, <<>>)))
<1> DEFINE last == Before(T!WriteUint16(pid), payload)
<1>1. <<>> \in Seq(Int)
  OBVIOUS
<1>2. T!WriteUint16(pid) \in Seq(Int) /\ payload \in Seq(Int)
  BY <1>1, RequestSeq
<1>3. Before(payload, <<>>) = payload
  BY <1>2 DEF Before
<1>4. last \in Requests
  BY <1>2, BeforeSeq DEF Requests
<1>5. Request(pid, payload, <<>>) = last
  BY <1>3 DEF Request
<1> HIDE DEF last
<1>6. Requests \subseteq Seq(Int)
  BY DEF Requests
<1> QED BY <1>4, <1>5, <1>6, ChainLast DEF Whole

(* What the client sends is a request.                                     *)
LEMMA Messages ==
  /\ T!InquireSessions  = Request(T!PidInquireGameSessions, <<>>, <<>>)
  /\ T!RequestGameState = Request(T!PidRequestGameState, <<>>, <<>>)
  /\ T!Resign           = Request(T!PidResign, <<>>, <<>>)
  /\ T!VerifyState(<<>>) = Request(T!PidVerifyGameState, T!WriteUint8(0), <<>>)
  /\ \A opening \in Openings :
       T!Move(opening[1], opening[2])
         = Request(T!PidMove, Before(opening[1], opening[2]), <<>>)
<1>1. ASSUME NEW a \in Seq(Int)
      PROVE  Before(a, <<>>) = a
  BY DEF Before
<1>2. ASSUME NEW n \in Nat, n < 65536
      PROVE  T!WriteUint16(n) = Request(n, <<>>, <<>>)
  <2>1. T!WriteUint16(n) \in Seq(Int) /\ <<>> \in Seq(Int)
    BY <1>2, WriteSeq
  <2> QED BY <1>1, <2>1 DEF Request
<1>3. /\ T!InquireSessions  = Request(T!PidInquireGameSessions, <<>>, <<>>)
      /\ T!RequestGameState = Request(T!PidRequestGameState, <<>>, <<>>)
      /\ T!Resign           = Request(T!PidResign, <<>>, <<>>)
  BY <1>2 DEF T!InquireSessions, T!RequestGameState, T!Resign, T!PidInquireGameSessions,
              T!PidRequestGameState, T!PidResign
<1>4. T!VerifyState(<<>>) = Request(T!PidVerifyGameState, T!WriteUint8(0), <<>>)
  <2> DEFINE none == <<>>
  <2>1. Len(none) = 0
    OBVIOUS
  <2> HIDE DEF none
  <2>2. T!WriteAll(none) = <<>>
    <3> DEFINE next(f, n) == IF n = 0 THEN <<>> ELSE f[n - 1] \o none[n]
               all == CHOOSE f : f = [n \in 0..0 |-> next(f, n)]
    <3>1. \E f : f = [n \in 0..0 |-> next(f, n)]
      <4>1. [n \in 0..0 |-> <<>>] = [n \in 0..0 |-> next([m \in 0..0 |-> <<>>], n)]
        OBVIOUS
      <4> QED BY <4>1
    <3>2. all = [n \in 0..0 |-> next(all, n)]
      BY <3>1
    <3> HIDE DEF all
    <3>3. all[0] = <<>>
      BY <3>2
    <3> QED BY <2>1, <3>3 DEF T!WriteAll, all
  <2>3. T!WriteUint16(T!PidVerifyGameState) \in Seq(Int)
    <3>1. T!PidVerifyGameState \in Nat /\ T!PidVerifyGameState < 65536
      BY DEF T!PidVerifyGameState
    <3> QED BY <3>1, WriteSeq
  <2>4. T!WriteUint8(0) \in Seq(Int)
    BY DEF T!WriteUint8
  <2>5. T!VerifyState(none)
          = Before(Before(T!WriteUint16(T!PidVerifyGameState), T!WriteUint8(0)), <<>>)
    BY <2>1, <2>2 DEF T!VerifyState, Before
  <2>6. <<>> \in Seq(Int)
    OBVIOUS
  <2> QED BY <2>3, <2>4, <2>5, <2>6, BeforeAssoc DEF Request, none
<1>5. ASSUME NEW opening \in Openings
      PROVE  T!Move(opening[1], opening[2])
               = Request(T!PidMove, Before(opening[1], opening[2]), <<>>)
  <2> DEFINE w == T!WriteUint16(T!PidMove)
             from == opening[1]
             to == opening[2]
  <2>1. w \in Seq(Int)
    <3>1. T!PidMove \in Nat /\ T!PidMove < 65536
      BY DEF T!PidMove
    <3> QED BY <3>1, WriteSeq
  <2>2. from \in Seq(Int) /\ to \in Seq(Int)
    BY OpeningsSeq
  <2>3. T!Move(from, to) = Before(Before(w, from), to)
    BY DEF T!Move, Before
  <2> HIDE DEF w, from, to
  <2>4. Before(from, to) \in Seq(Int)
    BY <2>2, BeforeSeq
  <2>5. Before(Before(from, to), <<>>) = Before(from, to)
    BY <1>1, <2>4
  <2>6. Before(Before(w, from), to) = Before(w, Before(from, to))
    BY <2>1, <2>2, BeforeAssoc
  <2> QED BY <2>3, <2>5, <2>6 DEF Request, w, from, to
<1> QED BY <1>3, <1>4, <1>5

-----------------------------------------------------------------------------
(* The other handlers, and whoever else takes steps, leave Mine, its       *)
(* connection and the client alone.                                        *)
Domains ==
  /\ DOMAIN pc = Handlers /\ DOMAIN fdOf = Handlers
  /\ DOMAIN received = Handlers /\ DOMAIN sent = Handlers /\ DOMAIN conns = Fds
  /\ idOf \in [Handlers -> Int] /\ nextId \in Int

Apart ==
  /\ pc[Mine] # "none" => fdOf[Mine] = MyFd
  /\ \A h \in Handlers \ {Mine} : pc[h] # "none" => fdOf[h] # MyFd

Stand(k) ==
  /\ pc'[k] = pc[k] /\ fdOf'[k] = fdOf[k] /\ idOf'[k] = idOf[k]
  /\ received'[k] = received[k] /\ sent'[k] = sent[k]

\* What a step of h does outside the manager and the registry.
Alone(h) ==
  /\ Domains'
  /\ \A k \in Handlers \ {h} : Stand(k)
  /\ \A f \in Fds : f # fdOf[h] => conns'[f] = conns[f]
  /\ pc[h] # "none"
  /\ pc'[h] # "none" => fdOf'[h] = fdOf[h]

LEMMA MyFdIs == MyFd \in Fds
  BY FdsAssumption DEF MyFd

\* Each step of a handler: where it goes, and what it leaves.
LEMMA GreetOkAlone ==
  ASSUME Domains, NEW h \in Handlers, S!GreetOk(h)
  PROVE  /\ Alone(h) /\ UNCHANGED <<received, sent, conns>>
         /\ pc[h] = "greet" /\ pc'[h] = "issue" /\ idOf'[h] = nextId
  BY DEF Domains, Alone, Stand, S!GreetOk, S!Goto, S!process

LEMMA GreetFailsAlone ==
  ASSUME Domains, NEW h \in Handlers, S!GreetFails(h)
  PROVE  /\ Alone(h) /\ UNCHANGED <<received, conns, idOf>>
         /\ pc[h] = "greet" /\ pc'[h] = "remove" /\ sent'[h] \in {sent[h], "NotGreeted"}
  BY DEF Domains, Alone, Stand, S!GreetFails, S!Goto, S!Send, S!process

LEMMA IssueIdAlone ==
  ASSUME Domains, NEW h \in Handlers, S!IssueId(h)
  PROVE  /\ Alone(h) /\ UNCHANGED <<received, conns, idOf>>
         /\ pc[h] = "issue" /\ pc'[h] = "register" /\ sent'[h] = "Welcome"
<1>1. nextId' \in Int
  BY ModulusAssumption DEF S!IssueId, Domains
<1> QED BY <1>1 DEF Domains, Alone, Stand, S!IssueId, S!Goto, S!Send, S!process

LEMMA AddClientAlone ==
  ASSUME Domains, NEW h \in Handlers, S!AddClient(h)
  PROVE  /\ Alone(h) /\ UNCHANGED <<received, sent, conns, idOf>>
         /\ pc[h] = "register" /\ pc'[h] \in {"read", "remove"}
<1>1. \E label \in {"read", "remove"} : S!Goto(h, label)
  BY DEF S!AddClient, S!NextRound
<1> QED BY <1>1 DEF Domains, Alone, Stand, S!AddClient, S!Goto, S!process

LEMMA ReceiveAlone ==
  ASSUME Domains, NEW h \in Handlers, S!Receive(h)
  PROVE  /\ Alone(h) /\ UNCHANGED <<sent, conns, idOf>>
         /\ pc[h] = "read" /\ pc'[h] = "dispatch"
<1>1. PICK m \in AllRequests : received' = [received EXCEPT ![h] = m]
  BY DEF S!Receive
<1> QED BY <1>1 DEF Domains, Alone, Stand, S!Receive, S!Goto, S!process

LEMMA ReadFailsAlone ==
  ASSUME Domains, NEW h \in Handlers, S!ReadFails(h)
  PROVE  /\ Alone(h) /\ UNCHANGED <<sent, conns, idOf>>
         /\ pc[h] \in {"read", "dispatch"} /\ pc'[h] = "remove" /\ received'[h] = "none"
         /\ conns[fdOf[h]] = "hungup"
  BY DEF Domains, Alone, Stand, S!ReadFails, S!ReadsPayload, S!Goto, S!process

LEMMA RemoveClientAlone ==
  ASSUME Domains, NEW h \in Handlers, S!RemoveClient(h)
  PROVE  /\ Alone(h) /\ UNCHANGED <<received, sent, conns, idOf>>
         /\ pc[h] = "remove" /\ pc'[h] = "close"
  BY DEF Domains, Alone, Stand, S!RemoveClient, S!Goto, S!process

LEMMA CloseFdAlone ==
  ASSUME Domains, NEW h \in Handlers, S!CloseFd(h)
  PROVE  /\ Alone(h)
         /\ pc[h] = "close" /\ pc'[h] = "none" /\ received'[h] = "none" /\ sent'[h] = "none"
<1>1. pc[h] = "close"
  BY DEF S!CloseFd
<1>2. S!NoId \in Int
  BY DEF S!NoId
<1> QED BY <1>1, <1>2 DEF Domains, Alone, Stand, S!CloseFd, S!Goto, S!process

LEMMA ProcessAlone ==
  ASSUME Domains, NEW h \in Handlers, S!Process(h)
  PROVE  /\ Alone(h) /\ UNCHANGED <<conns, idOf>>
         /\ pc[h] \in {"dispatch", "report"} /\ pc'[h] \in {"read", "report", "remove"}
         /\ received'[h] = "none"
         /\ sent'[h] = "NotGreeted" => sent[h] = "NotGreeted"
<1> DEFINE Effect == /\ pc[h] \in {"dispatch", "report"}
                     /\ \E label \in {"read", "report", "remove"} : S!Goto(h, label)
                     /\ \/ UNCHANGED sent
                        \/ \E m \in {"Info", "GameOver", "NotAccepted", "NotInGame"} : S!Send(h, m)
<1>1. Effect
  <2>1. CASE S!ProcessSessionRequest(h)
    BY <2>1 DEF S!ProcessSessionRequest, S!Handling, S!NextRound
  <2>2. CASE S!ProcessMove(h)
    BY <2>2 DEF S!ProcessMove, S!Handling, S!Refuse
  <2>3. CASE S!ReportEnd(h)
    BY <2>3 DEF S!ReportEnd, S!NextRound
  <2>4. CASE S!ProcessResign(h)
    BY <2>4 DEF S!ProcessResign, S!Handling, S!NextRound
  <2>5. CASE S!ProcessVerifyState(h)
    BY <2>5 DEF S!ProcessVerifyState, S!Handling, S!NextRound, S!Refuse
  <2>6. CASE S!ProcessRequestGameState(h)
    BY <2>6 DEF S!ProcessRequestGameState, S!Handling, S!NextRound, S!Refuse
  <2>7. CASE S!UnknownPid(h)
    BY <2>7 DEF S!UnknownPid, S!Handling, S!Refuse
  <2> QED BY <2>1, <2>2, <2>3, <2>4, <2>5, <2>6, <2>7 DEF S!Process
<1>2. /\ received' = [received EXCEPT ![h] = "none"]
      /\ UNCHANGED <<fdOf, idOf, conns, nextId>>
  BY DEF S!Process
<1>3. PICK label \in {"read", "report", "remove"} : S!Goto(h, label)
  BY <1>1
<1>4. \/ UNCHANGED sent
      \/ \E m \in {"Info", "GameOver", "NotAccepted", "NotInGame"} : S!Send(h, m)
  BY <1>1
<1>5. DOMAIN sent' = Handlers /\ \A k \in Handlers \ {h} : sent'[k] = sent[k]
  BY <1>4 DEF S!Send, Domains
<1>6. sent'[h] = "NotGreeted" => sent[h] = "NotGreeted"
  BY <1>4 DEF S!Send, Domains
<1> QED BY <1>1, <1>2, <1>3, <1>5, <1>6 DEF Domains, Alone, Stand, S!Goto

LEMMA EndsAlone ==
  ASSUME Domains, NEW h \in Handlers, S!SigPipe(h) \/ S!UseAfterDestroy(h)
  PROVE  Alone(h) /\ UNCHANGED <<pc, fdOf, idOf, received, sent, conns>>
<1>1. pc[h] # "none"
  BY DEF S!SigPipe, S!UseAfterDestroy, S!Writes, S!UsesManager
<1> QED BY <1>1 DEF Domains, Alone, Stand, S!SigPipe, S!UseAfterDestroy, S!threads

LEMMA HandlerAlone ==
  ASSUME Domains, NEW h \in Handlers, S!Step(h) \/ S!Peer(h)
  PROVE  Alone(h)
  BY GreetOkAlone, GreetFailsAlone, IssueIdAlone, AddClientAlone, ReceiveAlone, ReadFailsAlone,
     RemoveClientAlone, CloseFdAlone, ProcessAlone, EndsAlone DEF S!Step, S!Peer

(* What is and is not on its way while Mine serves the client.             *)
Due == IF pc[Mine] = "dispatch" THEN Payloads(received[Mine]) ELSE {<<>>}

Greets(stream) == \E more : Whole(more) /\ stream = Before(Hello, more)
Asks(stream)   == \E payload \in Due : \E more : Whole(more) /\ stream = Before(payload, more)

\* The client has nothing more to say, and what it said is lost or read.
Silent == T!Ended /\ toServer = <<>>

\* To the server: the Greeting, then whole requests, of the first of which
\* the PID may have been read.
Framed ==
  Connected /\ pc[Mine] \notin {"remove", "close"} =>
    \/ Silent
    \/ pc[Mine] = "greet" /\ at = "greet" /\ toServer = <<>>
    \/ pc[Mine] = "greet" /\ at \notin {"connect", "greet"} /\ Greets(toServer)
    \/ pc[Mine] # "greet" /\ at \notin {"connect", "greet"} /\ Asks(toServer)

Understood ==
  /\ sent[Mine] # "NotGreeted"
  /\ received[Mine] \in IF pc[Mine] = "dispatch"
                        THEN {"Inquire", "Move", "Verify", "RequestGameState", "Resign"}
                        ELSE {"none"}
  /\ at = "connect" => pc[Mine] = "none"

Welcomed   == T!ConnectionSucceeded(T!Text(30))
Greeted(n) == Before(T!Greeting(1, T!Text(11), ClientId(n)), Welcomed)
FromServer == Greeted(idOf[Mine])

\* To the client: nothing, then the id of Mine, until the client has read it.
Hears ==
  /\ at \in {"connect", "greet", "hear"} => serverId = T!None
  /\ at \in {"connect", "greet"} => toClient = <<>> /\ toServer = <<>>
  /\ at = "greet" => pc[Mine] = "greet"
  /\ pc[Mine] \in {"greet", "issue"} =>
       /\ at \in {"greet", "hear", "done", "killed"}
       /\ serverId = T!None
  /\ pc[Mine] # "none" /\ at = "hear" =>
       /\ pc[Mine] \notin {"dispatch", "report"}
       /\ toServer \in IF pc[Mine] = "greet" THEN {<<>>, Hello} ELSE {<<>>}
       /\ toClient \in IF pc[Mine] \in {"greet", "issue"} THEN {<<>>} ELSE {<<>>, FromServer}

Inv == Domains /\ Apart /\ Framed /\ Understood /\ Hears /\ HandshakeAgrees

LEMMA InitInv == Init => Inv
<1> SUFFICES ASSUME Init PROVE Inv
  OBVIOUS
<1>1. S!Init /\ T!Init
  BY DEF Init
<1>2. Domains
  <2>1. 1 % ClientIdMod \in Int /\ S!NoId \in Int
    BY ModulusAssumption DEF S!NoId
  <2> QED BY <1>1, <2>1 DEF S!Init, Domains
<1>3. pc[Mine] = "none" /\ received[Mine] = "none" /\ sent[Mine] = "none"
  BY <1>1, MineAssumption DEF S!Init
<1>4. Apart
  BY <1>1, <1>3 DEF S!Init, Apart
<1>5. Framed /\ Understood /\ HandshakeAgrees
  BY <1>3 DEF Framed, Understood, HandshakeAgrees, Connected
<1>6. Hears
  BY <1>1, <1>3 DEF T!Init, Hears
<1> QED BY <1>2, <1>4, <1>5, <1>6 DEF Inv

-----------------------------------------------------------------------------
(* The steps that leave Mine and the client alone.                         *)
MineKept ==
  /\ Domains' /\ Apart'
  /\ Stand(Mine)
  /\ S!ProcessUp' => S!ProcessUp
  /\ UNCHANGED <<client, wire>>

\* They keep the invariant.
LEMMA KeptInv ==
  ASSUME Inv, MineKept
  PROVE  Inv'
<1>1. Framed'
  <2>1. \A stream : Greets(stream)' <=> Greets(stream)
    BY DEF Greets
  <2>2. Due' = Due
    BY DEF Due, MineKept, Stand
  <2>3. Asks(toServer') => Asks(toServer)'
    BY <2>2 DEF Asks, MineKept, wire
  <2> QED BY <2>3 DEF Inv, MineKept, Stand, Framed, Silent, Connected, T!Ended, wire, client, Greets
<1>2. Understood' /\ HandshakeAgrees'
  BY DEF Inv, MineKept, Stand, Understood, HandshakeAgrees, client
<1>3. Hears'
  BY DEF Inv, MineKept, Stand, Hears, client, wire, FromServer
<1> QED BY <1>1, <1>2, <1>3 DEF Inv, MineKept

\* A step of another handler; of the process; of nobody.
LEMMA HandlerKeeps ==
  ASSUME Inv, NEW h \in Handlers \ {Mine}, S!Step(h) \/ S!Peer(h), UNCHANGED <<client, wire>>
  PROVE  MineKept
<1>1. Alone(h)
  BY HandlerAlone DEF Inv
<1>2. Mine \in Handlers /\ Mine # h
  BY MineAssumption
<1>3. Stand(Mine)
  BY <1>1, <1>2 DEF Alone
<1>4. Apart'
  <2>1. ASSUME NEW k \in Handlers \ {Mine}, pc'[k] # "none"
        PROVE  fdOf'[k] # MyFd
    <3>1. pc[k] # "none" /\ fdOf'[k] = fdOf[k]
      <4>1. CASE k = h
        BY <1>1, <2>1, <4>1 DEF Alone
      <4>2. CASE k # h
        BY <1>1, <2>1, <4>2 DEF Alone, Stand
      <4> QED BY <4>1, <4>2
    <3> QED BY <3>1 DEF Inv, Apart
  <2> QED BY <1>3, <2>1 DEF Inv, Apart, Stand, MyFd
<1>5. S!ProcessUp
  BY DEF S!Step, S!Peer
<1> QED BY <1>1, <1>3, <1>4, <1>5 DEF MineKept, Alone

LEMMA ProcessKeeps ==
  ASSUME Inv, UNCHANGED <<pc, fdOf, idOf, received, sent, conns, nextId>>,
         S!ProcessUp' => S!ProcessUp, UNCHANGED <<client, wire>>
  PROVE  MineKept
  BY DEF Inv, MineKept, Domains, Apart, Stand, MyFd

LEMMA OthersKeep ==
  ASSUME Inv, Others
  PROVE  MineKept
<1>1. UNCHANGED <<client, wire>>
  BY DEF Others
<1>2. CASE \/ S!StartFails \/ S!InstallHandlers \/ S!SetRunning \/ S!EnterLoop
           \/ S!AcceptFails \/ S!MainExit
  <2>1. UNCHANGED <<pc, fdOf, idOf, received, sent, conns, nextId>>
    BY <1>2 DEF S!StartFails, S!InstallHandlers, S!SetRunning, S!EnterLoop, S!AcceptFails,
                S!MainExit, S!threads
  <2>2. S!ProcessUp' => S!ProcessUp
    BY <1>2 DEF S!StartFails, S!InstallHandlers, S!SetRunning, S!EnterLoop, S!AcceptFails,
                S!MainExit, S!ProcessUp
  <2> QED BY <1>1, <2>1, <2>2, ProcessKeeps
<1>3. CASE S!LobbyCreate \/ \E h \in Handlers, s \in S!SM!SessionIds : S!LobbyJoin(h, s)
  <2>1. UNCHANGED <<pc, fdOf, idOf, received, sent, conns, nextId, mainPc>>
    BY <1>3 DEF S!LobbyCreate, S!LobbyJoin, S!threads, S!process
  <2> QED BY <1>1, <2>1, ProcessKeeps DEF S!ProcessUp
<1>4. CASE \E f \in Fds \ {MyFd} : S!HangUp(f)
  <2>1. PICK f \in Fds \ {MyFd} : S!HangUp(f)
    BY <1>4
  <2>2. UNCHANGED <<pc, fdOf, idOf, received, sent, nextId, mainPc>> /\ DOMAIN conns' = DOMAIN conns
    BY <2>1 DEF S!HangUp, S!threads, S!process
  <2> QED BY <1>1, <2>2 DEF Inv, MineKept, Domains, Apart, Stand, MyFd, S!ProcessUp
<1>5. ASSUME NEW h \in Handlers \ {Mine}, NEW f \in Fds \ {MyFd}, S!Accept(f, h)
      PROVE  MineKept
  <2>1. /\ UNCHANGED <<idOf, received, sent, nextId>>
        /\ pc' = [pc EXCEPT ![h] = "greet"] /\ fdOf' = [fdOf EXCEPT ![h] = f]
        /\ conns' = [conns EXCEPT ![f] = "open"]
        /\ S!ProcessUp
    BY <1>5 DEF S!Accept, S!Goto, S!ProcessUp
  <2>2. Domains' /\ Stand(Mine)
    BY <2>1, MineAssumption DEF Inv, Domains, Stand
  <2>3. Apart'
    <3>1. \A k \in Handlers \ {h} : pc'[k] = pc[k] /\ fdOf'[k] = fdOf[k]
      BY <2>1 DEF Inv, Domains
    <3>2. fdOf'[h] = f /\ f # MyFd
      BY <2>1 DEF Inv, Domains
    <3> QED BY <3>1, <3>2 DEF Inv, Apart, MyFd
  <2> QED BY <1>1, <2>1, <2>2, <2>3 DEF MineKept
<1>6. ASSUME NEW h \in Handlers \ {Mine}, S!Step(h) \/ S!Peer(h)
      PROVE  MineKept
  BY <1>1, <1>6, HandlerKeeps
<1> QED BY <1>2, <1>3, <1>4, <1>5, <1>6 DEF Others

-----------------------------------------------------------------------------
(* The steps of the client.                                                *)
LEMMA ServerStands ==
  ASSUME Inv, UNCHANGED server
  PROVE  /\ Domains' /\ Apart' /\ Stand(Mine)
         /\ Connected' = Connected /\ S!ProcessUp' = S!ProcessUp
         /\ Due' = Due /\ FromServer' = FromServer
         /\ \A stream : Asks(stream) => Asks(stream)'
         /\ \A stream : Greets(stream) => Greets(stream)'
<1>1. Domains' /\ Apart' /\ Stand(Mine)
  BY DEF Inv, Domains, Apart, Stand, MyFd, server
<1>2. S!ProcessUp' = S!ProcessUp
  BY DEF S!ProcessUp, server
<1>3. Connected' = Connected
  BY <1>2 DEF Connected, server
<1>4. Due' = Due /\ FromServer' = FromServer
  BY DEF Due, FromServer, server
<1> QED BY <1>1, <1>2, <1>3, <1>4 DEF Asks, Greets

\* Where the client is neither at the beginning nor at the end.
Talking == at \notin {"connect", "greet", "hear", "done", "killed"}

LEMMA WholeHello == Greets(Hello)
<1>1. Before(Hello, <<>>) = Hello
  <2>1. Hello \in Seq(Int)
    BY DEF Hello, T!Greeting, T!WriteString, T!WriteUint16, T!Text, T!PidGreeting
  <2> QED BY <2>1 DEF Before
<1> QED BY <1>1, WholeEmpty DEF Greets

\* The Greeting is sent to a handler that awaits it.
LEMMA HelloSent ==
  ASSUME Inv, UNCHANGED server, T!SendGreeting
  PROVE  Inv'
<1>1. at = "greet" /\ UNCHANGED <<sessionId, serverId, info, final, toClient>>
  BY DEF T!SendGreeting, T!Write
<1>2. \/ Connected /\ toServer' = toServer \o Hello /\ at' = "hear"
      \/ ~Connected /\ UNCHANGED toServer /\ at' \in {"hear", "killed"}
  BY DEF T!SendGreeting, T!Write, Hello
<1>3. pc[Mine] = "greet" /\ toServer = <<>> /\ toClient = <<>> /\ serverId = T!None
  BY <1>1 DEF Inv, Hears
<1>4. toServer' \in {<<>>, Hello} /\ (Connected => toServer' = Hello)
  <2>1. Hello \in Seq(Int)
    BY DEF Hello, T!Greeting, T!WriteString, T!WriteUint16, T!Text, T!PidGreeting
  <2> QED BY <1>2, <1>3, <2>1
<1>5. Framed'
  <2>1. Greets(Hello)'
    BY WholeHello, ServerStands
  <2> QED BY <1>2, <1>3, <1>4, <2>1, ServerStands DEF Framed, Stand
<1>6. Understood' /\ HandshakeAgrees'
  BY <1>1, <1>2, <1>3, ServerStands DEF Inv, Stand, Understood, HandshakeAgrees
<1>7. Hears'
  BY <1>1, <1>2, <1>3, <1>4, ServerStands DEF Hears, Stand
<1> QED BY <1>5, <1>6, <1>7, ServerStands DEF Inv

\* What was written is whole, and remains so.
LEMMA AsksLast ==
  ASSUME NEW pid \in ClientPids, NEW payload \in Payloads(RequestOf(pid)), NEW stream
  PROVE  /\ Greets(stream) => Greets(stream \o Request(pid, payload, <<>>))
         /\ Asks(stream) => Asks(stream \o Request(pid, payload, <<>>))
<1> DEFINE last == Request(pid, payload, <<>>)
<1>1. last \in Seq(Int)
  <2>1. <<>> \in Seq(Int)
    OBVIOUS
  <2> QED BY <2>1, RequestSeq
<1>2. ASSUME NEW first \in Seq(Int), NEW more, Whole(more)
      PROVE  /\ Before(first, more) \o last = Before(first, Before(more, last))
             /\ Whole(Before(more, last))
  <2>1. more \in Seq(Int)
    BY <1>2, WholeSeq
  <2>2. Before(Before(first, more), last) = Before(first, Before(more, last))
    BY <1>1, <2>1, BeforeAssoc
  <2> QED BY <1>2, <2>2, WholeLast DEF Before
<1>3. Hello \in Seq(Int)
  BY DEF Hello, T!Greeting, T!WriteString, T!WriteUint16, T!Text, T!PidGreeting
<1>4. \A first \in Due : first \in Seq(Int)
  <2>1. CASE pc[Mine] = "dispatch"
    BY <2>1, PayloadSeq DEF Due
  <2>2. CASE pc[Mine] # "dispatch"
    <3>1. Due = {<<>>}
      BY <2>2 DEF Due
    <3> QED BY <3>1
  <2> QED BY <2>1, <2>2
<1> HIDE DEF last
<1>5. Greets(stream) => Greets(stream \o last)
  BY <1>2, <1>3 DEF Greets
<1>6. Asks(stream) => Asks(stream \o last)
  BY <1>2, <1>4 DEF Asks
<1> QED BY <1>5, <1>6 DEF last

\* A request more, or none, and the stream is framed as before.
LEMMA LaterFramed ==
  ASSUME Inv, UNCHANGED server, Talking \/ at = "hear", at' \notin {"connect", "greet", "hear"},
         \/ UNCHANGED toServer \/ ~Connected
         \/ \E pid \in ClientPids : \E payload \in Payloads(RequestOf(pid)) :
              toServer' = toServer \o Request(pid, payload, <<>>)
  PROVE  Domains' /\ Apart' /\ Framed' /\ Understood'
<1>1. Framed'
  <2> SUFFICES ASSUME Connected, pc[Mine] \notin {"remove", "close"}
               PROVE  IF pc[Mine] = "greet" THEN Greets(toServer)' ELSE Asks(toServer)'
    BY ServerStands DEF Framed, Stand
  <2>1. IF pc[Mine] = "greet" THEN Greets(toServer) ELSE Asks(toServer)
    BY DEF Inv, Framed, Talking, Silent, T!Ended
  <2>2. IF pc[Mine] = "greet" THEN Greets(toServer') ELSE Asks(toServer')
    BY <2>1, AsksLast
  <2> QED BY <2>2, ServerStands DEF Greets, Asks
<1>2. Understood'
  BY ServerStands DEF Inv, Stand, Understood
<1> QED BY <1>1, <1>2, ServerStands

LEMMA Later ==
  ASSUME Inv, UNCHANGED server, Talking, serverId' = serverId,
         at' \notin {"connect", "greet", "hear"},
         \/ UNCHANGED toServer \/ ~Connected
         \/ \E pid \in ClientPids : \E payload \in Payloads(RequestOf(pid)) :
              toServer' = toServer \o Request(pid, payload, <<>>)
  PROVE  Inv'
<1>1. HandshakeAgrees'
  BY ServerStands DEF Inv, Stand, HandshakeAgrees
<1>2. Hears'
  BY ServerStands DEF Inv, Hears, Talking, Stand
<1> QED BY <1>1, <1>2, LaterFramed DEF Inv

\* The client may end at any time.
LEMMA KilledInv ==
  ASSUME Inv, UNCHANGED server, T!Killed
  PROVE  Inv'
<1>1. at' = "killed" /\ ~T!Ended /\ UNCHANGED <<serverId, toServer, toClient>>
  BY DEF T!Killed
<1>2. Framed'
  <2>1. T!Ended'
    BY <1>1 DEF T!Ended
  <2> QED BY <1>1, <2>1, ServerStands DEF Inv, Framed, Stand, Silent
<1>3. Understood' /\ HandshakeAgrees'
  BY <1>1, ServerStands DEF Inv, Stand, Understood, HandshakeAgrees
<1>4. Hears'
  BY <1>1, ServerStands DEF Inv, Hears, Stand
<1> QED BY <1>2, <1>3, <1>4, ServerStands DEF Inv

\* The server's Greeting, as the client reads it.
LEMMA Texts ==
  ASSUME NEW n \in Nat
  PROVE  T!Text(n) \in Seq(Int) /\ Len(T!Text(n)) = n
<1>1. T!Text(n) \in [1..n -> Int]
  BY DEF T!Text
<1>2. T!Text(n) \in UNION {[1..m -> Int] : m \in Nat}
  BY <1>1
<1>3. T!Text(n) \in Seq(Int)
  BY <1>2, SeqDef, Zenon
<1> QED BY <1>1, <1>3, LenProperties

(* What is written is bytes.                                               *)
Written == Seq(T!Bytes)

LEMMA WrittenSeq ==
  ASSUME NEW a \in Written
  PROVE  a \in Seq(Int)
<1>1. T!Bytes \subseteq Int
  BY DEF T!Bytes
<1>2. Len(a) \in Nat /\ a \in [1..Len(a) -> T!Bytes]
  BY LenProperties DEF Written
<1>3. a \in [1..Len(a) -> Int]
  BY <1>1, <1>2
<1> QED BY <1>2, <1>3, SeqDef

LEMMA WrittenBefore ==
  ASSUME NEW a \in Written, NEW b \in Written
  PROVE  /\ Before(a, b) \in Written /\ a \o b \in Written
         /\ Len(a \o b) = Len(a) + Len(b)
<1>1. a \in Seq(T!Bytes) /\ b \in Seq(T!Bytes)
  BY DEF Written
<1>2. a \o b \in Seq(T!Bytes) /\ Len(a \o b) = Len(a) + Len(b)
  BY <1>1, ConcatProperties
<1> QED BY <1>2 DEF Written, Before

LEMMA TextWritten ==
  ASSUME NEW n \in Nat
  PROVE  T!Text(n) \in Written /\ Len(T!Text(n)) = n
<1>1. T!Text(n) \in [1..n -> T!Bytes]
  BY DEF T!Text, T!Bytes
<1>2. T!Text(n) \in UNION {[1..m -> T!Bytes] : m \in Nat}
  BY <1>1
<1>3. T!Text(n) \in Written
  BY <1>2, SeqDef, Zenon DEF Written
<1> QED BY <1>3, Texts

\* A number of two bytes has at most five digits, and is as many bytes.
LEMMA Decimals ==
  ASSUME NEW n \in Int
  PROVE  Decimal(n) \in Written /\ Len(Decimal(n)) \in Nat /\ Len(Decimal(n)) <= 5
<1> DEFINE digits == {k \in 1..4 : n >= 10^k}
           size   == 1 + Cardinality(digits)
           digit(i) == 48 + ((n \div 10^(size - i)) % 10)
<1>1. IsFiniteSet(1..4) /\ Cardinality(1..4) = 4
  <2>1. IsFiniteSet(1..4) /\ Cardinality(1..4) = IF 1 > 4 THEN 0 ELSE 4 - 1 + 1
    <3>1. 1 \in Int /\ 4 \in Int
      OBVIOUS
    <3> QED BY <3>1, FS_Interval, Zenon
  <2> QED BY <2>1, SMT
<1>2. digits \in SUBSET (1..4)
  OBVIOUS
<1> HIDE DEF digits
<1>3. IsFiniteSet(digits) /\ Cardinality(digits) <= 4
  BY <1>1, <1>2, FS_Subset
<1>4. Cardinality(digits) \in Nat
  BY <1>3, FS_CardinalityType
<1>5. size \in 1..5
  BY <1>3, <1>4
<1>6. Decimal(n) = [i \in 1..size |-> digit(i)]
  BY DEF Decimal, digits
<1> HIDE DEF size
<1>7. ASSUME NEW i \in 1..size
      PROVE  digit(i) \in T!Bytes
  <2>1. size - i \in 0..4
    BY <1>5
  <2>2. \A k \in 0..4 : k = 0 \/ k = 1 \/ k = 2 \/ k = 3 \/ k = 4
    OBVIOUS
  <2>3. 10^0 > 0 /\ 10^1 > 0 /\ 10^2 > 0 /\ 10^3 > 0 /\ 10^4 > 0
    OBVIOUS
  <2>4. 10^(size - i) \in Int /\ 10^(size - i) > 0
    <3> DEFINE k == size - i
    <3>1. k \in 0..4
      BY <2>1
    <3> HIDE DEF k
    <3>2. 10^k \in Int
      BY <3>1
    <3>3. 10^k > 0
      BY <2>2, <2>3, <3>1
    <3> QED BY <3>2, <3>3 DEF k
  <2> DEFINE power == 10^(size - i)
             rest  == n \div power
  <2>5. power \in Nat /\ power > 0
    BY <2>4
  <2> HIDE DEF power
  <2>6. rest \in Int
    BY <2>5
  <2> HIDE DEF rest
  <2>7. rest % 10 \in 0..9
    BY <2>6
  <2>8. 48 + (rest % 10) \in 0..255
    BY <2>7
  <2> QED BY <2>8 DEF T!Bytes, rest, power
<1> HIDE DEF digit
<1>8. Decimal(n) \in [1..size -> T!Bytes]
  BY <1>6, <1>7
<1>9. size \in Nat
  BY <1>5
<1>10. Decimal(n) \in Seq(T!Bytes)
  BY <1>8, <1>9, SeqDef
<1>11. Len(Decimal(n)) = size
  BY <1>8, <1>9, <1>10, LenProperties
<1>12. size <= 5
  BY <1>5
<1> QED BY <1>9, <1>10, <1>11, <1>12 DEF Written

LEMMA ClientIds ==
  ASSUME NEW n \in Int
  PROVE  /\ ClientId(n) \in Written /\ ClientId(n) \in Seq(Int)
         /\ Len(ClientId(n)) \in Nat /\ Len(ClientId(n)) <= 12
<1> DEFINE prefix == T!Text(7)
           digits == Decimal(n)
<1>1. /\ prefix \in Written /\ Len(prefix) = 7
      /\ digits \in Written /\ Len(digits) \in Nat /\ Len(digits) <= 5
  BY TextWritten, Decimals
<1>2. ClientId(n) = prefix \o digits
  BY DEF ClientId
<1> HIDE DEF prefix, digits
<1>3. prefix \o digits \in Written /\ Len(prefix \o digits) = Len(prefix) + Len(digits)
  BY <1>1, WrittenBefore
<1>4. Len(prefix) + Len(digits) \in Nat /\ Len(prefix) + Len(digits) <= 12
  BY <1>1
<1> QED BY <1>2, <1>3, <1>4, WrittenSeq

LEMMA Third ==
  ASSUME NEW a \in Values, NEW b \in Values, NEW c \in Values
  PROVE  With(With(With(NoValues, a), b), c)[3] = c
<1>1. With(NoValues, a) \in Seq(Values) /\ Len(With(NoValues, a)) = 1
  BY DEF With, NoValues
<1>2. /\ With(With(NoValues, a), b) \in Seq(Values)
      /\ Len(With(With(NoValues, a), b)) = 2
  BY <1>1 DEF With
<1> QED BY <1>2 DEF With

LEMMA GreetedReads ==
  ASSUME NEW n \in Int, NEW more
  PROVE  /\ Greeted(n) \in Seq(Int) /\ Welcomed \in Seq(Int)
         /\ T!Read(Greeted(n), more, T!GreetingFields).status = "ok"
         /\ T!Read(Greeted(n), more, T!GreetingFields).values[3] = ClientId(n)
         /\ T!Read(Greeted(n), more, T!GreetingFields).rest = Welcomed
<1> DEFINE name == T!Text(11)
           id   == ClientId(n)
           last == Welcomed
           v    == With(With(With(NoValues, 1), name), id)
<1>1. name \in Seq(Int) /\ Len(name) = 11
  BY Texts
<1>2. id \in Seq(Int) /\ Len(id) \in Nat /\ Len(id) <= 12
  BY ClientIds
<1>3. last \in Seq(Int)
  <2> DEFINE text == T!Text(30)
  <2>1. text \in Seq(Int) /\ Len(text) = 30
    BY Texts
  <2> HIDE DEF text
  <2>2. text \in Seq(Int) /\ Len(text) < 65536
    BY <2>1
  <2>3. T!WriteString(text) \in Seq(Int)
    BY <2>2, WriteSeq
  <2>4. T!WriteUint16(T!PidConnectionSucceeded) \in Seq(Int)
    BY DEF T!WriteUint16, T!PidConnectionSucceeded
  <2> QED BY <2>3, <2>4 DEF Welcomed, T!ConnectionSucceeded, text
<1>4. 1 \in Values /\ name \in Values /\ id \in Values
  BY <1>1, <1>2 DEF Values
<1>5. Greeted(n) = T!Greeting(1, name, id) \o last
  BY DEF Greeted, Before
<1> HIDE DEF name, id, last
<1>6. v[3] = id
  BY <1>4, Third
<1>7. T!Read(Greeted(n), more, T!GreetingFields) = Reading(v, last, Begun(more))
  <2>1. name \in Seq(Int) /\ id \in Seq(Int) /\ Len(name) = 11 /\ Len(id) \in Nat /\ Len(id) <= 12
    BY <1>1, <1>2 DEF name, id
  <2>2. name \in Seq(Int) /\ Len(name) <= 63 /\ id \in Seq(Int) /\ Len(id) <= 127
    BY <2>1
  <2>3. \A version \in Nat : version < 65536 =>
          T!Read(T!Greeting(version, name, id) \o last, more, T!GreetingFields)
            = Reading(With(With(With(NoValues, version), name), id), last, Begun(more))
    BY <1>3, <2>2, GreetingReads
  <2>4. 1 \in Nat /\ 1 < 65536
    OBVIOUS
  <2> QED BY <1>5, <2>3, <2>4
<1>8. Greeted(n) \in Seq(Int)
  <2>1. /\ T!WriteString(name) \in Seq(Int) /\ T!WriteString(id) \in Seq(Int)
        /\ \A pid \in Nat : pid < 65536 => T!WriteUint16(pid) \in Seq(Int)
    <3>1. name \in Seq(Int) /\ Len(name) = 11 /\ id \in Seq(Int) /\ Len(id) \in Nat /\ Len(id) <= 12
      BY <1>1, <1>2 DEF name, id
    <3>2. name \in Seq(Int) /\ Len(name) < 65536 /\ id \in Seq(Int) /\ Len(id) < 65536
      BY <3>1
    <3> QED BY <3>2, WriteSeq
  <2>2. T!PidGreeting \in Nat /\ T!PidGreeting < 65536 /\ 1 \in Nat /\ 1 < 65536
    BY DEF T!PidGreeting
  <2>3. T!WriteUint16(T!PidGreeting) \in Seq(Int) /\ T!WriteUint16(1) \in Seq(Int)
    BY <2>1, <2>2
  <2>4. T!Greeting(1, name, id) = Before(Before(Before(T!WriteUint16(T!PidGreeting),
          T!WriteUint16(1)), T!WriteString(name)), T!WriteString(id))
    BY DEF T!Greeting, Before
  <2>5. T!Greeting(1, name, id) \in Seq(Int)
    BY <2>1, <2>3, <2>4, BeforeSeq
  <2> QED BY <1>3, <1>5, <2>5, BeforeSeq DEF Before
<1> HIDE DEF v
<1> QED BY <1>3, <1>6, <1>7, <1>8, Parts DEF id, last

\* The client hears the id of Mine, or nothing.
LEMMA HeardInv ==
  ASSUME Inv, UNCHANGED server, T!ReceiveGreeting
  PROVE  Inv'
<1> DEFINE heard == T!Read(toClient, Connected, T!GreetingFields)
<1>1. /\ at = "hear" /\ UNCHANGED toServer
      /\ at' = IF heard.status = "ok" THEN "welcome" ELSE "done"
      /\ serverId' = IF heard.status = "ok" THEN heard.values[3] ELSE serverId
  BY DEF T!ReceiveGreeting, T!Consume, T!Heard
<1>2. idOf[Mine] \in Int
  BY MineAssumption DEF Inv, Domains
<1>3. serverId = T!None
  BY <1>1 DEF Inv, Hears
<1>4. CASE pc[Mine] # "none" /\ toClient = FromServer /\ pc[Mine] \notin {"greet", "issue"}
  <2>1. at' = "welcome" /\ serverId' = ClientId(idOf[Mine])
    BY <1>1, <1>2, <1>4, GreetedReads DEF FromServer
  <2>2. HandshakeAgrees'
    BY <2>1, ServerStands DEF HandshakeAgrees, Stand
  <2>3. Hears'
    BY <1>4, <2>1, ServerStands DEF Inv, Hears, Stand
  <2> QED BY <1>1, <2>1, <2>2, <2>3, LaterFramed DEF Inv
<1>5. CASE pc[Mine] # "none" /\ toClient = <<>>
  <2>1. heard.status # "ok"
    <3>1. Connected \in BOOLEAN
      BY DEF Connected
    <3>2. heard = Missing(Connected)
      BY <1>5, <3>1, NothingReads
    <3> HIDE DEF heard
    <3> QED BY <3>2, NewStatus DEF Missing
  <2>2. at' = "done" /\ serverId' = T!None
    BY <1>1, <1>3, <2>1
  <2>3. Hears' /\ HandshakeAgrees'
    BY <2>2, ServerStands DEF Inv, Hears, Stand, HandshakeAgrees
  <2> QED BY <1>1, <2>2, <2>3, LaterFramed DEF Inv
<1>6. CASE pc[Mine] = "none"
  <2>1. at' \in {"welcome", "done"}
    BY <1>1
  <2>2. Hears' /\ HandshakeAgrees'
    BY <1>6, <2>1, ServerStands DEF Inv, Hears, Stand, HandshakeAgrees
  <2> QED BY <1>1, <2>1, <2>2, LaterFramed DEF Inv
<1> QED BY <1>1, <1>4, <1>5, <1>6 DEF Inv, Hears

\* The client sends a request.
LEMMA SaidInv ==
  ASSUME Inv, UNCHANGED server, Talking, serverId' = serverId,
         NEW pid \in ClientPids, NEW payload \in Payloads(RequestOf(pid)),
         NEW next \in T!Labels \ {"connect", "greet", "hear"},
         T!Write(Request(pid, payload, <<>>), next)
  PROVE  Inv'
<1>1. at' \notin {"connect", "greet", "hear"}
  BY DEF T!Write
<1>2. ~Connected \/ toServer' = toServer \o Request(pid, payload, <<>>)
  BY DEF T!Write
<1> QED BY <1>1, <1>2, Later

LEMMA RequestPids ==
  /\ T!PidInquireGameSessions \in ClientPids
  /\ <<>> \in Payloads(RequestOf(T!PidInquireGameSessions))
  /\ T!PidRequestGameState \in ClientPids /\ <<>> \in Payloads(RequestOf(T!PidRequestGameState))
  /\ T!PidResign \in ClientPids /\ <<>> \in Payloads(RequestOf(T!PidResign))
  /\ T!PidVerifyGameState \in ClientPids
  /\ T!WriteUint8(0) \in Payloads(RequestOf(T!PidVerifyGameState))
  /\ T!PidMove \in ClientPids
  /\ \A opening \in Openings : Before(opening[1], opening[2]) \in Payloads(RequestOf(T!PidMove))
<1>1. /\ RequestOf(T!PidInquireGameSessions) = "Inquire"
      /\ RequestOf(T!PidRequestGameState) = "RequestGameState"
      /\ RequestOf(T!PidResign) = "Resign"
      /\ RequestOf(T!PidVerifyGameState) = "Verify"
      /\ RequestOf(T!PidMove) = "Move"
  BY DEF RequestOf, T!PidInquireGameSessions, T!PidMove, T!PidRequestGameState,
         T!PidVerifyGameState, T!PidResign
<1>2. <<>> \in Payloads("Inquire") /\ <<>> \in Payloads("RequestGameState")
      /\ <<>> \in Payloads("Resign")
  BY DEF Payloads
<1>3. T!WriteUint8(0) \in Payloads("Verify")
  BY DEF Payloads
<1>4. \A opening \in Openings : Before(opening[1], opening[2]) \in Payloads("Move")
  BY DEF Payloads
<1> QED BY <1>1, <1>2, <1>3, <1>4 DEF ClientPids

\* The client's script.
LEMMA ScriptInv ==
  ASSUME Inv, ClientSteps
  PROVE  Inv'
<1>1. UNCHANGED server /\ T!Script
  BY DEF ClientSteps
<1>2. CASE T!SendGreeting
  BY <1>1, <1>2, HelloSent
<1>3. CASE T!ReceiveGreeting
  BY <1>1, <1>3, HeardInv
<1>4. CASE T!ReceiveWelcome \/ T!ReceiveSessionInfo \/ T!ReceiveGameState \/ T!ReceiveFinal
  <2>1. Talking
    BY <1>4 DEF Talking, T!ReceiveWelcome, T!ReceiveSessionInfo, T!ReceiveGameState,
                T!ReceiveFinal
  <2>2. serverId' = serverId /\ toServer' = toServer
    BY <1>4 DEF T!ReceiveWelcome, T!ReceiveSessionInfo, T!ReceiveGameState, T!ReceiveFinal,
                T!Consume
  <2>3. at' \notin {"connect", "greet", "hear"}
    <3>1. CASE T!ReceiveWelcome
      BY <3>1 DEF T!ReceiveWelcome
    <3>2. CASE T!ReceiveSessionInfo
      <4>1. at' = at \/ \E s : at' = T!Play(s)
        BY <3>2 DEF T!ReceiveSessionInfo
      <4> QED BY <2>1, <4>1 DEF T!Play, Talking
    <3>3. CASE T!ReceiveGameState
      BY <3>3 DEF T!ReceiveGameState
    <3>4. CASE T!ReceiveFinal
      BY <3>4 DEF T!ReceiveFinal
    <3> QED BY <1>4, <3>1, <3>2, <3>3, <3>4
  <2> QED BY <1>1, <2>1, <2>2, <2>3, Later
<1>5. CASE T!Inquire
  <2>1. Talking /\ serverId' = serverId
        /\ T!Write(Request(T!PidInquireGameSessions, <<>>, <<>>), "list")
    BY <1>5, Messages DEF T!Inquire, Talking
  <2> QED BY <1>1, <2>1, RequestPids, SaidInv DEF T!Labels
<1>6. CASE T!SendMove
  <2>1. PICK opening \in Openings : T!Write(T!Move(opening[1], opening[2]), "ask")
    BY <1>6 DEF T!SendMove
  <2> DEFINE payload == Before(opening[1], opening[2])
  <2>2. Talking /\ serverId' = serverId /\ T!Write(Request(T!PidMove, payload, <<>>), "ask")
    BY <1>6, <2>1, Messages DEF T!SendMove, Talking
  <2>3. T!PidMove \in ClientPids /\ payload \in Payloads(RequestOf(T!PidMove))
    BY RequestPids
  <2> HIDE DEF payload
  <2> QED BY <1>1, <2>2, <2>3, SaidInv DEF T!Labels
<1>7. CASE T!SendRequestGameState
  <2>1. Talking /\ serverId' = serverId
        /\ T!Write(Request(T!PidRequestGameState, <<>>, <<>>), "state")
    BY <1>7, Messages DEF T!SendRequestGameState, Talking
  <2> QED BY <1>1, <2>1, RequestPids, SaidInv DEF T!Labels
<1>8. CASE T!SendVerifyState
  <2>1. Talking /\ serverId' = serverId
        /\ T!Write(Request(T!PidVerifyGameState, T!WriteUint8(0), <<>>), "resign")
    BY <1>8, Messages DEF T!SendVerifyState, Talking
  <2> QED BY <1>1, <2>1, RequestPids, SaidInv DEF T!Labels
<1>9. CASE T!SendResign
  <2>1. Talking /\ serverId' = serverId /\ T!Write(Request(T!PidResign, <<>>, <<>>), "final")
    BY <1>9, Messages DEF T!SendResign, Talking
  <2> QED BY <1>1, <2>1, RequestPids, SaidInv DEF T!Labels
<1> QED BY <1>1, <1>2, <1>3, <1>4, <1>5, <1>6, <1>7, <1>8, <1>9 DEF T!Script

-----------------------------------------------------------------------------
(* The connection.                                                         *)
LEMMA NotServedInv ==
  ASSUME Inv, NotServed
  PROVE  Inv'
<1>1. UNCHANGED server /\ at = "connect" /\ at' = "done" /\ UNCHANGED <<serverId, wire>>
  BY DEF NotServed, T!ConnectFails, wire
<1>2. pc[Mine] = "none"
  BY <1>1 DEF Inv, Understood
<1>3. Framed'
  BY <1>2, ServerStands, <1>1 DEF Framed, Stand, Connected
<1>4. Understood' /\ HandshakeAgrees' /\ Hears'
  BY <1>1, <1>2, ServerStands DEF Inv, Stand, Understood, HandshakeAgrees, Hears
<1> QED BY <1>1, <1>3, <1>4, ServerStands DEF Inv

\* It is accepted, with nothing on its way.
LEMMA MyAcceptInv ==
  ASSUME Inv, MyAccept
  PROVE  Inv'
<1>1. /\ at = "connect" /\ at' = "greet" /\ UNCHANGED <<serverId, toServer, toClient>>
  BY DEF MyAccept, T!Connect
<1>2. /\ UNCHANGED <<idOf, received, sent, nextId>>
      /\ pc[Mine] = "none"
      /\ pc' = [pc EXCEPT ![Mine] = "greet"] /\ fdOf' = [fdOf EXCEPT ![Mine] = MyFd]
      /\ conns' = [conns EXCEPT ![MyFd] = "open"]
  BY DEF MyAccept, S!Accept, S!Goto
<1>3. Domains' /\ pc'[Mine] = "greet" /\ fdOf'[Mine] = MyFd
  BY <1>2, MineAssumption DEF Inv, Domains
<1>4. Apart'
  <2>1. \A h \in Handlers \ {Mine} : pc'[h] = pc[h] /\ fdOf'[h] = fdOf[h]
    BY <1>2 DEF Inv, Domains
  <2> QED BY <1>3, <2>1 DEF Inv, Apart, MyFd
<1>5. toServer = <<>> /\ toClient = <<>> /\ serverId = T!None
  BY <1>1 DEF Inv, Hears
<1>6. Framed'
  BY <1>1, <1>3, <1>5 DEF Framed
<1>7. Understood' /\ HandshakeAgrees'
  BY <1>1, <1>2, <1>3, <1>5 DEF Inv, Understood, HandshakeAgrees
<1>8. Hears'
  BY <1>1, <1>3, <1>5 DEF Hears
<1> QED BY <1>3, <1>4, <1>6, <1>7, <1>8 DEF Inv

\* It has closed; what it sent is lost.
LEMMA ClientClosesInv ==
  ASSUME Inv, ClientCloses
  PROVE  Inv'
<1>1. /\ T!Ended /\ UNCHANGED <<at, serverId>>
      /\ toServer' = <<>> /\ toClient' = <<>>
  BY DEF ClientCloses, client
<1>2. /\ UNCHANGED <<pc, fdOf, idOf, received, sent, nextId>>
      /\ DOMAIN conns' = DOMAIN conns
  BY DEF ClientCloses, S!HangUp, S!threads
<1>3. Domains' /\ Apart'
  BY <1>2 DEF Inv, Domains, Apart, MyFd
<1>4. Framed'
  BY <1>1 DEF Framed, Silent, T!Ended
<1>5. Understood' /\ HandshakeAgrees' /\ Hears'
  BY <1>1, <1>2 DEF Inv, Understood, HandshakeAgrees, Hears, T!Ended
<1> QED BY <1>3, <1>4, <1>5 DEF Inv

\* The server has closed; what it sent is lost.
LEMMA ResetInv ==
  ASSUME Inv, Reset
  PROVE  Inv'
<1>1. /\ ~Connected /\ toServer # <<>> /\ toServer' = <<>> /\ toClient' = <<>>
      /\ UNCHANGED server /\ UNCHANGED <<at, serverId>>
  BY DEF Reset, client
<1>2. Framed'
  BY <1>1, ServerStands DEF Framed
<1>3. Understood' /\ HandshakeAgrees'
  BY <1>1, ServerStands DEF Inv, Stand, Understood, HandshakeAgrees
<1>4. Hears'
  BY <1>1, ServerStands DEF Inv, Stand, Hears
<1> QED BY <1>1, <1>2, <1>3, <1>4, ServerStands DEF Inv

LEMMA MyProcessEndsKeeps ==
  ASSUME Inv, MyProcessEnds
  PROVE  MineKept
<1>1. UNCHANGED <<pc, fdOf, idOf, received, sent, conns, nextId>> /\ S!ProcessUp
      /\ UNCHANGED <<client, wire>>
  BY DEF MyProcessEnds, S!SigPipe, S!threads
<1> QED BY <1>1, ProcessKeeps

-----------------------------------------------------------------------------
(* The steps of Mine.                                                      *)
LEMMA MineApart ==
  ASSUME Inv, Alone(Mine)
  PROVE  Domains' /\ Apart'
<1>1. Domains'
  BY DEF Alone
<1>2. pc'[Mine] # "none" => fdOf'[Mine] = MyFd
  BY DEF Alone, Inv, Apart
<1>3. \A h \in Handlers \ {Mine} : pc'[h] = pc[h] /\ fdOf'[h] = fdOf[h]
  BY DEF Alone, Stand
<1> QED BY <1>1, <1>2, <1>3 DEF Inv, Apart, MyFd

\* What is whole lies ahead of a handler that does not await a payload.
LEMMA WholeAsks ==
  ASSUME NEW stream, Whole(stream)
  PROVE  /\ pc[Mine] # "dispatch" => Asks(stream)
         /\ pc'[Mine] # "dispatch" => Asks(stream)'
<1>1. Before(<<>>, stream) = stream
  BY WholeSeq DEF Before
<1>2. pc[Mine] # "dispatch" => <<>> \in Due
  BY DEF Due
<1>3. pc'[Mine] # "dispatch" => <<>> \in Due'
  BY DEF Due
<1> QED BY <1>1, <1>2, <1>3 DEF Asks

LEMMA AsksWhole ==
  ASSUME NEW stream, Asks(stream), pc[Mine] # "dispatch"
  PROVE  Whole(stream)
<1>1. PICK more : Whole(more) /\ stream = Before(<<>>, more)
  BY DEF Asks, Due
<1>2. Before(<<>>, more) = more
  BY <1>1, WholeSeq DEF Before
<1> QED BY <1>1, <1>2

\* The end of a handler, and its entry into the loop.
LEMMA CleanupInv ==
  ASSUME Inv, Alone(Mine), S!ProcessUp, UNCHANGED <<client, wire>>,
         pc[Mine] \notin {"greet", "issue"},
         \/ pc'[Mine] \in {"remove", "close"} /\ idOf'[Mine] = idOf[Mine]
         \/ pc'[Mine] = "none"
         \/ pc[Mine] = "register" /\ pc'[Mine] = "read" /\ idOf'[Mine] = idOf[Mine],
         received'[Mine] = "none", sent'[Mine] # "NotGreeted"
  PROVE  Inv'
<1>1. pc[Mine] # "none"
  BY DEF Alone
<1>2. UNCHANGED <<at, serverId, toServer, toClient>>
  BY DEF client, wire
<1>3. Framed'
  <2>1. CASE pc'[Mine] \in {"remove", "close", "none"}
    BY <2>1 DEF Framed, Connected
  <2>2. CASE pc[Mine] = "register" /\ pc'[Mine] = "read"
    <3>1. \/ Silent
          \/ at \notin {"connect", "greet"} /\ Asks(toServer)
      BY <2>2 DEF Inv, Framed, Connected
    <3>2. Silent => Silent'
      BY <1>2 DEF Silent, T!Ended
    <3>3. Asks(toServer) => Asks(toServer)'
      <4>1. Asks(toServer) => Whole(toServer')
        BY <1>2, <2>2, AsksWhole
      <4>2. Whole(toServer') => Asks(toServer)'
        BY <2>2, WholeAsks DEF Asks
      <4> QED BY <4>1, <4>2
    <3> QED BY <1>2, <2>2, <3>1, <3>2, <3>3 DEF Framed
  <2> QED BY <2>1, <2>2
<1>4. Understood'
  BY <1>1, <1>2 DEF Inv, Understood
<1>5. HandshakeAgrees'
  BY <1>1, <1>2 DEF Inv, HandshakeAgrees
<1>6. Hears'
  <2>1. at # "greet" /\ at # "connect"
    BY <1>1 DEF Inv, Hears, Understood
  <2>2. pc'[Mine] # "none" => FromServer' = FromServer
    BY DEF FromServer
  <2> QED BY <1>1, <1>2, <2>1, <2>2 DEF Inv, Hears
<1> QED BY <1>3, <1>4, <1>5, <1>6, MineApart DEF Inv

LEMMA OwnStepsInv ==
  ASSUME Inv, S!ProcessUp, UNCHANGED <<client, wire>>,
         S!AddClient(Mine) \/ S!ReadFails(Mine) \/ S!RemoveClient(Mine) \/ S!CloseFd(Mine)
  PROVE  Inv'
<1>1. Domains /\ Mine \in Handlers /\ Understood
  BY MineAssumption DEF Inv
<1>2. CASE S!AddClient(Mine)
  BY <1>1, <1>2, AddClientAlone, CleanupInv DEF Understood
<1>3. CASE S!ReadFails(Mine)
  BY <1>1, <1>3, ReadFailsAlone, CleanupInv DEF Understood
<1>4. CASE S!RemoveClient(Mine)
  BY <1>1, <1>4, RemoveClientAlone, CleanupInv DEF Understood
<1>5. CASE S!CloseFd(Mine)
  BY <1>1, <1>5, CloseFdAlone, CleanupInv DEF Understood
<1> QED BY <1>2, <1>3, <1>4, <1>5

\* The Greeting of the client, read to its last byte.
LEMMA HelloReads ==
  ASSUME NEW stream, Greets(stream), NEW more
  PROVE  /\ T!Read(stream, more, T!ClientGreetingFields).status = "ok"
         /\ Whole(T!Read(stream, more, T!ClientGreetingFields).rest)
         /\ stream # <<>>
         /\ stream = Hello => T!Read(stream, more, T!ClientGreetingFields).rest = <<>>
<1> DEFINE name == T!Text(10)
           id   == <<>>
           v    == With(With(With(NoValues, 1), name), id)
           read == T!Read(stream, more, T!ClientGreetingFields)
<1>1. PICK rest : Whole(rest) /\ stream = Before(Hello, rest)
  BY DEF Greets
<1>2. rest \in Seq(Int)
  BY <1>1, WholeSeq
<1>3. name \in Seq(Int) /\ Len(name) = 10 /\ id \in Seq(Int) /\ Len(id) = 0
  <2>1. T!Text(10) \in Seq(Int) /\ Len(T!Text(10)) = 10
    BY Texts
  <2> QED BY <2>1
<1>4. Hello = T!Greeting(1, name, id)
  BY DEF Hello
<1>5. Hello \in Seq(Int)
  BY DEF Hello, T!Greeting, T!WriteString, T!WriteUint16, T!Text, T!PidGreeting
<1> HIDE DEF name, id
<1>6. name \in Seq(Int) /\ Len(name) <= 63 /\ id \in Seq(Int) /\ Len(id) <= 127
  BY <1>3
<1>7. \A b \in Seq(Int) : \A m :
        /\ T!Read(Before(Hello, b), m, T!GreetingFields).status = "ok"
        /\ T!Read(Before(Hello, b), m, T!GreetingFields).rest = b
  <2>1. \A version \in Nat : \A b \in Seq(Int) : \A m : version < 65536 =>
          T!Read(T!Greeting(version, name, id) \o b, m, T!GreetingFields)
            = Reading(With(With(With(NoValues, version), name), id), b, Begun(m))
    BY <1>6, GreetingReads
  <2>2. 1 \in Nat /\ 1 < 65536
    OBVIOUS
  <2>3. \A b \in Seq(Int) : \A m :
          T!Read(T!Greeting(1, name, id) \o b, m, T!GreetingFields) = Reading(v, b, Begun(m))
    BY <2>1, <2>2
  <2> HIDE DEF v
  <2>4. \A b \in Seq(Int) : \A m :
          T!Read(Before(Hello, b), m, T!GreetingFields) = Reading(v, b, Begun(m))
    BY <1>4, <2>3 DEF Before
  <2> QED BY <2>4, Parts
<1>8. T!ClientGreetingFields = T!GreetingFields
  BY DEF T!ClientGreetingFields, T!GreetingFields
<1>9. read = T!Read(Before(Hello, rest), more, T!GreetingFields)
  BY <1>1, <1>8
<1>10. read.status = "ok" /\ read.rest = rest
  <2> HIDE DEF read
  <2> QED BY <1>2, <1>7, <1>9
<1>11. stream # <<>>
  <2>1. CASE stream = <<>>
    <3>1. T!Read(<<>>, TRUE, T!GreetingFields).status = "ok"
      BY <1>1, <1>2, <1>7, <2>1
    <3>2. T!Read(<<>>, TRUE, T!GreetingFields) = Missing(TRUE)
      BY NothingReads
    <3>3. Missing(TRUE).status = "wait"
      BY NewStatus DEF Missing
    <3> QED BY <3>1, <3>2, <3>3
  <2> QED BY <2>1
<1>12. stream = Hello => rest = <<>>
  <2>1. <<>> \in Seq(Int) /\ Before(Hello, <<>>) = Hello
    BY <1>5 DEF Before
  <2>2. T!Read(Before(Hello, <<>>), TRUE, T!GreetingFields).rest = <<>>
    BY <1>7, <2>1
  <2>3. T!Read(Before(Hello, rest), TRUE, T!GreetingFields).rest = rest
    BY <1>2, <1>7
  <2> QED BY <1>1, <2>1, <2>2, <2>3
<1> HIDE DEF read
<1>13. read.status = "ok" /\ Whole(read.rest) /\ (stream = Hello => read.rest = <<>>)
  BY <1>1, <1>10, <1>12
<1> QED BY <1>11, <1>13 DEF read

\* Mine reads the Greeting: it waits for it, finds it, or the client has gone.
LEMMA ReadGreetingInv ==
  ASSUME Inv, S!ProcessUp, ReadGreeting
  PROVE  Inv'
<1> DEFINE greeting == T!Read(toServer, ~T!Ended, T!ClientGreetingFields)
<1>1. /\ greeting.status # "wait"
      /\ greeting.status = "ok" => S!GreetOk(Mine)
      /\ greeting.status # "ok" =>
           /\ S!GreetFails(Mine)
           /\ sent'[Mine] = "NotGreeted" => greeting.status = "unexpected"
      /\ toServer' = greeting.rest
      /\ UNCHANGED client
      /\ greeting.status = "ok" => toClient' \in {toClient, toClient \o <<>>}
  BY DEF ReadGreeting, Arrived, Exchange
<1>2. UNCHANGED <<at, serverId>>
  BY <1>1 DEF client
<1>3. Domains /\ Mine \in Handlers /\ Understood /\ Hears /\ Framed
  BY MineAssumption DEF Inv
<1>4. pc[Mine] = "greet"
  BY <1>1 DEF S!GreetOk, S!GreetFails
<1>5. at # "connect" /\ received[Mine] = "none" /\ sent[Mine] # "NotGreeted" /\ serverId = T!None
  BY <1>3, <1>4 DEF Understood, Hears
<1>6. CASE Greets(toServer) /\ at \notin {"connect", "greet"}
  <2>1. greeting.status = "ok" /\ Whole(greeting.rest)
        /\ (toServer = Hello => greeting.rest = <<>>) /\ toServer # <<>>
    BY <1>6, HelloReads
  <2> HIDE DEF greeting
  <2>2. S!GreetOk(Mine) /\ Whole(toServer')
    BY <1>1, <2>1
  <2>3. /\ Alone(Mine) /\ UNCHANGED <<received, sent, conns>> /\ pc'[Mine] = "issue"
    BY <1>3, <2>2, GreetOkAlone
  <2>4. Asks(toServer)'
    BY <2>2, <2>3, WholeAsks DEF Asks
  <2>5. Framed'
    BY <1>2, <1>6, <2>3, <2>4 DEF Framed
  <2>6. Understood' /\ HandshakeAgrees'
    BY <1>2, <1>5, <2>3 DEF Understood, HandshakeAgrees
  <2>7. Hears'
    <3>1. at \in {"hear", "done", "killed"}
      BY <1>3, <1>4, <1>6 DEF Hears
    <3>2. at = "hear" => toServer' = <<>> /\ toClient' = <<>>
      <4>1. at = "hear" => toServer = Hello /\ toClient = <<>>
        BY <1>3, <1>4, <2>1 DEF Hears
      <4>2. at = "hear" => toClient' = <<>>
        BY <1>1, <2>1, <4>1
      <4> QED BY <1>1, <2>1, <4>1, <4>2
    <3> QED BY <1>2, <1>5, <2>3, <3>1, <3>2 DEF Hears
  <2> QED BY <2>3, <2>5, <2>6, <2>7, MineApart DEF Inv
<1>7. CASE toServer = <<>>
  <2>1. greeting = Missing(~T!Ended)
    <3>1. T!ClientGreetingFields = T!GreetingFields
      BY DEF T!ClientGreetingFields, T!GreetingFields
    <3>2. (~T!Ended) \in BOOLEAN
      OBVIOUS
    <3> QED BY <1>7, <3>1, <3>2, NothingReads
  <2>2. greeting.status = IF ~T!Ended THEN "wait" ELSE "failed"
    <3> HIDE DEF greeting
    <3> QED BY <2>1, NewStatus DEF Missing
  <2> HIDE DEF greeting
  <2>3. T!Ended /\ S!GreetFails(Mine) /\ sent'[Mine] # "NotGreeted"
    BY <1>1, <2>2
  <2>4. Alone(Mine) /\ UNCHANGED <<received, conns, idOf>> /\ pc'[Mine] = "remove"
    BY <1>3, <2>3, GreetFailsAlone
  <2>5. Framed' /\ Understood' /\ HandshakeAgrees'
    BY <1>2, <1>5, <2>3, <2>4 DEF Framed, Understood, HandshakeAgrees
  <2>6. Hears'
    BY <1>2, <2>3, <2>4 DEF Hears, T!Ended
  <2> QED BY <2>4, <2>5, <2>6, MineApart DEF Inv
<1>8. Connected
  BY <1>4 DEF Connected
<1> QED BY <1>3, <1>4, <1>6, <1>7, <1>8 DEF Framed, Silent

\* Mine sends the id it has taken.
LEMMA WelcomeInv ==
  ASSUME Inv, S!ProcessUp, Welcome
  PROVE  Inv'
<1>1. /\ S!IssueId(Mine) /\ UNCHANGED client /\ toServer' = toServer
      /\ toClient' = toClient \/ toClient' = toClient \o FromServer
  BY DEF Welcome, Exchange, FromServer, Greeted, Welcomed, Before
<1>2. UNCHANGED <<at, serverId>>
  BY <1>1 DEF client
<1>3. Domains /\ Mine \in Handlers /\ Understood /\ Hears /\ Framed
  BY MineAssumption DEF Inv
<1>4. /\ Alone(Mine) /\ UNCHANGED <<received, conns, idOf>>
      /\ pc[Mine] = "issue" /\ pc'[Mine] = "register" /\ sent'[Mine] = "Welcome"
  BY <1>1, <1>3, IssueIdAlone
<1>5. at \in {"hear", "done", "killed"} /\ serverId = T!None
  BY <1>3, <1>4 DEF Hears
<1>6. Framed'
  <2>1. Silent \/ Asks(toServer)
    BY <1>3, <1>4 DEF Framed, Connected
  <2>2. Silent => Silent'
    BY <1>1, <1>2 DEF Silent, T!Ended
  <2>3. Asks(toServer) => Whole(toServer')
    BY <1>1, <1>4, AsksWhole
  <2>4. Whole(toServer') => Asks(toServer)'
    BY <1>4, WholeAsks DEF Asks
  <2> QED BY <1>2, <1>4, <1>5, <2>1, <2>2, <2>3, <2>4 DEF Framed
<1>7. Understood' /\ HandshakeAgrees'
  BY <1>2, <1>3, <1>4, <1>5 DEF Understood, HandshakeAgrees
<1>8. Hears'
  <2>1. FromServer' = FromServer
    BY <1>4 DEF FromServer
  <2>2. <<>> \o FromServer = FromServer
    <3>1. FromServer \in Seq(Int)
      BY <1>3, GreetedReads DEF Domains, FromServer
    <3> QED BY <3>1
  <2>3. at = "hear" => toServer = <<>> /\ toClient = <<>>
    BY <1>3, <1>4 DEF Hears
  <2>4. at = "hear" => toClient' \in {<<>>, FromServer}
    BY <1>1, <2>2, <2>3
  <2> QED BY <1>1, <1>2, <1>4, <1>5, <2>1, <2>3, <2>4 DEF Hears
<1> QED BY <1>4, <1>6, <1>7, <1>8, MineApart DEF Inv

\* Mine finds the PID of a whole request, and the payload is then due.
LEMMA ReadPidInv ==
  ASSUME Inv, S!ProcessUp, ReadPid
  PROVE  Inv'
<1> DEFINE pid == T!Read(toServer, ~T!Ended, T!PidFields)
<1>1. /\ pid.status = "ok" /\ S!Receive(Mine)
      /\ received'[Mine] = RequestOf(pid.values[1])
      /\ toServer' = pid.rest /\ UNCHANGED client
  BY DEF ReadPid, Arrived, Exchange
<1>2. UNCHANGED <<at, serverId>>
  BY <1>1 DEF client
<1>3. Domains /\ Mine \in Handlers /\ Understood /\ Hears /\ Framed /\ HandshakeAgrees
  BY MineAssumption DEF Inv
<1>4. /\ Alone(Mine) /\ UNCHANGED <<sent, conns, idOf>>
      /\ pc[Mine] = "read" /\ pc'[Mine] = "dispatch"
  BY <1>1, <1>3, ReceiveAlone
<1>5. toServer # <<>>
  <2>1. CASE toServer = <<>>
    <3>1. (~T!Ended) \in BOOLEAN
      OBVIOUS
    <3>2. pid = Missing(~T!Ended)
      BY <2>1, <3>1, NothingReads
    <3> HIDE DEF pid
    <3>3. pid.status # "ok"
      BY <3>2, NewStatus DEF Missing
    <3> QED BY <1>1, <3>3
  <2> QED BY <2>1
<1>6. Whole(toServer) /\ at \notin {"connect", "greet"}
  BY <1>3, <1>4, <1>5, AsksWhole DEF Framed, Connected, Silent
<1>7. PICK p \in ClientPids : \E payload \in Payloads(RequestOf(p)) : \E more :
        Whole(more) /\ toServer = Request(p, payload, more)
  BY <1>5, <1>6, WholeFirst
<1>8. PICK payload \in Payloads(RequestOf(p)) : \E more :
        Whole(more) /\ toServer = Request(p, payload, more)
  BY <1>7
<1>9. PICK more : Whole(more) /\ toServer = Request(p, payload, more)
  BY <1>8
<1> DEFINE behind == Before(payload, more)
<1>10. behind \in Seq(Int)
  BY <1>9, WholeSeq, PayloadSeq, BeforeSeq
<1>11. p \in Nat /\ p < 65536
       /\ RequestOf(p) \in {"Inquire", "Move", "Verify", "RequestGameState", "Resign"}
  BY Pids
<1>12. toServer = Before(T!WriteUint16(p), behind)
  BY <1>9 DEF Request
<1>13. pid = Reading(With(NoValues, p), behind, Begun(~T!Ended))
  <2> HIDE DEF behind
  <2> QED BY <1>10, <1>11, <1>12, PidReads
<1>14. toServer' = behind /\ received'[Mine] = RequestOf(p)
  <2> DEFINE v == With(NoValues, p)
  <2>1. v[1] = p
    BY DEF With, NoValues
  <2> HIDE DEF v, pid, behind
  <2>2. pid.values = v /\ pid.rest = behind
    BY <1>13, Parts DEF v
  <2> QED BY <1>1, <2>1, <2>2
<1>15. Asks(toServer)'
  <2>1. payload \in Due'
    BY <1>4, <1>14 DEF Due
  <2> QED BY <1>9, <1>14, <2>1 DEF Asks
<1>16. Framed'
  BY <1>2, <1>4, <1>6, <1>15 DEF Framed
<1>17. Understood' /\ HandshakeAgrees'
  BY <1>2, <1>3, <1>4, <1>6, <1>11, <1>14 DEF Understood, HandshakeAgrees
<1>18. Hears'
  <2>1. at # "hear"
    BY <1>3, <1>4, <1>5 DEF Hears
  <2> QED BY <1>2, <1>4, <1>6, <2>1 DEF Hears
<1> QED BY <1>4, <1>16, <1>17, <1>18, MineApart DEF Inv

\* What is read with the payload of the request is the payload.
LEMMA PayloadReads ==
  ASSUME NEW request \in {"none", "Inquire", "Move", "Verify", "RequestGameState", "Resign"},
         NEW payload \in Payloads(request), NEW rest \in Seq(Int), NEW more
  PROVE  T!Read(Before(payload, rest), more, PayloadOf(request)).rest = rest
<1>1. CASE request = "Move"
  <2>1. PICK opening \in Openings : payload = Before(opening[1], opening[2])
    BY <1>1 DEF Payloads
  <2> DEFINE from == opening[1]
             to == opening[2]
  <2>2. from \in Seq(Int) /\ Len(from) = 4 /\ to \in Seq(Int) /\ Len(to) = 4
    BY OpeningsSeq
  <2>3. payload = Before(from, to)
    BY <2>1
  <2> HIDE DEF from, to
  <2>4. T!Read(Before(Before(from, to), rest), more, T!MoveFields)
          = Reading(With(With(NoValues, from), to), rest, Begun(more))
    BY <2>2, MoveReads
  <2>5. PayloadOf(request) = T!MoveFields
    BY <1>1 DEF PayloadOf
  <2> QED BY <2>3, <2>4, <2>5, Parts
<1>2. CASE request = "Verify"
  <2>1. payload = T!WriteUint8(0)
    BY <1>2 DEF Payloads
  <2>2. PayloadOf(request) = T!VerifyFields
    BY <1>2 DEF PayloadOf
  <2> QED BY <2>1, <2>2, VerifyReads, Parts
<1>3. CASE request \notin {"Move", "Verify"}
  <2>1. payload = <<>>
    BY <1>3 DEF Payloads
  <2>2. PayloadOf(request) = <<>>
    BY <1>3 DEF PayloadOf
  <2>3. Before(<<>>, rest) = rest
    BY DEF Before
  <2>4. T!Read(rest, more, <<>>) = Reading(NoValues, rest, Begun(more))
    BY NothingMore
  <2> QED BY <2>1, <2>2, <2>3, <2>4, Parts
<1> QED BY <1>1, <1>2, <1>3

\* Mine handles a request whose payload it has read to the end.
LEMMA HandleInv ==
  ASSUME Inv, S!ProcessUp, Handle
  PROVE  Inv'
<1> DEFINE payload == T!Read(toServer, ~T!Ended, PayloadOf(received[Mine]))
<1>1. /\ payload.status = "ok" /\ S!Process(Mine)
      /\ toServer' = payload.rest /\ UNCHANGED client
  BY DEF Handle, Arrived, Exchange
<1>2. UNCHANGED <<at, serverId>>
  BY <1>1 DEF client
<1>3. Domains /\ Mine \in Handlers /\ Understood /\ Hears /\ Framed /\ HandshakeAgrees
  BY MineAssumption DEF Inv
<1>4. /\ Alone(Mine) /\ UNCHANGED <<conns, idOf>>
      /\ pc[Mine] \in {"dispatch", "report"} /\ pc'[Mine] \in {"read", "report", "remove"}
      /\ received'[Mine] = "none"
      /\ sent'[Mine] = "NotGreeted" => sent[Mine] = "NotGreeted"
  BY <1>1, <1>3, ProcessAlone
<1>5. received[Mine] \in {"none", "Inquire", "Move", "Verify", "RequestGameState", "Resign"}
  BY <1>3 DEF Understood
<1>6. at # "connect" /\ at # "greet" /\ at # "hear"
  BY <1>3, <1>4 DEF Understood, Hears
<1>7. ASSUME Silent PROVE Framed'
  <2>1. payload.rest = <<>>
    <3>1. (~T!Ended) \in BOOLEAN /\ toServer = <<>>
      BY <1>7 DEF Silent
    <3>2. PayloadOf(received[Mine]) \in {T!MoveFields, T!VerifyFields, <<>>}
      BY DEF PayloadOf
    <3>3. PayloadOf(received[Mine]) = <<>>
      BY <1>1, <3>1, <3>2, NothingReadsPayload
    <3> QED BY <3>1, <3>3, NothingMore, Parts
  <2> HIDE DEF payload
  <2>2. Silent'
    BY <1>1, <1>2, <1>7, <2>1 DEF Silent, T!Ended
  <2> QED BY <2>2 DEF Framed
<1>8. ASSUME Asks(toServer) PROVE Framed'
  <2>1. PICK first \in Due : \E more : Whole(more) /\ toServer = Before(first, more)
    BY <1>8 DEF Asks
  <2>2. PICK more : Whole(more) /\ toServer = Before(first, more)
    BY <2>1
  <2>3. first \in Payloads(received[Mine])
    <3>1. CASE pc[Mine] = "dispatch"
      BY <2>1, <3>1 DEF Due
    <3>2. CASE pc[Mine] # "dispatch"
      <4>1. received[Mine] = "none" /\ first = <<>>
        BY <1>3, <2>1, <3>2 DEF Due, Understood
      <4>2. <<>> \in Payloads("none")
        BY DEF Payloads
      <4> QED BY <4>1, <4>2
    <3> QED BY <3>1, <3>2
  <2>4. payload.rest = more
    BY <1>5, <2>2, <2>3, WholeSeq, PayloadReads
  <2> HIDE DEF payload
  <2>5. Whole(toServer')
    BY <1>1, <2>2, <2>4
  <2>6. Asks(toServer)'
    BY <1>4, <2>5, WholeAsks DEF Asks
  <2> QED BY <1>2, <1>4, <1>6, <2>6 DEF Framed
<1>9. Framed'
  BY <1>3, <1>4, <1>7, <1>8 DEF Framed, Connected
<1>10. Understood' /\ HandshakeAgrees'
  BY <1>2, <1>3, <1>4, <1>6 DEF Understood, HandshakeAgrees
<1>11. Hears'
  BY <1>2, <1>4, <1>6 DEF Hears
<1> QED BY <1>4, <1>9, <1>10, <1>11, MineApart DEF Inv

\* All that Mine does.
LEMMA MyHandlerInv ==
  ASSUME Inv, MyHandler
  PROVE  Inv'
<1>1. S!ProcessUp
  BY DEF MyHandler
<1>2. CASE ReadGreeting
  BY <1>1, <1>2, ReadGreetingInv
<1>3. CASE Welcome
  BY <1>1, <1>3, WelcomeInv
<1>4. CASE ReadPid
  BY <1>1, <1>4, ReadPidInv
<1>5. CASE Handle
  BY <1>1, <1>5, HandleInv
<1>6. CASE /\ S!AddClient(Mine) \/ S!ReadFails(Mine) \/ S!RemoveClient(Mine) \/ S!CloseFd(Mine)
           /\ UNCHANGED <<client, wire>>
  BY <1>1, <1>6, OwnStepsInv
<1> QED BY <1>2, <1>3, <1>4, <1>5, <1>6 DEF MyHandler

-----------------------------------------------------------------------------
\* Inv is inductive.
LEMMA NextInv == Inv /\ [Next]_vars => Inv'
<1> SUFFICES ASSUME Inv, [Next]_vars PROVE Inv'
  OBVIOUS
<1>1. CASE MyAccept
  BY <1>1, MyAcceptInv
<1>2. CASE NotServed
  BY <1>2, NotServedInv
<1>3. CASE ClientSteps
  BY <1>3, ScriptInv
<1>4. CASE T!Killed /\ UNCHANGED server
  BY <1>4, KilledInv
<1>5. CASE MyHandler
  BY <1>5, MyHandlerInv
<1>6. CASE ClientCloses
  BY <1>6, ClientClosesInv
<1>7. CASE Reset
  BY <1>7, ResetInv
<1>8. CASE MyProcessEnds
  BY <1>8, MyProcessEndsKeeps, KeptInv
<1>9. CASE Others
  BY <1>9, OthersKeep, KeptInv
<1>10. CASE UNCHANGED vars
  <2>1. UNCHANGED server /\ UNCHANGED <<client, wire>>
    BY <1>10 DEF vars
  <2>2. UNCHANGED <<pc, fdOf, idOf, received, sent, conns, nextId, mainPc>>
    BY <2>1 DEF server
  <2>3. S!ProcessUp' => S!ProcessUp
    BY <2>2 DEF S!ProcessUp
  <2> QED BY <2>1, <2>2, <2>3, ProcessKeeps, KeptInv
<1> QED BY <1>1, <1>2, <1>3, <1>4, <1>5, <1>6, <1>7, <1>8, <1>9, <1>10 DEF Next

LEMMA SpecInv == Spec => []Inv
  BY InitInv, NextInv, PTL DEF Spec

(* Whatever the client has said by the time it is read, however late, and  *)
(* whatever becomes of the connection, the server reads each message to    *)
(* its last byte: it never answers that it was not greeted, and never meets*)
(* a PID it does not know.                                                 *)
THEOREM RequestsAreUnderstood == Spec => []RequestsUnderstood
<1>1. Inv => RequestsUnderstood
  BY DEF Inv, Understood, RequestsUnderstood
<1> QED BY <1>1, SpecInv, PTL

(* The id the client reads is the one its handler holds, though handlers   *)
(* count the ids in a variable they share without a lock.                  *)
THEOREM HandshakesAgree == Spec => []HandshakeAgrees
<1>1. Inv => HandshakeAgrees
  BY DEF Inv
<1> QED BY <1>1, SpecInv, PTL

\* Each step is one that module Server knows.
LEMMA ServerStep ==
  ASSUME Inv, [Next]_vars
  PROVE  S!Next \/ UNCHANGED S!vars
<1>1. CASE UNCHANGED server
  <2>1. UNCHANGED S!vars
    BY <1>1 DEF server, S!vars, S!manager, S!registry, S!threads, S!process
  <2> QED BY <2>1
<1>2. CASE MyAccept
  BY <1>2, MyFdIs, MineAssumption DEF MyAccept, S!Next
<1>3. CASE MyHandler
  <2>1. S!Step(Mine) \/ S!Peer(Mine)
    BY <1>3 DEF MyHandler, ReadGreeting, Welcome, ReadPid, Handle, S!Step, S!Peer
  <2> QED BY <2>1, MineAssumption DEF S!Next
<1>4. CASE ClientCloses
  <2>1. S!HangUp(MyFd)
    BY <1>4 DEF ClientCloses, Inv, Apart
  <2> QED BY <2>1, MyFdIs DEF S!Next
<1>5. CASE MyProcessEnds
  BY <1>5, MineAssumption DEF MyProcessEnds, S!Peer, S!Next
<1>6. CASE Others
  BY <1>6 DEF Others, S!Next
<1>7. CASE NotServed \/ ClientSteps \/ (T!Killed /\ UNCHANGED server) \/ Reset
  BY <1>1, <1>7 DEF NotServed, ClientSteps, Reset
<1>8. CASE UNCHANGED vars
  BY <1>1, <1>8 DEF vars
<1> QED BY <1>2, <1>3, <1>4, <1>5, <1>6, <1>7, <1>8 DEF Next

(* What the handlers do in a conversation is what module Server lets them  *)
(* do with any peers: what is proved there of the registry, of descriptors *)
(* and of seats is true here.                                              *)
THEOREM ConversationIsServer == Spec => S!Spec
<1>1. Init => S!Init
  BY DEF Init
<1>2. Inv /\ [Next]_vars => [S!Next]_(S!vars)
  BY ServerStep
<1> QED BY <1>1, <1>2, SpecInv, PTL DEF Spec, S!Spec

-----------------------------------------------------------------------------
(* The sessions, as far as they are told of.                               *)
Sound(sess) ==
  /\ sess = [players |-> sess.players, state |-> sess.state, game |-> sess.game]
  /\ sess.players \in Seq(Handlers) /\ Len(sess.players) <= 2
  /\ sess.state \in {S!SM!Waiting, S!SM!Active, S!SM!Finished}
  /\ sess.state = S!SM!Active  => Len(sess.players) = 2
  /\ sess.state = S!SM!Waiting => Len(sess.players) < 2

SessionsSound ==
  /\ DOMAIN sessions \subseteq 0..(IdMod - 1)
  /\ \A s \in DOMAIN sessions : Sound(sessions[s])

LEMMA IdsAreWords ==
  /\ IdMod \in Nat
  /\ Creatable \subseteq 0..(IdMod - 1)
  /\ \A s \in 0..(IdMod - 1) : Word(s) /\ s \in Int
<1>1. IdMod \in Nat
  BY SessionIdsAssumption
<1>2. Creatable \subseteq 0..(IdMod - 1)
  BY SessionIdsAssumption
<1>3. ASSUME NEW s \in 0..(IdMod - 1)
      PROVE  Word(s) /\ s \in Int
  <2>1. IdMod \in Int /\ IdMod <= 65536
    BY SessionIdsAssumption
  <2>2. s \in Nat /\ s < 65536
    BY <2>1
  <2> QED BY <2>2 DEF Word
<1> QED BY <1>1, <1>2, <1>3

LEMMA FinishedSound ==
  ASSUME NEW players \in Seq(Handlers), Len(players) <= 2, NEW game
  PROVE  Sound([players |-> players, state |-> S!SM!Finished, game |-> game])
  BY DEF Sound, S!SM!Finished, S!SM!Active, S!SM!Waiting

\* One session is put in the place of another, or is new.
LEMMA PutSound ==
  ASSUME SessionsSound, NEW s \in 0..(IdMod - 1), NEW sess, Sound(sess),
         \/ s \in DOMAIN sessions /\ sessions' = [sessions EXCEPT ![s] = sess]
         \/ sessions' = S!SM!PutSession(s, sess)
  PROVE  SessionsSound' /\ DOMAIN sessions \subseteq DOMAIN sessions'
<1>1. CASE s \in DOMAIN sessions /\ sessions' = [sessions EXCEPT ![s] = sess]
  BY <1>1 DEF SessionsSound, Sound
<1>2. CASE sessions' = S!SM!PutSession(s, sess)
  BY <1>2 DEF SessionsSound, Sound, S!SM!PutSession
<1> QED BY <1>1, <1>2

LEMMA WithoutSound ==
  ASSUME NEW players \in Seq(Handlers), Len(players) <= 2, NEW c
  PROVE  /\ S!SM!Without(players, c) \in Seq(Handlers)
         /\ Len(S!SM!Without(players, c)) <= Len(players)
<1>1. CASE (\A i \in DOMAIN players : players[i] = c) \/ \A i \in DOMAIN players : players[i] # c
  BY <1>1 DEF S!SM!Without
<1>2. CASE (\E i \in DOMAIN players : players[i] # c) /\ \E i \in DOMAIN players : players[i] = c
  <2> DEFINE d == CHOOSE d \in {players[i] : i \in DOMAIN players} : d # c
  <2>1. d \in Handlers
    BY <1>2
  <2>2. S!SM!Without(players, c) = <<d>>
    BY <1>2 DEF S!SM!Without
  <2>3. Len(players) >= 1
    BY <1>2
  <2> HIDE DEF d
  <2>4. <<d>> \in Seq(Handlers) /\ Len(<<d>>) = 1
    BY <2>1
  <2> QED BY <2>2, <2>3, <2>4
<1> QED BY <1>1, <1>2

\* What the manager makes of a session: two seats, and in play if both are taken.
LEMMA JoinSound ==
  ASSUME SessionsSound, NEW h \in Handlers, NEW s, S!SM!JoinSession(h, s)
  PROVE  SessionsSound' /\ DOMAIN sessions \subseteq DOMAIN sessions'
<1> DEFINE old == sessions[s]
           new == S!SM!Seat(old, h)
<1>1. /\ s \in DOMAIN sessions /\ old.state = S!SM!Waiting /\ Len(old.players) < 2
      /\ sessions' = [sessions EXCEPT ![s] = new]
  BY DEF S!SM!JoinSession, S!SM!Exists
<1>2. Sound(old) /\ s \in 0..(IdMod - 1)
  BY <1>1 DEF SessionsSound
<1>3. Sound(new)
  <2> DEFINE players == Append(old.players, h)
  <2>1. players \in Seq(Handlers) /\ Len(players) = Len(old.players) + 1 /\ Len(old.players) \in Nat
    BY <1>2 DEF Sound
  <2>2. CASE Len(players) = 2
    <3>1. new = [players |-> players, state |-> S!SM!Active, game |-> S!SM!NewGame]
      BY <2>2 DEF S!SM!Seat
    <3> HIDE DEF new, players
    <3>2. new.players = players /\ new.state = S!SM!Active
          /\ new = [players |-> new.players, state |-> new.state, game |-> new.game]
      BY <3>1
    <3>3. players \in Seq(Handlers) /\ Len(players) = 2 /\ Len(players) <= 2
      <4>1. \A n : n = 2 => n <= 2
        OBVIOUS
      <4> QED BY <2>1, <2>2, <4>1, Zenon
    <3>4. S!SM!Active # S!SM!Waiting
      BY DEF S!SM!Active, S!SM!Waiting
    <3> QED BY <3>2, <3>3, <3>4 DEF Sound
  <2>3. CASE Len(players) # 2
    <3>1. new = [old EXCEPT !.players = players]
      BY <2>3 DEF S!SM!Seat
    <3>2. new = [players |-> players, state |-> old.state, game |-> old.game]
      <4> HIDE DEF new, players, old
      <4> QED BY <1>2, <3>1 DEF Sound
    <3>3. Len(players) < 2
      BY <1>1, <2>1, <2>3
    <3> HIDE DEF new, players, old
    <3> QED BY <1>1, <2>1, <3>2, <3>3 DEF Sound, S!SM!Waiting, S!SM!Active
  <2> QED BY <2>2, <2>3
<1> HIDE DEF new
<1> QED BY <1>1, <1>2, <1>3, PutSound

LEMMA LeaveSound ==
  ASSUME SessionsSound, NEW h, S!SM!Leave(h)
  PROVE  SessionsSound' /\ DOMAIN sessions \subseteq DOMAIN sessions'
<1>1. CASE UNCHANGED sessions
  BY <1>1 DEF SessionsSound, Sound
<1>2. CASE sessions' # sessions
  <2> DEFINE s == sessionOf[h]
             old == sessions[s]
             rest == S!SM!Without(old.players, h)
             left == [old EXCEPT !.players = rest]
  <2>1. s \in DOMAIN sessions /\ \E new \in S!SM!AfterLeave(old, h) :
          sessions' = [sessions EXCEPT ![s] = new]
    BY <1>2 DEF S!SM!Leave, S!SM!InSession, S!SM!Exists
  <2>2. PICK new \in S!SM!AfterLeave(old, h) : sessions' = [sessions EXCEPT ![s] = new]
    BY <2>1
  <2>3. Sound(old) /\ s \in 0..(IdMod - 1)
    BY <2>1 DEF SessionsSound
  <2>4. rest \in Seq(Handlers) /\ Len(rest) <= Len(old.players) /\ Len(rest) <= 2
    <3> HIDE DEF old
    <3>1. old.players \in Seq(Handlers) /\ Len(old.players) <= 2
      BY <2>3 DEF Sound
    <3>2. rest \in Seq(Handlers) /\ Len(rest) <= Len(old.players)
      BY <3>1, WithoutSound
    <3> HIDE DEF rest
    <3> QED BY <3>1, <3>2
  <2> HIDE DEF s, old, rest
  <2>5. left = [players |-> rest, state |-> old.state, game |-> old.game]
    BY <2>3 DEF Sound
  <2> HIDE DEF left
  <2>6. \/ new = S!SM!Ended(old)
        \/ \E status : new = S!SM!SetStatus(left, status)
        \/ new = left /\ old.state # S!SM!Active
    BY <2>2 DEF S!SM!AfterLeave, left, rest
  <2>7. Sound(new)
    <3>1. CASE new = S!SM!Ended(old)
      <4>1. <<>> \in Seq(Handlers) /\ Len(<<>>) <= 2
        OBVIOUS
      <4> QED BY <3>1, <4>1, FinishedSound DEF S!SM!Ended
    <3>2. CASE \E status : new = S!SM!SetStatus(left, status)
      <4>1. left.players = rest
        BY <2>5
      <4> QED BY <2>4, <3>2, <4>1, FinishedSound DEF S!SM!SetStatus
    <3>3. CASE new = left /\ old.state # S!SM!Active
      BY <2>3, <2>4, <2>5, <3>3 DEF Sound
    <3> QED BY <2>6, <3>1, <3>2, <3>3
  <2> QED BY <2>1, <2>2, <2>3, <2>7, PutSound
<1> QED BY <1>1, <1>2

LEMMA PlaySound ==
  ASSUME SessionsSound, NEW h, S!SM!ApplyMove(h) \/ S!SM!HandleResign(h)
  PROVE  SessionsSound' /\ DOMAIN sessions \subseteq DOMAIN sessions'
<1> DEFINE s == sessionOf[h]
           old == sessions[s]
           put(state, game) == [players |-> old.players, state |-> state, game |-> game]
<1>1. s \in DOMAIN sessions
  BY DEF S!SM!ApplyMove, S!SM!HandleResign, S!SM!InPlay, S!SM!InSession, S!SM!Exists
<1>2. PICK state \in {old.state, S!SM!Finished} : \E game :
        sessions' = [sessions EXCEPT ![s] = put(state, game)]
  <2>1. CASE S!SM!ApplyMove(h)
    BY <2>1 DEF S!SM!ApplyMove
  <2>2. CASE S!SM!HandleResign(h)
    BY <2>2 DEF S!SM!HandleResign, S!SM!SetStatus
  <2> QED BY <2>1, <2>2
<1>3. PICK game :
        sessions' = [sessions EXCEPT ![s] = put(state, game)]
  BY <1>2
<1>4. Sound(old) /\ s \in 0..(IdMod - 1)
  BY <1>1 DEF SessionsSound
<1> DEFINE new == put(state, game)
<1>5. Sound(new)
  <2> HIDE DEF old
  <2> QED BY <1>2, <1>4 DEF Sound, S!SM!Finished, S!SM!Active, S!SM!Waiting
<1>6. sessions' = [sessions EXCEPT ![s] = new]
  BY <1>3
<1> HIDE DEF new, s
<1> QED BY <1>1, <1>4, <1>5, <1>6, PutSound

\* A step of a handler.
LEMMA HandlerSound ==
  ASSUME SessionsSound, NEW h \in Handlers, S!Step(h) \/ S!Peer(h)
  PROVE  SessionsSound' /\ DOMAIN sessions \subseteq DOMAIN sessions'
<1>1. CASE UNCHANGED sessions
  BY <1>1 DEF SessionsSound
<1>2. CASE S!Process(h)
  <2>1. UNCHANGED sessions \/ S!SM!ApplyMove(h) \/ S!SM!HandleResign(h)
    BY <1>2 DEF S!Process, S!ProcessSessionRequest, S!ProcessMove, S!ReportEnd,
       S!ProcessResign, S!ProcessVerifyState, S!ProcessRequestGameState, S!UnknownPid,
       S!Refuse, S!manager
  <2> QED BY <1>1, <2>1, PlaySound
<1>3. CASE S!RemoveClient(h)
  <2>1. UNCHANGED sessions \/ \E c : S!SM!Leave(c)
    BY <1>3 DEF S!RemoveClient, S!SM!LeaveSession, S!manager
  <2> QED BY <1>1, <2>1, LeaveSound
<1>4. CASE \/ S!IssueId(h) \/ S!AddClient(h) \/ S!ReadFails(h) \/ S!CloseFd(h) \/ S!GreetFails(h)
           \/ S!GreetOk(h) \/ S!Receive(h) \/ S!SigPipe(h) \/ S!UseAfterDestroy(h)
  <2>1. UNCHANGED sessions
    BY <1>4 DEF S!IssueId, S!AddClient, S!ReadFails, S!CloseFd, S!GreetFails, S!GreetOk,
       S!Receive, S!SigPipe, S!UseAfterDestroy, S!SM!Connect, S!manager
  <2> QED BY <1>1, <2>1
<1> QED BY <1>2, <1>3, <1>4 DEF S!Step, S!Peer

LEMMA LobbySound ==
  ASSUME SessionsSound,
         S!LobbyCreate \/ \E h \in Handlers, s \in S!SM!SessionIds : S!LobbyJoin(h, s)
  PROVE  SessionsSound' /\ DOMAIN sessions \subseteq DOMAIN sessions'
<1>1. CASE S!LobbyCreate
  <2>1. nextSessionId \in Creatable /\ sessions' = S!SM!PutSession(nextSessionId, S!SM!NewSession)
    BY <1>1 DEF S!LobbyCreate, S!SM!CreateSession
  <2>2. nextSessionId \in 0..(IdMod - 1)
    BY <2>1, IdsAreWords
  <2>3. Sound(S!SM!NewSession)
    BY DEF Sound, S!SM!NewSession, S!SM!Waiting, S!SM!Active
  <2> QED BY <2>1, <2>2, <2>3, PutSound
<1>2. CASE \E h \in Handlers, s \in S!SM!SessionIds : S!LobbyJoin(h, s)
  BY <1>2, JoinSound DEF S!LobbyJoin
<1> QED BY <1>1, <1>2

LEMMA SessionsNext ==
  ASSUME SessionsSound, S!Next \/ UNCHANGED S!vars
  PROVE  SessionsSound' /\ DOMAIN sessions \subseteq DOMAIN sessions'
<1>1. CASE \/ UNCHANGED S!vars \/ S!Signal \/ S!StartFails \/ S!InstallHandlers \/ S!SetRunning
           \/ S!EnterLoop \/ S!MainExit \/ S!AcceptFails
           \/ (\E f \in Fds : S!HangUp(f)) \/ \E f \in Fds, h \in Handlers : S!Accept(f, h)
  <2>1. UNCHANGED sessions
    BY <1>1 DEF S!vars, S!manager, S!Signal, S!StartFails, S!InstallHandlers, S!SetRunning,
       S!EnterLoop, S!MainExit, S!AcceptFails, S!HangUp, S!Accept
  <2> QED BY <2>1 DEF SessionsSound
<1> QED BY <1>1, HandlerSound, LobbySound DEF S!Next

-----------------------------------------------------------------------------
(* What the client may be told of a session: its id, its name, and how many*)
(* play, as many as there are seats if it is being played.                 *)
StateFor(players) == IF players = 2 THEN S!SM!Active ELSE S!SM!Waiting
ToldOf(s, players) == T!GameSessionInfo(s, players, NameOf(s), StateFor(players))
Told == {ToldOf(s, players) : s \in DOMAIN sessions, players \in 0..2}

LEMMA Names ==
  ASSUME NEW s \in Int
  PROVE  /\ NameOf(s) \in Written /\ NameOf(s) \in Seq(Int)
         /\ Byte(Len(NameOf(s)))
<1> DEFINE prefix == T!Text(6)
           digits == Decimal(s)
<1>1. /\ prefix \in Written /\ Len(prefix) = 6
      /\ digits \in Written /\ Len(digits) \in Nat /\ Len(digits) <= 5
  BY TextWritten, Decimals
<1>2. NameOf(s) = prefix \o digits
  BY DEF NameOf
<1> HIDE DEF prefix, digits
<1>3. prefix \o digits \in Written /\ Len(prefix \o digits) = Len(prefix) + Len(digits)
  BY <1>1, WrittenBefore
<1>4. Len(prefix) + Len(digits) \in Nat /\ Len(prefix) + Len(digits) < 256
  BY <1>1
<1> QED BY <1>2, <1>3, <1>4, WrittenSeq DEF Byte

\* What is read is what was written.
LEMMA ToldReads ==
  ASSUME SessionsSound, NEW s \in DOMAIN sessions, NEW players \in 0..2,
         NEW b \in Seq(Int), NEW more
  PROVE  /\ ToldOf(s, players) \in Seq(Int)
         /\ T!Read(Before(ToldOf(s, players), b), more, T!InfoFields)
              = Reading(With(With(With(With(NoValues, s), players), NameOf(s)),
                             StateFor(players)), b, Begun(more))
         /\ s \in Values /\ players \in Values /\ NameOf(s) \in Values
         /\ StateFor(players) \in Values
<1>1. Word(s) /\ s \in Int
  <2>1. s \in 0..(IdMod - 1)
    BY DEF SessionsSound
  <2> QED BY <2>1, IdsAreWords
<1>2. Byte(players) /\ Byte(StateFor(players))
  BY DEF Byte, StateFor, S!SM!Active, S!SM!Waiting
<1>3. NameOf(s) \in Seq(Int) /\ Byte(Len(NameOf(s)))
  BY <1>1, Names
<1>4. s \in Values /\ players \in Values /\ NameOf(s) \in Values /\ StateFor(players) \in Values
  BY <1>1, <1>2, <1>3 DEF Values, Byte
<1> QED BY <1>1, <1>2, <1>3, <1>4, InfoReads DEF ToldOf

LEMMA ToldSeq ==
  ASSUME SessionsSound
  PROVE  Told \subseteq Seq(Int)
<1>1. <<>> \in Seq(Int)
  OBVIOUS
<1>2. ASSUME NEW s \in DOMAIN sessions, NEW players \in 0..2
      PROVE  ToldOf(s, players) \in Seq(Int)
  BY <1>1, ToldReads
<1> QED BY <1>2 DEF Told

\* Each session that is listed is told of as it is.
LEMMA ListedTold ==
  ASSUME SessionsSound, NEW s \in S!Listed
  PROVE  T!GameSessionInfo(s, Len(sessions[s].players), NameOf(s), sessions[s].state) \in Told
<1> DEFINE sess == sessions[s]
           n == Len(sess.players)
<1>1. s \in DOMAIN sessions /\ sess.state # S!SM!Finished /\ Sound(sess)
  BY DEF S!Listed, SessionsSound
<1>2. n \in Nat
  BY <1>1 DEF Sound
<1>3. /\ n <= 2
      /\ \/ sess.state = S!SM!Active  /\ n = 2
         \/ sess.state = S!SM!Waiting /\ n < 2
  <2> HIDE DEF sess
  <2>1. n <= 2 /\ sess.state \in {S!SM!Waiting, S!SM!Active, S!SM!Finished}
    BY <1>1, Zenon DEF Sound
  <2>2. sess.state = S!SM!Active => n = 2
    BY <1>1, Zenon DEF Sound
  <2>3. sess.state = S!SM!Waiting => n < 2
    BY <1>1, Zenon DEF Sound
  <2> HIDE DEF n
  <2>4. sess.state = S!SM!Waiting \/ sess.state = S!SM!Active
    BY <1>1, <2>1
  <2> QED BY <2>1, <2>2, <2>3, <2>4
<1> HIDE DEF n, sess
<1>4. n \in 0..2
  BY <1>2, <1>3
<1>5. sess.state = StateFor(n)
  BY <1>2, <1>3 DEF StateFor
<1>6. ToldOf(s, n) \in Told
  BY <1>1, <1>4 DEF Told
<1> QED BY <1>5, <1>6 DEF ToldOf, n, sess

(* The list: what is sent is told, session by session.                     *)
LEMMA InfosTold ==
  ASSUME SessionsSound
  PROVE  Chain(Told, Infos)
<1> DEFINE said(s) ==
             IF s \in S!Listed
             THEN T!GameSessionInfo(s, Len(sessions[s].players), NameOf(s), sessions[s].state)
             ELSE <<>>
           next(f, n) == IF n = 0 THEN <<>> ELSE f[n - 1] \o said(n - 1)
           upTo(f, n) == f = [m \in 0..n |-> next(f, m)]
           all        == CHOOSE f : upTo(f, IdMod)
           Done       == {n \in Nat : \E f : upTo(f, n)}
           Told0      == Told
<1>1. Infos = all[IdMod]
  BY DEF Infos
<1>2. \A s : s \in S!Listed => said(s) \in Told0
  BY ListedTold
<1>3. \A s : s \notin S!Listed => said(s) = <<>>
  OBVIOUS
<1> HIDE DEF said
<1>4. 0 \in Done
  <2>1. upTo([m \in 0..0 |-> <<>>], 0)
    OBVIOUS
  <2> QED BY <2>1
<1>5. ASSUME NEW n \in Nat, n \in Done
      PROVE  n + 1 \in Done
  <2>1. PICK f : upTo(f, n)
    BY <1>5
  <2> DEFINE it(m) == IF m = n + 1 THEN f[n] \o said(n) ELSE f[m]
             g     == [m \in 0..(n + 1) |-> it(m)]
  <2>2. n + 1 \in 0..(n + 1) /\ \A m \in 0..n : m \in 0..(n + 1) /\ m # n + 1
    OBVIOUS
  <2>3. it(n + 1) = f[n] \o said(n) /\ \A m \in 0..n : it(m) = f[m]
    BY <2>2
  <2> HIDE DEF it
  <2>4. /\ g = [m \in 0..(n + 1) |-> it(m)]
        /\ g[n + 1] = f[n] \o said(n)
        /\ \A m \in 0..n : g[m] = f[m]
    BY <2>2, <2>3
  <2>5. \A m \in 0..n : f[m] = next(f, m)
    BY <2>1
  <2> HIDE DEF g
  <2>6. ASSUME NEW m \in 0..(n + 1)
        PROVE  g[m] = next(g, m)
    <3>1. CASE m = n + 1
      <4>1. m # 0 /\ m - 1 = n /\ n \in 0..n
        BY <3>1
      <4> QED BY <2>4, <3>1, <4>1
    <3>2. CASE m = 0
      <4>1. 0 \in 0..n
        OBVIOUS
      <4> QED BY <2>4, <2>5, <3>2, <4>1
    <3>3. CASE m \in 1..n
      <4>1. m # 0 /\ m \in 0..n /\ m - 1 \in 0..n
        BY <3>3
      <4> QED BY <2>4, <2>5, <4>1
    <3> QED BY <3>1, <3>2, <3>3
  <2>7. \A m \in 0..(n + 1) : it(m) = next(g, m)
    <3>1. \A m \in 0..(n + 1) : g[m] = it(m)
      BY <2>4
    <3> QED BY <2>6, <3>1
  <2> HIDE DEF next
  <2>8. [m \in 0..(n + 1) |-> it(m)] = [m \in 0..(n + 1) |-> next(g, m)]
    BY <2>7
  <2>9. upTo(g, n + 1)
    BY <2>4, <2>8, Zenon
  <2> QED BY <2>9
<1> HIDE DEF Done
<1>6. IdMod \in Nat
  BY IdsAreWords
<1>7. upTo(all, IdMod)
  <2>1. IdMod \in Done
    BY <1>4, <1>5, <1>6, InductionOnSet
  <2>2. \E f : upTo(f, IdMod)
    BY <2>1 DEF Done
  <2> QED BY <2>2, Zenon
<1> HIDE DEF all
<1>8. /\ all[0] = <<>>
      /\ \A n \in Nat : n + 1 <= IdMod => all[n + 1] = all[n] \o said(n)
  <2>1. \A n \in 0..IdMod : all[n] = next(all, n)
    BY <1>7
  <2>2. 0 \in 0..IdMod
    BY <1>6
  <2>3. ASSUME NEW n \in Nat, n + 1 <= IdMod
        PROVE  all[n + 1] = all[n] \o said(n)
    <3>1. n + 1 \in 0..IdMod /\ n + 1 # 0 /\ (n + 1) - 1 = n
      BY <1>6, <2>3
    <3> QED BY <2>1, <3>1
  <2> QED BY <2>1, <2>2, <2>3
<1> DEFINE Good == {n \in Nat : n <= IdMod => Chain(Told0, all[n])}
<1>9. 0 \in Good
  BY <1>8, ChainEmpty
<1>10. ASSUME NEW n \in Nat, n \in Good
       PROVE  n + 1 \in Good
  <2> SUFFICES ASSUME n + 1 <= IdMod PROVE Chain(Told0, all[n + 1])
    OBVIOUS
  <2>1. Chain(Told0, all[n])
    BY <1>6, <1>10
  <2>2. all[n] \in Seq(Int) /\ Told0 \subseteq Seq(Int)
    BY <2>1, ChainSeq, ToldSeq
  <2>3. all[n + 1] = all[n] \o said(n)
    BY <1>8
  <2> HIDE DEF Told0
  <2>4. CASE n \in S!Listed
    BY <1>2, <2>1, <2>2, <2>3, <2>4, ChainLast DEF Before
  <2>5. CASE n \notin S!Listed
    <3>1. all[n] \o <<>> = all[n]
      BY <2>2
    <3> QED BY <1>3, <2>1, <2>3, <2>5, <3>1
  <2> QED BY <2>4, <2>5
<1> HIDE DEF Good
<1>11. IdMod \in Good
  BY <1>6, <1>9, <1>10, InductionOnSet
<1> QED BY <1>1, <1>6, <1>11 DEF Good

\* The next of what is told is heard, as it was told.
TrueOf(id, players, name, state) ==
  /\ id \in DOMAIN sessions
  /\ name = NameOf(id)
  /\ players \in 0..2
  /\ state = StateFor(players)

LEMMA ToldHeard ==
  ASSUME SessionsSound, NEW stream, Chain(Told, stream), NEW more \in BOOLEAN
  PROVE  LET heard == T!Read(stream, more, T!InfoFields) IN
         /\ Chain(Told, heard.rest)
         /\ stream = <<>> => heard.rest = <<>>
         /\ heard.status = "ok" =>
              TrueOf(heard.values[1], heard.values[2], heard.values[3], heard.values[4])
<1> DEFINE heard == T!Read(stream, more, T!InfoFields)
<1>1. CASE stream = <<>>
  <2>1. heard = Missing(more)
    BY <1>1, NothingHeard
  <2>2. heard.status # "ok" /\ heard.rest = <<>>
    <3> HIDE DEF heard
    <3> QED BY <2>1 DEF Missing, Stopped
  <2> HIDE DEF heard
  <2>3. Chain(Told, heard.rest)
    BY <2>2, ChainEmpty
  <2> QED BY <2>2, <2>3 DEF heard
<1>2. CASE stream # <<>>
  <2>1. PICK part \in Told : \E rest : Chain(Told, rest) /\ stream = Before(part, rest)
    BY <1>2, ChainFirst, ToldSeq
  <2>2. PICK rest : Chain(Told, rest) /\ stream = Before(part, rest)
    BY <2>1
  <2>3. PICK s \in DOMAIN sessions, players \in 0..2 : part = ToldOf(s, players)
    BY DEF Told
  <2> DEFINE v == With(With(With(With(NoValues, s), players), NameOf(s)), StateFor(players))
  <2>4. rest \in Seq(Int)
    BY <2>2, ChainSeq
  <2>5. heard = Reading(v, rest, Begun(more))
    BY <2>2, <2>3, <2>4, ToldReads
  <2>6. v[1] = s /\ v[2] = players /\ v[3] = NameOf(s) /\ v[4] = StateFor(players)
    <3>1. s \in Values /\ players \in Values /\ NameOf(s) \in Values
          /\ StateFor(players) \in Values
      BY <2>4, ToldReads
    <3> QED BY <3>1, FourValues
  <2> HIDE DEF v, heard
  <2>7. heard.values = v /\ heard.rest = rest
    BY <2>5, Parts
  <2>8. TrueOf(heard.values[1], heard.values[2], heard.values[3], heard.values[4])
    BY <2>6, <2>7 DEF TrueOf
  <2> QED BY <1>2, <2>2, <2>7, <2>8 DEF heard
<1> QED BY <1>1, <1>2

-----------------------------------------------------------------------------
(* What is on its way to the client.                                       *)

\* A handler that has refused goes no further than its end.
Clean ==
  /\ pc[Mine] = "none" => sent[Mine] = "none"
  /\ pc[Mine] \notin {"remove", "close"} => sent[Mine] \notin S!Failures

\* Nothing but what the client waits for; of the list, sessions as they were.
Listens ==
  /\ at = "hear"    => toClient = <<>> \/ \E n \in Int : toClient = Greeted(n)
  /\ at = "welcome" => toClient \in {<<>>, Welcomed}
  /\ at = "inquire" => toClient = <<>>
  /\ at = "list"    => Chain(Told, toClient)

\* The handler answers the inquiry, and nothing else, while the client reads.
Answers ==
  pc[Mine] # "none" =>
    /\ at \in {"welcome", "inquire"} =>
         pc[Mine] \notin {"dispatch", "report"} /\ toServer = <<>>
    /\ at = "list" =>
         /\ pc[Mine] # "report"
         /\ \/ pc[Mine] # "dispatch" /\ toServer = T!InquireSessions /\ toClient = <<>>
            \/ /\ pc[Mine] = "dispatch" /\ received[Mine] = "Inquire"
               /\ toServer = <<>> /\ toClient = <<>>
            \/ pc[Mine] # "dispatch" /\ toServer = <<>>

InfoInv == Clean /\ Listens /\ Answers /\ InfoTrue
FullInv == Inv /\ SessionsSound /\ InfoInv

LEMMA FullInit == Init => FullInv
<1> SUFFICES ASSUME Init PROVE FullInv
  OBVIOUS
<1>1. S!Init /\ T!Init
  BY DEF Init
<1>2. pc[Mine] = "none" /\ sent[Mine] = "none"
  BY <1>1, MineAssumption DEF S!Init
<1>3. SessionsSound
  <2>1. DOMAIN sessions = {}
    BY <1>1 DEF S!Init, S!SM!NoSessions, S!SM!Init
  <2> QED BY <2>1 DEF SessionsSound
<1>4. at = "connect" /\ info = T!None
  BY <1>1 DEF T!Init
<1> QED BY <1>2, <1>3, <1>4, InitInv
        DEF FullInv, InfoInv, Clean, Listens, Answers, InfoTrue, S!Failures

\* What could be told still can be.
LEMMA StillTold ==
  ASSUME SessionsSound, DOMAIN sessions \subseteq DOMAIN sessions'
  PROVE  Chain(Told, toClient) /\ UNCHANGED toClient => Chain(Told, toClient)'
<1>1. Told \subseteq Told'
  BY DEF Told, ToldOf, NameOf, StateFor
<1>2. Chain(Told, toClient) => Chain(Told', toClient)
  BY <1>1, ChainMore
<1>3. UNCHANGED toClient /\ Chain(Told', toClient) => Chain(Told, toClient)'
  BY DEF Chain, CutAt
<1> QED BY <1>2, <1>3

\* What was true still is.
LEMMA InfoStays ==
  ASSUME InfoTrue, SessionsSound, DOMAIN sessions \subseteq DOMAIN sessions', UNCHANGED info
  PROVE  InfoTrue'
  BY DEF InfoTrue, NameOf

\* The steps that leave Mine and the client alone.
LEMMA KeptInfo ==
  ASSUME FullInv, DOMAIN sessions \subseteq DOMAIN sessions', MineKept
  PROVE  InfoInv'
<1>1. /\ SessionsSound /\ Clean /\ Listens /\ Answers /\ InfoTrue
      /\ Stand(Mine) /\ UNCHANGED <<at, info, toServer, toClient>>
  BY DEF FullInv, InfoInv, MineKept, client, wire
<1>2. InfoTrue'
  BY <1>1, InfoStays
<1>3. Clean'
  BY <1>1 DEF Clean, Stand
<1>4. Listens'
  <2>1. at = "list" => Chain(Told, toClient)'
    BY <1>1, StillTold DEF Listens
  <2> QED BY <1>1, <2>1 DEF Listens
<1>5. Answers'
  BY <1>1 DEF Answers, Stand
<1> QED BY <1>2, <1>3, <1>4, <1>5 DEF InfoInv

\* While the client takes a step the server takes none.
LEMMA ServerSame ==
  ASSUME FullInv, UNCHANGED server
  PROVE  /\ UNCHANGED <<pc, sent, received, sessions>> /\ Clean' /\ Told' = Told
         /\ SessionsSound /\ Inv /\ Clean /\ Listens /\ Answers /\ InfoTrue
         /\ info' = info => InfoTrue'
<1>1. UNCHANGED <<pc, sent, received, sessions>>
  BY DEF server
<1> QED BY <1>1, InfoStays DEF FullInv, InfoInv, Clean, Told, ToldOf, NameOf, StateFor

\* Nobody listens any more, or yet.
Deaf == at \notin {"hear", "welcome", "inquire", "list"}

LEMMA DeafInfo ==
  ASSUME FullInv, UNCHANGED server, UNCHANGED info, Deaf'
  PROVE  InfoInv'
<1>1. Listens' /\ Answers'
  BY DEF Listens, Answers, Deaf
<1> QED BY <1>1, ServerSame DEF InfoInv

LEMMA GreetingInfo ==
  ASSUME FullInv, UNCHANGED server, T!ReceiveGreeting
  PROVE  InfoInv'
<1> DEFINE heard == T!Read(toClient, Connected, T!GreetingFields)
<1>1. /\ at = "hear" /\ UNCHANGED <<toServer, info>> /\ toClient' = heard.rest
      /\ at' = IF heard.status = "ok" THEN "welcome" ELSE "done"
  BY DEF T!ReceiveGreeting, T!Consume, T!Heard
<1>2. Inv /\ Listens /\ UNCHANGED pc /\ Clean' /\ InfoTrue'
  BY <1>1, ServerSame
<1>3. CASE toClient = <<>>
  <2>1. heard.status # "ok"
    <3>1. Connected \in BOOLEAN
      BY DEF Connected
    <3>2. heard = Missing(Connected)
      BY <1>3, <3>1, NothingReads
    <3> HIDE DEF heard
    <3> QED BY <3>2, NewStatus DEF Missing
  <2>2. Deaf'
    BY <1>1, <2>1 DEF Deaf
  <2> QED BY <1>1, <2>2, DeafInfo
<1>4. CASE toClient # <<>>
  <2>1. PICK n \in Int : toClient = Greeted(n)
    BY <1>1, <1>2, <1>4 DEF Listens
  <2>2. heard.status = "ok" /\ heard.rest = Welcomed
    BY <2>1, GreetedReads
  <2>3. at' = "welcome" /\ toClient' = Welcomed
    BY <1>1, <2>2
  <2>4. pc[Mine] # "none" => pc[Mine] \notin {"dispatch", "report"} /\ toServer = <<>>
    BY <1>1, <1>2, <1>4 DEF Inv, Hears
  <2>5. Listens'
    BY <2>3 DEF Listens, Welcomed
  <2>6. Answers'
    BY <1>1, <1>2, <2>3, <2>4 DEF Answers
  <2> QED BY <1>2, <2>5, <2>6 DEF InfoInv
<1> QED BY <1>3, <1>4

LEMMA WelcomeInfo ==
  ASSUME FullInv, UNCHANGED server, T!ReceiveWelcome
  PROVE  InfoInv'
<1> DEFINE heard == T!Read(toClient, Connected, T!SucceededFields)
<1>1. /\ at = "welcome" /\ UNCHANGED <<toServer, info>> /\ toClient' = heard.rest
      /\ at' = IF heard.status = "ok" THEN "inquire" ELSE "done"
  BY DEF T!ReceiveWelcome, T!Consume, T!Heard
<1>2. Listens /\ Answers /\ UNCHANGED pc /\ Clean' /\ InfoTrue'
  BY <1>1, ServerSame
<1>3. CASE heard.status # "ok"
  <2>1. Deaf'
    BY <1>1, <1>3 DEF Deaf
  <2> QED BY <1>1, <2>1, DeafInfo
<1>4. CASE heard.status = "ok"
  <2>1. toClient = Welcomed
    <3>1. CASE toClient = <<>>
      <4>1. Connected \in BOOLEAN
        BY DEF Connected
      <4>2. heard = Missing(Connected)
        BY <3>1, <4>1, NothingHeard
      <4> HIDE DEF heard
      <4>3. heard.status # "ok"
        BY <4>2, NewStatus DEF Missing
      <4> QED BY <1>4, <4>3
    <3> QED BY <1>1, <1>2, <3>1 DEF Listens
  <2>2. heard.rest = <<>>
    <3> DEFINE text == T!Text(30)
               v == With(NoValues, text)
    <3>1. text \in Seq(Int) /\ Len(text) = 30
      BY Texts
    <3> HIDE DEF text
    <3>2. text \in Seq(Int) /\ Len(text) <= 255 /\ <<>> \in Seq(Int)
      BY <3>1
    <3>3. \A more : T!Read(Before(T!ConnectionSucceeded(text), <<>>), more, T!SucceededFields)
                      = Reading(v, <<>>, Begun(more))
      BY <3>2, SucceededReads
    <3>4. Before(Welcomed, <<>>) = Welcomed
      <4>1. Welcomed \in Seq(Int)
        <5>1. 0 \in Int
          OBVIOUS
        <5> QED BY <5>1, GreetedReads
      <4> QED BY <4>1 DEF Before
    <3> HIDE DEF v
    <3>5. \A more : T!Read(Welcomed, more, T!SucceededFields) = Reading(v, <<>>, Begun(more))
      BY <3>3, <3>4 DEF Welcomed, text
    <3> QED BY <2>1, <3>5, Parts
  <2>3. at' = "inquire" /\ toClient' = <<>>
    BY <1>1, <1>4, <2>2
  <2>4. Listens'
    BY <2>3 DEF Listens
  <2>5. Answers'
    BY <1>1, <1>2, <2>3 DEF Answers
  <2> QED BY <1>2, <2>4, <2>5 DEF InfoInv
<1> QED BY <1>3, <1>4

LEMMA InquireInfo ==
  ASSUME FullInv, UNCHANGED server, T!Inquire
  PROVE  InfoInv'
<1>1. /\ at = "inquire" /\ UNCHANGED <<toClient, info>>
      /\ \/ toServer' = toServer \o T!InquireSessions /\ at' = "list"
         \/ UNCHANGED toServer /\ at' \in {"list", "killed"}
  BY DEF T!Inquire, T!Write
<1>2. Listens /\ Answers /\ UNCHANGED pc /\ Clean' /\ InfoTrue'
  BY <1>1, ServerSame
<1>3. toClient' = <<>>
  BY <1>1, <1>2 DEF Listens
<1>4. Listens'
  <2>1. Chain(Told', toClient')
    BY <1>3, ChainEmpty
  <2>2. Chain(Told, toClient)'
    BY <2>1 DEF Chain, CutAt
  <2> QED BY <1>1, <2>2 DEF Listens
<1>5. Answers'
  <2>1. <<>> \o T!InquireSessions = T!InquireSessions
    <3>1. T!InquireSessions \in Seq(Int)
      <4>1. T!PidInquireGameSessions \in Nat /\ T!PidInquireGameSessions < 65536
        BY DEF T!PidInquireGameSessions
      <4> QED BY <4>1, WriteSeq DEF T!InquireSessions
    <3> QED BY <3>1
  <2>2. pc[Mine] # "none" => pc[Mine] \notin {"dispatch", "report"} /\ toServer = <<>>
    BY <1>1, <1>2 DEF Answers
  <2>3. pc[Mine] # "none" => toServer' \in {T!InquireSessions, <<>>}
    BY <1>1, <2>1, <2>2
  <2>4. T!InquireSessions' = T!InquireSessions
    BY DEF T!InquireSessions, T!WriteUint16, T!PidInquireGameSessions
  <2> QED BY <1>1, <1>2, <1>3, <2>2, <2>3, <2>4 DEF Answers
<1> QED BY <1>2, <1>4, <1>5 DEF InfoInv

LEMMA ListInfo ==
  ASSUME FullInv, UNCHANGED server, T!ReceiveSessionInfo
  PROVE  InfoInv'
<1> DEFINE heard == T!Read(toClient, Connected, T!InfoFields)
           found == [id |-> heard.values[1], players |-> heard.values[2],
                     name |-> heard.values[3], state |-> heard.values[4]]
<1>1. /\ at = "list" /\ UNCHANGED toServer /\ toClient' = heard.rest
      /\ IF heard.status = "ok" THEN info' = found ELSE info' = info
      /\ at' \in {"list", "move", "done"}
  BY DEF T!ReceiveSessionInfo, T!Consume, T!Heard, T!Play
<1>2. SessionsSound /\ Listens /\ Answers /\ UNCHANGED <<pc, sessions, received>> /\ Clean'
      /\ Told' = Told /\ InfoTrue /\ (info' = info => InfoTrue')
  BY ServerSame
<1>3. Chain(Told, toClient)
  BY <1>1, <1>2 DEF Listens
<1>4. /\ Chain(Told, heard.rest)
      /\ toClient = <<>> => heard.rest = <<>>
      /\ heard.status = "ok" =>
           TrueOf(heard.values[1], heard.values[2], heard.values[3], heard.values[4])
  <2>1. Connected \in BOOLEAN
    BY DEF Connected
  <2> QED BY <1>2, <1>3, <2>1, ToldHeard
<1> HIDE DEF heard
<1>5. InfoTrue'
  <2>1. CASE heard.status = "ok"
    <3>1. info' = found
      BY <1>1, <2>1
    <3>2. TrueOf(found.id, found.players, found.name, found.state)
      BY <1>4, <2>1
    <3> HIDE DEF found
    <3>3. InfoTrue'
      BY <1>2, <3>1, <3>2 DEF InfoTrue, TrueOf, StateFor, NameOf
    <3> QED BY <3>3
  <2> QED BY <1>1, <1>2, <2>1
<1>6. Listens'
  <2>1. Chain(Told', toClient')
    BY <1>1, <1>2, <1>4
  <2>2. Chain(Told, toClient)'
    BY <2>1 DEF Chain, CutAt
  <2> QED BY <1>1, <2>2 DEF Listens
<1>7. Answers'
  <2>1. T!InquireSessions' = T!InquireSessions
    BY DEF T!InquireSessions, T!WriteUint16, T!PidInquireGameSessions
  <2>2. toClient = <<>> => toClient' = <<>>
    BY <1>1, <1>4
  <2> QED BY <1>1, <1>2, <2>1, <2>2 DEF Answers
<1> QED BY <1>2, <1>5, <1>6, <1>7 DEF InfoInv

\* The client's script.
LEMMA ScriptInfo ==
  ASSUME FullInv, ClientSteps
  PROVE  InfoInv'
<1>1. UNCHANGED server /\ T!Script
  BY DEF ClientSteps
<1>2. CASE T!SendGreeting
  <2>1. at' \in {"hear", "killed"} /\ UNCHANGED <<toClient, info>> /\ toClient = <<>>
    BY <1>2 DEF T!SendGreeting, T!Write, FullInv, Inv, Hears
  <2>2. Listens' /\ Answers'
    BY <2>1 DEF Listens, Answers
  <2> QED BY <1>1, <2>1, <2>2, ServerSame DEF InfoInv
<1>3. CASE \/ T!SendMove \/ T!SendRequestGameState \/ T!ReceiveGameState
           \/ T!SendVerifyState \/ T!SendResign \/ T!ReceiveFinal
  <2>1. Deaf' /\ UNCHANGED info
    BY <1>3 DEF Deaf, T!SendMove, T!SendRequestGameState, T!ReceiveGameState,
       T!SendVerifyState, T!SendResign, T!ReceiveFinal, T!Write
  <2> QED BY <1>1, <2>1, DeafInfo
<1> QED BY <1>1, <1>2, <1>3, GreetingInfo, WelcomeInfo, InquireInfo, ListInfo DEF T!Script

\* What Mine refuses it ends on.
LEMMA ProcessClean ==
  ASSUME Domains, NEW h \in Handlers, S!Process(h)
  PROVE  /\ pc'[h] # "remove" => sent'[h] \in {sent[h], "Info", "GameOver"}
         /\ pc[h] = "dispatch" /\ received[h] = "Inquire" =>
              pc'[h] \in {"read", "remove"} /\ sent'[h] \in {sent[h], "Info"}
<1> DEFINE Effect ==
             /\ \/ S!Goto(h, "remove")
                \/ sent' = sent
                \/ \E m \in {"Info", "GameOver"} : sent' = [sent EXCEPT ![h] = m]
             /\ pc[h] = "dispatch" /\ received[h] = "Inquire" =>
                  /\ \E label \in {"read", "remove"} : S!Goto(h, label)
                  /\ sent' = sent \/ sent' = [sent EXCEPT ![h] = "Info"]
<1>1. Effect
  <2>1. CASE S!ProcessSessionRequest(h)
    BY <2>1 DEF S!ProcessSessionRequest, S!Handling, S!NextRound, S!Send
  <2>2. CASE S!ProcessMove(h)
    BY <2>2 DEF S!ProcessMove, S!Handling, S!Refuse
  <2>3. CASE S!ReportEnd(h)
    BY <2>3 DEF S!ReportEnd, S!Send
  <2>4. CASE S!ProcessResign(h)
    BY <2>4 DEF S!ProcessResign, S!Handling, S!Send
  <2>5. CASE S!ProcessVerifyState(h)
    BY <2>5 DEF S!ProcessVerifyState, S!Handling, S!Refuse
  <2>6. CASE S!ProcessRequestGameState(h)
    BY <2>6 DEF S!ProcessRequestGameState, S!Handling, S!Refuse, S!Send
  <2>7. CASE S!UnknownPid(h)
    BY <2>7 DEF S!UnknownPid, S!Handling, S!Refuse
  <2> QED BY <2>1, <2>2, <2>3, <2>4, <2>5, <2>6, <2>7 DEF S!Process
<1> QED BY <1>1 DEF Domains, S!Goto

\* Each step of Mine, and what it makes of its own state.
LEMMA MineSteps ==
  ASSUME FullInv, MyHandler
  PROVE  /\ SessionsSound /\ Inv /\ Clean /\ Listens /\ Answers /\ InfoTrue
         /\ Domains /\ Mine \in Handlers /\ S!ProcessUp /\ UNCHANGED <<at, info>>
<1>1. UNCHANGED <<at, info>>
  BY DEF MyHandler, ReadGreeting, Welcome, ReadPid, Handle, Exchange, client
<1> QED BY <1>1, MineAssumption DEF FullInv, InfoInv, Inv, MyHandler

LEMMA MineClean ==
  ASSUME FullInv, MyHandler
  PROVE  Clean'
<1>1. Clean /\ Domains /\ Mine \in Handlers
  BY MineSteps
<1>2. CASE ReadGreeting
  <2>1. CASE S!GreetOk(Mine)
    BY <1>1, <2>1, GreetOkAlone DEF Clean
  <2>2. CASE S!GreetFails(Mine)
    BY <1>1, <2>2, GreetFailsAlone DEF Clean
  <2> QED BY <1>2, <2>1, <2>2 DEF ReadGreeting
<1>3. CASE Welcome
  BY <1>1, <1>3, IssueIdAlone DEF Clean, Welcome, S!Failures
<1>4. CASE ReadPid
  BY <1>1, <1>4, ReceiveAlone DEF Clean, ReadPid
<1>5. CASE Handle
  <2>1. S!Process(Mine)
    BY <1>5 DEF Handle
  <2>2. /\ pc'[Mine] \in {"read", "report", "remove"} /\ pc[Mine] \in {"dispatch", "report"}
        /\ pc'[Mine] # "remove" => sent'[Mine] \in {sent[Mine], "Info", "GameOver"}
    BY <1>1, <2>1, ProcessAlone, ProcessClean
  <2> QED BY <1>1, <2>2 DEF Clean, S!Failures
<1>6. CASE S!AddClient(Mine)
  BY <1>1, <1>6, AddClientAlone DEF Clean
<1>7. CASE S!ReadFails(Mine)
  BY <1>1, <1>7, ReadFailsAlone DEF Clean
<1>8. CASE S!RemoveClient(Mine)
  BY <1>1, <1>8, RemoveClientAlone DEF Clean
<1>9. CASE S!CloseFd(Mine)
  BY <1>1, <1>9, CloseFdAlone DEF Clean, S!Failures
<1> QED BY <1>2, <1>3, <1>4, <1>5, <1>6, <1>7, <1>8, <1>9 DEF MyHandler

\* What the client may be told now it may be told then.
LEMMA SameList ==
  ASSUME SessionsSound, Listens, DOMAIN sessions \subseteq DOMAIN sessions',
         UNCHANGED <<at, toClient>>
  PROVE  Listens'
<1>1. at = "list" => Chain(Told, toClient)'
  BY StillTold DEF Listens
<1> QED BY <1>1 DEF Listens

\* Mine sends the answer, as far as the client is still there.
LEMMA ReadGreetingInfo ==
  ASSUME FullInv, MyHandler, ReadGreeting
  PROVE  Listens' /\ Answers'
<1> DEFINE greeting == T!Read(toServer, ~T!Ended, T!ClientGreetingFields)
<1>1. /\ greeting.status # "wait"
      /\ S!GreetOk(Mine) \/ S!GreetFails(Mine)
      /\ greeting.status = "ok" => toClient' \in {toClient, toClient \o <<>>}
  BY DEF ReadGreeting, Arrived, Exchange
<1>2. Inv /\ UNCHANGED at
  BY MineSteps
<1>3. pc[Mine] = "greet"
  BY <1>1 DEF S!GreetOk, S!GreetFails
<1>4. at \in {"greet", "hear", "done", "killed"}
  BY <1>2, <1>3 DEF Inv, Hears
<1>5. at = "hear" => toClient' = <<>>
  <2> SUFFICES ASSUME at = "hear" PROVE toClient' = <<>>
    OBVIOUS
  <2>1. toClient = <<>> /\ toServer \in {<<>>, Hello}
    BY <1>2, <1>3 DEF Inv, Hears
  <2>2. CASE toServer = <<>>
    <3>1. T!ClientGreetingFields = T!GreetingFields
      BY DEF T!ClientGreetingFields, T!GreetingFields
    <3>2. (~T!Ended) = TRUE
      BY DEF T!Ended
    <3>3. greeting = Missing(TRUE)
      BY <2>2, <3>1, <3>2, NothingReads
    <3> HIDE DEF greeting
    <3>4. greeting.status = "wait"
      BY <3>3, NewStatus DEF Missing
    <3> QED BY <1>1, <3>4
  <2>3. CASE toServer = Hello
    <3>1. greeting.status = "ok"
      BY <2>3, WholeHello, HelloReads
    <3> QED BY <1>1, <2>1, <3>1
  <2> QED BY <2>1, <2>2, <2>3
<1> QED BY <1>2, <1>4, <1>5 DEF Listens, Answers

LEMMA WelcomeSent ==
  ASSUME FullInv, MyHandler, Welcome
  PROVE  Listens' /\ Answers'
<1>1. /\ S!IssueId(Mine)
      /\ toClient' = toClient \/ toClient' = toClient \o FromServer
  BY DEF Welcome, Exchange, FromServer, Greeted, Welcomed, Before
<1>2. Inv /\ Domains /\ UNCHANGED at
  BY MineSteps
<1>3. pc[Mine] = "issue"
  BY <1>1 DEF S!IssueId
<1>4. at \in {"greet", "hear", "done", "killed"}
  BY <1>2, <1>3 DEF Inv, Hears
<1>5. at = "hear" => toClient' = <<>> \/ \E n \in Int : toClient' = Greeted(n)
  <2>1. at = "hear" => toClient = <<>>
    BY <1>2, <1>3 DEF Inv, Hears
  <2>2. idOf[Mine] \in Int
    BY <1>2, MineAssumption DEF Domains
  <2>3. <<>> \o FromServer = FromServer
    <3>1. FromServer \in Seq(Int)
      BY <2>2, GreetedReads DEF FromServer
    <3> QED BY <3>1
  <2> QED BY <1>1, <2>1, <2>2, <2>3 DEF FromServer
<1>6. \A n \in Int : Greeted(n)' = Greeted(n)
  BY DEF Greeted, Welcomed, ClientId, T!Greeting, T!ConnectionSucceeded, T!Text
<1> QED BY <1>2, <1>4, <1>5, <1>6 DEF Listens, Answers

LEMMA ReadPidInfo ==
  ASSUME FullInv, MyHandler, DOMAIN sessions \subseteq DOMAIN sessions', ReadPid
  PROVE  Listens' /\ Answers'
<1> DEFINE pid == T!Read(toServer, ~T!Ended, T!PidFields)
<1>1. /\ pid.status = "ok" /\ S!Receive(Mine)
      /\ received'[Mine] = RequestOf(pid.values[1])
      /\ toServer' = pid.rest /\ toClient' \in {toClient, toClient \o <<>>}
  BY DEF ReadPid, Arrived, Exchange
<1>2. SessionsSound /\ Listens /\ Answers /\ Inv /\ Domains /\ Mine \in Handlers /\ UNCHANGED at
  BY MineSteps
<1>3. pc[Mine] = "read" /\ pc'[Mine] = "dispatch"
  BY <1>1, <1>2, ReceiveAlone
<1>4. toServer # <<>>
  <2>1. CASE toServer = <<>>
    <3>1. (~T!Ended) \in BOOLEAN
      OBVIOUS
    <3>2. pid = Missing(~T!Ended)
      BY <2>1, <3>1, NothingReads
    <3> HIDE DEF pid
    <3>3. pid.status # "ok"
      BY <3>2, NewStatus DEF Missing
    <3> QED BY <1>1, <3>3
  <2> QED BY <2>1
<1>5. at \notin {"hear", "welcome", "inquire"}
  BY <1>2, <1>3, <1>4 DEF Inv, Hears, Answers
<1>6. CASE at # "list"
  BY <1>2, <1>5, <1>6 DEF Listens, Answers
<1>7. CASE at = "list"
  <2>1. toServer = T!InquireSessions /\ toClient = <<>>
    BY <1>2, <1>3, <1>4, <1>7 DEF Answers
  <2>2. toClient' = <<>>
    BY <1>1, <2>1
  <2> DEFINE p == T!PidInquireGameSessions
  <2>3. p \in Nat /\ p < 65536
    BY RequestPids, Pids
  <2>9. RequestOf(p) = "Inquire"
    BY DEF RequestOf, T!PidInquireGameSessions, T!PidMove, T!PidRequestGameState,
           T!PidVerifyGameState, T!PidResign
  <2>4. toServer = Before(T!WriteUint16(p), <<>>)
    <3>1. T!WriteUint16(p) \in Seq(Int)
      BY <2>3, WriteSeq
    <3> QED BY <2>1, <3>1 DEF T!InquireSessions, Before
  <2> HIDE DEF p
  <2>5. pid = Reading(With(NoValues, p), <<>>, Begun(~T!Ended))
    <3>1. \A b \in Seq(Int) : \A more :
            T!Read(Before(T!WriteUint16(p), b), more, T!PidFields)
              = Reading(With(NoValues, p), b, Begun(more))
      BY <2>3, PidReads
    <3>2. <<>> \in Seq(Int)
      OBVIOUS
    <3> QED BY <2>4, <3>1, <3>2
  <2>6. toServer' = <<>> /\ received'[Mine] = "Inquire"
    <3> DEFINE v == With(NoValues, p)
    <3>1. v[1] = p
      BY DEF With, NoValues
    <3> HIDE DEF v, pid
    <3>2. pid.values = v /\ pid.rest = <<>>
      BY <2>5, Parts DEF v
    <3> QED BY <1>1, <2>9, <3>1, <3>2
  <2>7. Listens'
    <3>1. toClient' = toClient
      BY <2>1, <2>2
    <3> QED BY <1>2, <3>1, SameList
  <2>8. Answers'
    BY <1>2, <1>3, <1>7, <2>2, <2>6 DEF Answers
  <2> QED BY <2>7, <2>8
<1> QED BY <1>6, <1>7

LEMMA HandleInfo ==
  ASSUME FullInv, MyHandler, DOMAIN sessions \subseteq DOMAIN sessions', Handle
  PROVE  Listens' /\ Answers'
<1> DEFINE payload == T!Read(toServer, ~T!Ended, PayloadOf(received[Mine]))
<1>1. /\ S!Process(Mine) /\ toServer' = payload.rest
      /\ toClient' = toClient \/ toClient' = toClient \o Answer
  BY DEF Handle, Arrived, Exchange
<1>2. SessionsSound /\ Clean /\ Listens /\ Answers /\ Inv /\ Domains /\ Mine \in Handlers
      /\ UNCHANGED at
  BY MineSteps
<1>3. pc[Mine] \in {"dispatch", "report"}
  BY <1>1, <1>2, ProcessAlone
<1>4. at \notin {"hear", "welcome", "inquire"}
  BY <1>2, <1>3 DEF Inv, Hears, Answers
<1>5. CASE at # "list"
  BY <1>2, <1>4, <1>5 DEF Listens, Answers
<1>6. CASE at = "list"
  <2>1. /\ pc[Mine] = "dispatch" /\ received[Mine] = "Inquire"
        /\ toServer = <<>> /\ toClient = <<>>
    BY <1>2, <1>3, <1>6 DEF Answers
  <2>2. pc'[Mine] \in {"read", "remove"} /\ sent'[Mine] \in {sent[Mine], "Info"}
    BY <1>1, <1>2, <2>1, ProcessClean
  <2>3. Answer = Infos
    BY <1>2, <2>1, <2>2 DEF Answer, Clean, S!Failures
  <2>4. Chain(Told, Infos) /\ Infos \in Seq(Int)
    <3>1. Chain(Told, Infos)
      BY <1>2, InfosTold
    <3> QED BY <3>1, ChainSeq
  <2>5. Chain(Told, toClient')
    <3>1. <<>> \o Infos = Infos
      BY <2>4
    <3>2. toClient' \in {<<>>, Infos}
      BY <1>1, <2>1, <2>3, <3>1
    <3> QED BY <2>4, <3>2, ChainEmpty
  <2>6. Chain(Told, toClient)'
    <3>1. Told \subseteq Told'
      BY DEF Told, ToldOf, NameOf, StateFor
    <3>2. Chain(Told', toClient')
      BY <2>5, <3>1, ChainMore
    <3> QED BY <3>2 DEF Chain, CutAt
  <2>7. Listens'
    BY <1>2, <1>6, <2>6 DEF Listens
  <2>8. toServer' = <<>>
    <3>1. PayloadOf(received[Mine]) = <<>>
      BY <2>1 DEF PayloadOf
    <3> QED BY <1>1, <2>1, <3>1, NothingMore, Parts
  <2>9. Answers'
    BY <1>2, <1>6, <2>2, <2>8 DEF Answers
  <2> QED BY <2>7, <2>9
<1> QED BY <1>5, <1>6

LEMMA OwnStepsInfo ==
  ASSUME FullInv, MyHandler, DOMAIN sessions \subseteq DOMAIN sessions', UNCHANGED <<client, wire>>,
         S!AddClient(Mine) \/ S!ReadFails(Mine) \/ S!RemoveClient(Mine) \/ S!CloseFd(Mine)
  PROVE  Listens' /\ Answers'
<1>1. SessionsSound /\ Listens /\ Answers /\ Domains /\ Mine \in Handlers
      /\ UNCHANGED <<at, toServer, toClient>>
  BY MineSteps DEF wire
<1>2. Listens'
  BY <1>1, SameList
<1>3. pc[Mine] # "none" /\ pc'[Mine] \in {"read", "remove", "close", "none"}
  BY <1>1, AddClientAlone, ReadFailsAlone, RemoveClientAlone, CloseFdAlone DEF Alone
<1>4. T!InquireSessions' = T!InquireSessions
  BY DEF T!InquireSessions, T!WriteUint16, T!PidInquireGameSessions
<1>5. Answers'
  BY <1>1, <1>3, <1>4 DEF Answers
<1> QED BY <1>2, <1>5

LEMMA MyHandlerInfo ==
  ASSUME FullInv, MyHandler, DOMAIN sessions \subseteq DOMAIN sessions'
  PROVE  InfoInv'
<1>1. Listens' /\ Answers'
  BY ReadGreetingInfo, WelcomeSent, ReadPidInfo, HandleInfo, OwnStepsInfo DEF MyHandler
<1>2. InfoTrue'
  BY MineSteps, InfoStays
<1> QED BY <1>1, <1>2, MineClean DEF InfoInv

-----------------------------------------------------------------------------
LEMMA FullNext == FullInv /\ [Next]_vars => FullInv'
<1> SUFFICES ASSUME FullInv, [Next]_vars PROVE FullInv'
  OBVIOUS
<1>1. Inv /\ SessionsSound /\ Clean /\ Listens /\ Answers /\ InfoTrue
  BY DEF FullInv, InfoInv
<1>2. Inv' /\ SessionsSound' /\ DOMAIN sessions \subseteq DOMAIN sessions'
  BY <1>1, NextInv, ServerStep, SessionsNext
<1>3. CASE MyAccept
  <2>1. /\ at' = "greet" /\ UNCHANGED <<info, sent>> /\ pc[Mine] = "none"
        /\ pc' = [pc EXCEPT ![Mine] = "greet"]
    BY <1>3 DEF MyAccept, T!Connect, S!Accept, S!Goto
  <2>2. InfoTrue'
    BY <1>1, <1>2, <2>1, InfoStays
  <2>3. Clean'
    BY <1>1, <2>1, MineAssumption DEF Clean, Inv, Domains, S!Failures
  <2>4. Listens' /\ Answers'
    BY <2>1 DEF Listens, Answers
  <2> QED BY <1>2, <2>2, <2>3, <2>4 DEF FullInv, InfoInv
<1>4. CASE NotServed
  <2>1. UNCHANGED server /\ UNCHANGED info /\ Deaf'
    BY <1>4 DEF NotServed, T!ConnectFails, Deaf
  <2> QED BY <1>2, <2>1, DeafInfo DEF FullInv
<1>5. CASE ClientSteps
  BY <1>2, <1>5, ScriptInfo DEF FullInv
<1>6. CASE T!Killed /\ UNCHANGED server
  <2>1. UNCHANGED info /\ Deaf'
    BY <1>6 DEF T!Killed, Deaf
  <2> QED BY <1>2, <1>6, <2>1, DeafInfo DEF FullInv
<1>7. CASE MyHandler
  BY <1>2, <1>7, MyHandlerInfo DEF FullInv
<1>8. CASE ClientCloses
  <2>1. T!Ended /\ UNCHANGED <<at, info, pc, sent>>
    BY <1>8 DEF ClientCloses, S!HangUp, S!threads, client
  <2>2. InfoTrue' /\ Clean'
    BY <1>1, <1>2, <2>1, InfoStays DEF Clean
  <2>3. Listens' /\ Answers'
    BY <2>1 DEF Listens, Answers, T!Ended
  <2> QED BY <1>2, <2>2, <2>3 DEF FullInv, InfoInv
<1>9. CASE Reset
  <2>1. /\ UNCHANGED server /\ UNCHANGED <<at, info>> /\ toServer # <<>>
        /\ toServer' = <<>> /\ toClient' = <<>>
    BY <1>9 DEF Reset, client
  <2>2. InfoTrue' /\ Clean' /\ UNCHANGED <<pc, received>>
    BY <2>1, ServerSame
  <2>3. Chain(Told, toClient)'
    <3>1. Chain(Told', toClient')
      BY <2>1, ChainEmpty
    <3> QED BY <3>1 DEF Chain, CutAt
  <2>4. Listens' /\ Answers'
    BY <1>1, <2>1, <2>2, <2>3 DEF Listens, Answers
  <2> QED BY <1>2, <2>2, <2>4 DEF FullInv, InfoInv
<1>10. CASE MyProcessEnds
  BY <1>1, <1>2, <1>10, MyProcessEndsKeeps, KeptInfo DEF FullInv
<1>11. CASE Others
  BY <1>1, <1>2, <1>11, OthersKeep, KeptInfo DEF FullInv
<1>12. CASE UNCHANGED vars
  <2>1. UNCHANGED server /\ UNCHANGED <<client, wire>>
    BY <1>12 DEF vars
  <2>2. UNCHANGED <<pc, fdOf, idOf, received, sent, conns, nextId>>
    BY <2>1 DEF server
  <2>3. S!ProcessUp' => S!ProcessUp
    BY <2>1 DEF server, S!ProcessUp
  <2>4. MineKept
    BY <1>1, <2>1, <2>2, <2>3, ProcessKeeps
  <2> QED BY <1>2, <2>4, KeptInfo DEF FullInv
<1> QED BY <1>3, <1>4, <1>5, <1>6, <1>7, <1>8, <1>9, <1>10, <1>11, <1>12 DEF Next

(* What the client reads of a session, of the bytes of the list and at     *)
(* whatever time, was true of it when its handler listed it: it exists, has*)
(* that name, was not over, and was being played exactly if both its seats *)
(* were taken.  Nothing the server sends in between, refusals included, is *)
(* ever taken for a session.                                               *)
THEOREM InfosAreTrue == Spec => []InfoTrue
<1>1. Init => FullInv
  BY FullInit
<1>2. FullInv /\ [Next]_vars => FullInv'
  BY FullNext
<1>3. FullInv => InfoTrue
  BY DEF FullInv, InfoInv
<1> QED BY <1>1, <1>2, <1>3, PTL DEF Spec

-----------------------------------------------------------------------------
(* What is on the wire is bytes.  Whatever is read, and whatever comes of  *)
(* it, what is left is bytes: a reading goes on or it has halted.          *)
Halted(r) == r.status # "ok" /\ r.rest \in Written

\* It has read no value more, or one.
Kept(r, v, x) == \E b \in Written : r = Reading(v, b, x)
Gained(r, v, x, set) == \E value \in set : \E b \in Written : r = Reading(With(v, value), b, x)

Readable == Nat \cup Written

LEMMA ReadableValues == Readable \subseteq Values
<1>1. ASSUME NEW a \in Written PROVE a \in Values
  BY WrittenSeq DEF Values
<1> QED BY <1>1 DEF Readable, Values

LEMMA ReadableSeq ==
  ASSUME NEW v \in Seq(Readable)
  PROVE  v \in Seq(Values)
<1>1. Len(v) \in Nat /\ v \in [1..Len(v) -> Readable]
  BY LenProperties
<1>2. v \in [1..Len(v) -> Values]
  BY <1>1, ReadableValues
<1> QED BY <1>1, <1>2, SeqDef

LEMMA WithReadable ==
  ASSUME NEW v \in Seq(Readable), NEW value \in Readable
  PROVE  With(v, value) \in Seq(Readable)
  BY DEF With

LEMMA Halts ==
  ASSUME NEW v, NEW b \in Written, NEW c \in Written, NEW x, NEW status, status # "ok"
  PROVE  /\ Halted(Stop(Reading(v, b, x), status))
         /\ Halted([Reading(v, b, x) EXCEPT !.status = status, !.rest = c])
<1> DEFINE r == Reading(v, b, x)
<1>1. r = [status |-> "ok", values |-> v, rest |-> b, then |-> x]
  BY DEF Reading
<1>2. Stop(r, status) = [status |-> status, values |-> v, rest |-> b, then |-> x]
  BY <1>1 DEF Stop
<1>3. [r EXCEPT !.status = status, !.rest = c] = Lose(Stop(r, status), c)
  BY DEF Stop, Lose
<1>4. Lose(Stop(r, status), c) = [status |-> status, values |-> v, rest |-> c, then |-> x]
  BY <1>2 DEF Lose
<1> QED BY <1>2, <1>3, <1>4 DEF Halted

\* A stream of bytes is cut into streams of bytes.
LEMMA CutWritten ==
  ASSUME NEW s \in Written, NEW n \in Nat, n <= Len(s)
  PROVE  \E a \in Written : \E b \in Written : s = a \o b /\ Len(a) = n
<1> DEFINE a == SubSeq(s, 1, n)
           b == SubSeq(s, n + 1, Len(s))
<1>1. s \in Seq(T!Bytes)
  BY DEF Written
<1>2. a \in Seq(T!Bytes) /\ Len(a) = n
  BY <1>1
<1>3. b \in Seq(T!Bytes)
  BY <1>1
<1>4. s = a \o b
  <2>1. 1 \in 1..(Len(s) + 1) /\ n \in (1 - 1)..Len(s) /\ Len(s) \in n..Len(s)
    BY <1>1
  <2>2. a \o b = SubSeq(s, 1, Len(s))
    BY <1>1, <2>1, ConcatAdjacentSubSeq
  <2> QED BY <1>1, <2>2, SubSeqFull
<1> HIDE DEF a, b
<1> QED BY <1>2, <1>3, <1>4 DEF Written

LEMMA WrittenByte ==
  ASSUME NEW a \in Written, NEW i \in 1..Len(a)
  PROVE  a[i] \in T!Bytes /\ a[i] \in Nat
<1>1. a \in Seq(T!Bytes)
  BY DEF Written
<1>2. a[i] \in T!Bytes
  BY <1>1, ElementOfSeq
<1>3. T!Bytes \subseteq Nat
  BY DEF T!Bytes
<1> QED BY <1>2, <1>3

LEMMA TakeWritten ==
  ASSUME NEW v \in Seq(Readable), NEW s \in Written, NEW x, NEW n \in Nat
  PROVE  \/ Halted(T!Take(Reading(v, s, x), n))
         \/ \E a \in Written : \E b \in Written :
              Len(a) = n /\ T!Take(Reading(v, s, x), n) = Reading(With(v, a), b, x)
<1> DEFINE r == Reading(v, s, x)
<1>1. CASE n <= Len(s)
  <2>1. PICK a \in Written : \E b \in Written : s = a \o b /\ Len(a) = n
    BY <1>1, CutWritten
  <2>2. PICK b \in Written : s = a \o b /\ Len(a) = n
    BY <2>1
  <2>3. v \in Seq(Values) /\ a \in Seq(Int) /\ b \in Seq(Int)
    BY ReadableSeq, WrittenSeq
  <2>4. T!Take(r, Len(a)) = Reading(With(v, a), b, x)
    BY <2>2, <2>3, TakeReads DEF With
  <2> HIDE DEF r
  <2>5. Len(a) = n /\ T!Take(r, n) = Reading(With(v, a), b, x)
    BY <2>2, <2>4
  <2> QED BY <2>5 DEF r
<1>2. CASE ~(n <= Len(s))
  <2>1. r.status = "ok" /\ r.rest = s
    BY Parts
  <2>2. Len(s) \in Nat
    BY DEF Written
  <2>3. ~(Len(r.rest) >= n)
    BY <1>2, <2>1, <2>2
  <2>4. <<>> \in Written
    BY DEF Written
  <2>5. Halted(Stop(r, "wait")) /\ Halted([r EXCEPT !.status = "failed", !.rest = <<>>])
    <3>1. "wait" # "ok" /\ "failed" # "ok"
      OBVIOUS
    <3> QED BY <2>4, <3>1, Halts
  <2> HIDE DEF r
  <2>6. CASE r.then = "more"
    <3>1. T!Take(r, n) = Stop(r, "wait")
      BY <2>1, <2>3, <2>6, Zenon DEF Stop, T!Take, T!Then, T!Once
    <3> QED BY <2>5, <3>1 DEF r
  <2>7. CASE r.then # "more"
    <3>1. T!Take(r, n) = [r EXCEPT !.status = "failed", !.rest = <<>>]
      BY <2>1, <2>3, <2>7 DEF T!Take, T!Then, T!Once
    <3> QED BY <2>5, <3>1 DEF r
  <2> QED BY <2>6, <2>7
<1> QED BY <1>1, <1>2

\* What has halted stays as it is.
LEMMA HaltedTakes ==
  ASSUME NEW r, r.status # "ok", NEW n
  PROVE  /\ T!Take(r, n) = r /\ T!ReadUint8(r) = r /\ T!ReadUint16(r) = r
         /\ T!ReadString(r, n) = r
<1>1. \A m : T!Take(r, m) = r
  BY DEF T!Take, T!Then, T!Once
<1>2. T!ReadUint8(r) = r
  BY <1>1 DEF T!ReadUint8, T!Then, T!Once
<1>3. T!ReadUint16(r) = r
  BY <1>1 DEF T!ReadUint16, T!Then, T!Once
<1>4. T!ReadString(r, n) = r
  BY <1>3 DEF T!ReadString, T!Then, T!Once
<1> QED BY <1>1, <1>2, <1>3, <1>4

Fields(n) == {T!PidOf(n), T!Uint8, T!Uint16, T!String(n), T!Array(n), T!ShortText, T!Arrays(n)}
Proper(field) == \E n \in Nat : field \in Fields(n)

LEMMA Kinds ==
  ASSUME NEW n \in Nat, NEW field \in Fields(n)
  PROVE  /\ field.is \in {"expected", "uint8", "uint16", "string", "array", "short", "arrays"}
         /\ field.arg \in Nat
<1>1. T!Uint8.is = "uint8" /\ T!Uint16.is = "uint16" /\ T!ShortText.is = "short"
  BY DEF T!Uint8, T!Uint16, T!ShortText, T!Field
<1>2. T!Uint8.arg = 0 /\ T!Uint16.arg = 0 /\ T!ShortText.arg = 0
  BY DEF T!Uint8, T!Uint16, T!ShortText, T!Field
<1>3. /\ T!PidOf(n).is = "expected" /\ T!String(n).is = "string"
      /\ T!Array(n).is = "array" /\ T!Arrays(n).is = "arrays"
  BY DEF T!PidOf, T!String, T!Array, T!Arrays, T!Field
<1>4. T!PidOf(n).arg = n /\ T!String(n).arg = n /\ T!Array(n).arg = n /\ T!Arrays(n).arg = n
  BY DEF T!PidOf, T!String, T!Array, T!Arrays, T!Field
<1> QED BY <1>1, <1>2, <1>3, <1>4 DEF Fields

LEMMA HaltedStays ==
  ASSUME NEW r, r.status # "ok", NEW n \in Nat, NEW field \in Fields(n)
  PROVE  T!ReadField(r, field) = r
<1>1. \A m : /\ T!Take(r, m) = r /\ T!ReadUint8(r) = r /\ T!ReadUint16(r) = r
             /\ T!ReadString(r, m) = r
  BY HaltedTakes
<1>2. field.is \in {"expected", "uint8", "uint16", "string", "array", "short", "arrays"}
  BY Kinds
<1> QED BY <1>1, <1>2 DEF T!ReadField, T!Then, T!Once

\* A number of one byte, of two.
LEMMA Uint8Written ==
  ASSUME NEW v \in Seq(Readable), NEW s \in Written, NEW x
  PROVE  LET t == T!ReadUint8(Reading(v, s, x)) IN Halted(t) \/ Gained(t, v, x, Nat)
<1> DEFINE r == Reading(v, s, x)
           taken == T!Take(r, 1)
           t == T!ReadUint8(r)
<1>1. t = T!Then(taken, LAMBDA u : T!Replace(u, T!Latest(u)[1]))
  BY DEF T!ReadUint8
<1>2. \/ Halted(taken)
      \/ \E a \in Written : \E b \in Written : Len(a) = 1 /\ taken = Reading(With(v, a), b, x)
  <2>1. 1 \in Nat
    OBVIOUS
  <2> QED BY <2>1, TakeWritten, Zenon
<1> HIDE DEF r, taken, t
<1>3. CASE Halted(taken)
  <2>1. t = taken
    BY <1>1, <1>3 DEF Halted, T!Then, T!Once
  <2> QED BY <1>3, <2>1 DEF t, r
<1>4. CASE ~Halted(taken)
  <2>1. PICK a \in Written : \E b \in Written : Len(a) = 1 /\ taken = Reading(With(v, a), b, x)
    BY <1>2, <1>4
  <2>2. PICK b \in Written : Len(a) = 1 /\ taken = Reading(With(v, a), b, x)
    BY <2>1
  <2>3. a[1] \in Nat
    <3>1. 1 \in 1..Len(a)
      BY <2>2
    <3> QED BY <3>1, WrittenByte
  <2>4. v \in Seq(Values) /\ a \in Values /\ a[1] \in Values
    BY <2>3, ReadableSeq, ReadableValues DEF Readable
  <2>5. taken.status = "ok" /\ T!Latest(taken) = a
    BY <2>2, <2>4, Parts, LatestReads DEF With
  <2>6. T!Replace(taken, a[1]) = Reading(With(v, a[1]), b, x)
    BY <2>2, <2>4, ReplaceReads DEF With
  <2>7. t = T!Replace(taken, a[1])
    BY <1>1, <2>5 DEF T!Then, T!Once
  <2>8. Gained(t, v, x, Nat)
    BY <2>3, <2>6, <2>7 DEF Gained
  <2> QED BY <2>8 DEF t, r
<1> QED BY <1>3, <1>4

LEMMA Uint16Written ==
  ASSUME NEW v \in Seq(Readable), NEW s \in Written, NEW x
  PROVE  LET t == T!ReadUint16(Reading(v, s, x)) IN Halted(t) \/ Gained(t, v, x, Nat)
<1> DEFINE r == Reading(v, s, x)
           taken == T!Take(r, 2)
           t == T!ReadUint16(r)
           number(a) == 256 * a[1] + a[2]
<1>1. t = T!Then(taken, LAMBDA u : T!Replace(u, number(T!Latest(u))))
  BY DEF T!ReadUint16
<1>2. \/ Halted(taken)
      \/ \E a \in Written : \E b \in Written : Len(a) = 2 /\ taken = Reading(With(v, a), b, x)
  <2>1. 2 \in Nat
    OBVIOUS
  <2> QED BY <2>1, TakeWritten, Zenon
<1> HIDE DEF r, taken, t
<1>3. CASE Halted(taken)
  <2>1. t = taken
    BY <1>1, <1>3 DEF Halted, T!Then, T!Once
  <2> QED BY <1>3, <2>1 DEF t, r
<1>4. CASE ~Halted(taken)
  <2>1. PICK a \in Written : \E b \in Written : Len(a) = 2 /\ taken = Reading(With(v, a), b, x)
    BY <1>2, <1>4
  <2>2. PICK b \in Written : Len(a) = 2 /\ taken = Reading(With(v, a), b, x)
    BY <2>1
  <2>3. a[1] \in Nat /\ a[2] \in Nat
    <3>1. 1 \in 1..Len(a) /\ 2 \in 1..Len(a)
      BY <2>2
    <3> QED BY <3>1, WrittenByte
  <2>4. number(a) \in Nat
    BY <2>3
  <2> HIDE DEF number
  <2>5. v \in Seq(Values) /\ a \in Values /\ number(a) \in Values
    BY <2>4, ReadableSeq, ReadableValues DEF Readable
  <2>6. taken.status = "ok" /\ T!Latest(taken) = a
    BY <2>2, <2>5, Parts, LatestReads DEF With
  <2>7. T!Replace(taken, number(a)) = Reading(With(v, number(a)), b, x)
    BY <2>2, <2>5, ReplaceReads DEF With
  <2>8. t = T!Replace(taken, number(a))
    BY <1>1, <2>6 DEF T!Then, T!Once
  <2>9. Gained(t, v, x, Nat)
    BY <2>4, <2>7, <2>8 DEF Gained
  <2> QED BY <2>9 DEF t, r
<1> QED BY <1>3, <1>4

\* As many bytes as a number says that has just been read.
LEMMA CountedWritten ==
  ASSUME NEW v \in Seq(Readable), NEW n \in Nat, NEW b \in Written, NEW x, NEW m \in Nat
  PROVE  LET t == Reading(With(v, n), b, x)
             u == T!Take(T!Drop(t), m)
         IN  /\ t.status = "ok" /\ T!Latest(t) = n
             /\ Halted(u) \/ Gained(u, v, x, Written)
<1> DEFINE t == Reading(With(v, n), b, x)
<1>1. v \in Seq(Values) /\ n \in Values
  BY ReadableSeq, ReadableValues DEF Readable
<1>2. t.status = "ok" /\ T!Latest(t) = n /\ T!Drop(t) = Reading(v, b, x)
  BY <1>1, Parts, LatestReads, DropReads DEF With
<1>3. \/ Halted(T!Take(Reading(v, b, x), m))
      \/ \E a \in Written : \E c \in Written :
           Len(a) = m /\ T!Take(Reading(v, b, x), m) = Reading(With(v, a), c, x)
  BY TakeWritten
<1> HIDE DEF t
<1>4. LET u == T!Take(T!Drop(t), m) IN Halted(u) \/ Gained(u, v, x, Written)
  BY <1>2, <1>3 DEF Gained
<1> QED BY <1>2, <1>4 DEF t

LEMMA ExpectedWritten ==
  ASSUME NEW v \in Seq(Readable), NEW s \in Written, NEW x, NEW pid
  PROVE  LET t == T!ReadField(Reading(v, s, x), T!PidOf(pid)) IN Halted(t) \/ Kept(t, v, x)
<1> DEFINE r == Reading(v, s, x)
           field == T!PidOf(pid)
           number == T!ReadUint16(r)
           t == T!ReadField(r, field)
<1>1. field.is = "expected" /\ field.arg = pid
  BY DEF T!PidOf, T!Field
<1>2. Halted(number) \/ Gained(number, v, x, Nat)
  BY Uint16Written
<1> HIDE DEF r, field
<1>3. t = T!Then(number, LAMBDA u :
            IF T!Latest(u) = pid THEN T!Drop(u) ELSE [u EXCEPT !.status = "unexpected"])
  BY <1>1 DEF T!ReadField
<1> HIDE DEF number, t
<1>4. CASE Halted(number)
  <2>1. t = number
    BY <1>3, <1>4 DEF Halted, T!Then, T!Once
  <2> QED BY <1>4, <2>1 DEF t, r, field
<1>5. CASE Gained(number, v, x, Nat)
  <2>1. PICK n \in Nat : \E b \in Written : number = Reading(With(v, n), b, x)
    BY <1>5 DEF Gained
  <2>2. PICK b \in Written : number = Reading(With(v, n), b, x)
    BY <2>1
  <2>3. v \in Seq(Values) /\ n \in Values
    BY ReadableSeq, ReadableValues DEF Readable
  <2>4. number.status = "ok" /\ T!Drop(number) = Reading(v, b, x)
    BY <2>2, <2>3, Parts, DropReads DEF With
  <2>5. Halted(Stop(number, "unexpected"))
    BY <2>2, Halts
  <2>6. t \in {T!Drop(number), Stop(number, "unexpected")}
    BY <1>3, <2>4 DEF T!Then, T!Once, Stop
  <2>7. Halted(t) \/ Kept(t, v, x)
    BY <2>4, <2>5, <2>6 DEF Kept
  <2> QED BY <2>7 DEF t, r, field
<1> QED BY <1>2, <1>4, <1>5

LEMMA StringWritten ==
  ASSUME NEW v \in Seq(Readable), NEW s \in Written, NEW x, NEW max
  PROVE  LET t == T!ReadField(Reading(v, s, x), T!String(max))
         IN  Halted(t) \/ Gained(t, v, x, Written)
<1> DEFINE r == Reading(v, s, x)
           field == T!String(max)
           number == T!ReadUint16(r)
           t == T!ReadField(r, field)
<1>1. field.is = "string" /\ field.arg = max
  BY DEF T!String, T!Field
<1>2. Halted(number) \/ Gained(number, v, x, Nat)
  BY Uint16Written
<1> HIDE DEF r, field
<1>3. t = T!Then(number, LAMBDA u :
            IF T!Latest(u) > max THEN [u EXCEPT !.status = "failed"]
            ELSE T!Take(T!Drop(u), T!Latest(u)))
  BY <1>1 DEF T!ReadField, T!ReadString
<1> HIDE DEF number, t
<1>4. CASE Halted(number)
  <2>1. t = number
    BY <1>3, <1>4 DEF Halted, T!Then, T!Once
  <2> QED BY <1>4, <2>1 DEF t, r, field
<1>5. CASE Gained(number, v, x, Nat)
  <2>1. PICK n \in Nat : \E b \in Written : number = Reading(With(v, n), b, x)
    BY <1>5 DEF Gained
  <2>2. PICK b \in Written : number = Reading(With(v, n), b, x)
    BY <2>1
  <2> DEFINE text == T!Take(T!Drop(number), n)
  <2>3. number.status = "ok" /\ T!Latest(number) = n
        /\ (Halted(text) \/ Gained(text, v, x, Written))
    BY <2>2, CountedWritten
  <2>4. Halted(Stop(number, "failed"))
    BY <2>2, Halts
  <2>5. t \in {text, Stop(number, "failed")}
    BY <1>3, <2>3 DEF T!Then, T!Once, Stop
  <2>6. Halted(t) \/ Gained(t, v, x, Written)
    BY <2>3, <2>4, <2>5
  <2> QED BY <2>6 DEF t, r, field
<1> QED BY <1>2, <1>4, <1>5

\* One byte says how many follow: that many, or that many arrays.
LEMMA ShortWritten ==
  ASSUME NEW v \in Seq(Readable), NEW s \in Written, NEW x,
         NEW field, field.is \in {"short", "arrays"}, field.arg \in Nat
  PROVE  LET t == T!ReadField(Reading(v, s, x), field)
         IN  Halted(t) \/ Gained(t, v, x, Written)
<1> DEFINE r == Reading(v, s, x)
           number == T!ReadUint8(r)
           size(n) == IF field.is = "short" THEN n ELSE field.arg * n
           t == T!ReadField(r, field)
<1>1. Halted(number) \/ Gained(number, v, x, Nat)
  BY Uint8Written
<1> HIDE DEF r
<1>2. t = T!Then(number, LAMBDA u : T!Take(T!Drop(u), size(T!Latest(u))))
  <2>1. CASE field.is = "short"
    BY <2>1 DEF T!ReadField, T!Then, T!Once
  <2>2. CASE field.is = "arrays"
    BY <2>2 DEF T!ReadField, T!Then, T!Once
  <2> QED BY <2>1, <2>2
<1> HIDE DEF number, t
<1>3. CASE Halted(number)
  <2>1. t = number
    BY <1>2, <1>3 DEF Halted, T!Then, T!Once
  <2> QED BY <1>3, <2>1 DEF r, t
<1>4. CASE Gained(number, v, x, Nat)
  <2>1. PICK n \in Nat : \E b \in Written : number = Reading(With(v, n), b, x)
    BY <1>4 DEF Gained
  <2>2. PICK b \in Written : number = Reading(With(v, n), b, x)
    BY <2>1
  <2> DEFINE text == T!Take(T!Drop(number), size(n))
  <2>3. size(n) \in Nat
    OBVIOUS
  <2> HIDE DEF size
  <2>4. number.status = "ok" /\ T!Latest(number) = n
        /\ (Halted(text) \/ Gained(text, v, x, Written))
    BY <2>2, <2>3, CountedWritten
  <2>5. t = text
    BY <1>2, <2>4 DEF T!Then, T!Once
  <2> HIDE DEF text
  <2>6. Halted(t) \/ Gained(t, v, x, Written)
    BY <2>4, <2>5
  <2> QED BY <2>6 DEF r, t
<1> QED BY <1>1, <1>3, <1>4

\* Whatever the field.
LEMMA FieldWritten ==
  ASSUME NEW v \in Seq(Readable), NEW s \in Written, NEW x,
         NEW n \in Nat, NEW field \in Fields(n)
  PROVE  LET t == T!ReadField(Reading(v, s, x), field)
         IN  Halted(t) \/ Kept(t, v, x) \/ Gained(t, v, x, Readable)
<1> DEFINE r == Reading(v, s, x)
           t == T!ReadField(r, field)
<1>0. field.arg \in Nat
  BY Kinds
<1>1. ASSUME Gained(t, v, x, Nat) \/ Gained(t, v, x, Written)
      PROVE  Gained(t, v, x, Readable)
  BY <1>1 DEF Gained, Readable
<1>2. CASE field = T!PidOf(n)
  BY <1>2, ExpectedWritten
<1>3. CASE field = T!String(n)
  BY <1>1, <1>3, StringWritten
<1>4. CASE field.is = "uint8"
  <2>1. t = T!ReadUint8(r)
    BY <1>4 DEF T!ReadField
  <2>2. Halted(t) \/ Gained(t, v, x, Nat)
    BY <2>1, Uint8Written
  <2> QED BY <1>1, <2>2
<1>5. CASE field.is = "uint16"
  <2>1. t = T!ReadUint16(r)
    BY <1>5 DEF T!ReadField
  <2>2. Halted(t) \/ Gained(t, v, x, Nat)
    BY <2>1, Uint16Written
  <2> QED BY <1>1, <2>2
<1>6. CASE field.is = "array"
  <2>1. t = T!Take(r, field.arg)
    BY <1>6 DEF T!ReadField
  <2>2. Halted(t) \/ Gained(t, v, x, Written)
    BY <1>0, <2>1, TakeWritten DEF Gained
  <2> QED BY <1>1, <2>2
<1>7. CASE field.is \in {"short", "arrays"}
  <2>1. Halted(t) \/ Gained(t, v, x, Written)
    BY <1>0, <1>7, ShortWritten
  <2> QED BY <1>1, <2>1
<1>8. /\ T!Uint8.is = "uint8" /\ T!Uint16.is = "uint16" /\ T!ShortText.is = "short"
      /\ T!Array(n).is = "array" /\ T!Arrays(n).is = "arrays"
  BY DEF T!Uint8, T!Uint16, T!ShortText, T!Array, T!Arrays, T!Field
<1> QED BY <1>2, <1>3, <1>4, <1>5, <1>6, <1>7, <1>8 DEF Fields

\* Where a reading stands, field by field.
Midway(r) == Halted(r) \/ \E v \in Seq(Readable) : \E s \in Written : \E x : r = Reading(v, s, x)

LEMMA MidwayField ==
  ASSUME NEW r, Midway(r), NEW field, Proper(field)
  PROVE  Midway(T!ReadField(r, field))
<1>1. PICK n \in Nat : field \in Fields(n)
  BY DEF Proper
<1>2. CASE Halted(r)
  <2>1. T!ReadField(r, field) = r
    BY <1>1, <1>2, HaltedStays DEF Halted
  <2> QED BY <1>2, <2>1 DEF Midway
<1>3. CASE ~Halted(r)
  <2>1. PICK v \in Seq(Readable) : \E s \in Written : \E x : r = Reading(v, s, x)
    BY <1>3 DEF Midway
  <2>2. PICK s \in Written : \E x : r = Reading(v, s, x)
    BY <2>1
  <2>3. PICK x : r = Reading(v, s, x)
    BY <2>2
  <2> DEFINE t == T!ReadField(r, field)
  <2>4. Halted(t) \/ Kept(t, v, x) \/ Gained(t, v, x, Readable)
    BY <1>1, <2>3, FieldWritten
  <2> HIDE DEF t
  <2>5. \A value \in Readable : With(v, value) \in Seq(Readable)
    BY WithReadable
  <2>6. Midway(t)
    BY <2>4, <2>5 DEF Midway, Kept, Gained
  <2> QED BY <2>6 DEF t
<1> QED BY <1>2, <1>3

LEMMA ReadWritten ==
  ASSUME NEW stream \in Written, NEW more, NEW fields, Len(fields) \in Nat,
         \A i \in 1..Len(fields) : Proper(fields[i])
  PROVE  T!Read(stream, more, fields).rest \in Written
<1> DEFINE size == Len(fields)
           read == T!ReadUpTo(stream, more, fields)
           Good == {n \in Nat : n <= size => Midway(read[n])}
<1>1. /\ read[0] = T!Start(stream, more)
      /\ \A n \in 1..size : read[n] = T!ReadField(read[n - 1], fields[n])
  BY FieldsOneByOne
<1>2. \A i \in 1..size : Proper(fields[i])
  OBVIOUS
<1>3. size \in Nat /\ T!Read(stream, more, fields) = read[size]
  BY DEF T!Read
<1> HIDE DEF read, size
<1>4. 0 \in Good
  <2>1. read[0] = Reading(NoValues, stream, Begun(more))
    BY <1>1, Starts
  <2>2. NoValues \in Seq(Readable)
    BY DEF NoValues
  <2> QED BY <2>1, <2>2 DEF Midway
<1>5. ASSUME NEW n \in Nat, n \in Good
      PROVE  n + 1 \in Good
  <2>1. CASE n + 1 <= size
    <3>1. n <= size /\ n + 1 \in 1..size /\ (n + 1) - 1 = n
      BY <1>3, <2>1
    <3>2. Midway(read[n]) /\ read[n + 1] = T!ReadField(read[n], fields[n + 1])
      BY <1>1, <1>5, <3>1
    <3>3. Midway(read[n + 1])
      BY <1>2, <3>1, <3>2, MidwayField
    <3> QED BY <3>3
  <2> QED BY <2>1
<1> HIDE DEF Good
<1>6. size \in Good
  BY <1>3, <1>4, <1>5, InductionOnSet
<1>7. Midway(read[size])
  BY <1>3, <1>6 DEF Good
<1>8. ASSUME NEW r, Midway(r)
      PROVE  r.rest \in Written
  BY <1>8, Parts DEF Midway, Halted
<1> QED BY <1>3, <1>7, <1>8

\* What either side expects to read.
LEMMA FieldsProper ==
  ASSUME NEW fields \in {T!PidFields, T!ClientGreetingFields, T!MoveFields, T!VerifyFields, <<>>,
                         T!GreetingFields, T!SucceededFields, T!InfoFields, T!StateFields}
  PROVE  Len(fields) \in Nat /\ \A i \in 1..Len(fields) : Proper(fields[i])
<1>1. \A n \in Nat : /\ Proper(T!PidOf(n)) /\ Proper(T!String(n)) /\ Proper(T!Array(n))
                     /\ Proper(T!Arrays(n))
  BY DEF Proper, Fields
<1>2. Proper(T!Uint8) /\ Proper(T!Uint16) /\ Proper(T!ShortText)
  <2>1. 0 \in Nat
    OBVIOUS
  <2> QED BY <2>1 DEF Proper, Fields
<1>3. /\ T!PidGreeting \in Nat /\ T!PidConnectionSucceeded \in Nat
      /\ T!PidGameSessionInfo \in Nat /\ T!PidGameState \in Nat
  BY DEF T!PidGreeting, T!PidConnectionSucceeded, T!PidGameSessionInfo, T!PidGameState
<1>4. 63 \in Nat /\ 127 \in Nat /\ 255 \in Nat /\ 511 \in Nat /\ 4 \in Nat
  OBVIOUS
<1> DEFINE proper(s) == Len(s) \in Nat /\ \A i \in 1..Len(s) : Proper(s[i])
<1>5. proper(<<>>)
  OBVIOUS
<1>6. ASSUME NEW a, Proper(a)
      PROVE  proper(<<a>>)
  BY <1>6
<1>7. ASSUME NEW a, NEW b, Proper(a), Proper(b)
      PROVE  proper(<<a, b>>)
  BY <1>7
<1>8. ASSUME NEW a, NEW b, NEW c, NEW d, Proper(a), Proper(b), Proper(c), Proper(d)
      PROVE  proper(<<a, b, c, d>>)
  BY <1>8
<1>9. ASSUME NEW a, NEW b, NEW c, NEW d, NEW e,
             Proper(a), Proper(b), Proper(c), Proper(d), Proper(e)
      PROVE  proper(<<a, b, c, d, e>>)
  BY <1>9
<1> HIDE DEF proper
<1>10. proper(T!PidFields) /\ proper(T!VerifyFields)
  BY <1>1, <1>2, <1>4, <1>6 DEF T!PidFields, T!VerifyFields
<1>11. proper(T!MoveFields) /\ proper(T!SucceededFields) /\ proper(T!StateFields)
  BY <1>1, <1>3, <1>4, <1>7 DEF T!MoveFields, T!SucceededFields, T!StateFields
<1>12. proper(T!GreetingFields) /\ proper(T!ClientGreetingFields)
  BY <1>1, <1>2, <1>3, <1>4, <1>8 DEF T!GreetingFields, T!ClientGreetingFields
<1>13. proper(T!InfoFields)
  BY <1>1, <1>2, <1>3, <1>9 DEF T!InfoFields
<1>14. proper(fields)
  BY <1>5, <1>10, <1>11, <1>12, <1>13
<1> QED BY <1>14 DEF proper

\* What the final message says.
LEMMA FinalWritten ==
  ASSUME NEW stream \in Written, NEW more,
         T!Read(stream, more, T!SucceededFields).status = "ok"
  PROVE  T!Read(stream, more, T!SucceededFields).values[1] \in Written
<1> DEFINE x == Begun(more)
           field1 == T!PidOf(T!PidConnectionSucceeded)
           field2 == T!String(255)
           first == T!ReadField(Reading(NoValues, stream, x), field1)
           last  == T!ReadField(first, field2)
<1>1. T!Read(stream, more, T!SucceededFields) = last
  BY ReadTwo, Starts DEF T!SucceededFields
<1>2. NoValues \in Seq(Readable)
  BY DEF NoValues
<1>3. Halted(first) \/ Kept(first, NoValues, x)
  BY <1>2, ExpectedWritten
<1>4. last.status = "ok"
  BY <1>1
<1>5. first.status # "ok" => last = first
  <2>1. 255 \in Nat /\ field2 \in Fields(255)
    BY DEF Fields
  <2> HIDE DEF first, field2
  <2> QED BY <2>1, HaltedStays
<1> HIDE DEF first
<1>6. Kept(first, NoValues, x)
  BY <1>3, <1>4, <1>5 DEF Halted
<1>7. PICK b \in Written : first = Reading(NoValues, b, x)
  BY <1>6 DEF Kept
<1>8. Halted(last) \/ Gained(last, NoValues, x, Written)
  BY <1>2, <1>7, StringWritten
<1> HIDE DEF last
<1>9. Gained(last, NoValues, x, Written)
  BY <1>4, <1>8 DEF Halted
<1>10. PICK text \in Written : \E c \in Written : last = Reading(With(NoValues, text), c, x)
  BY <1>9 DEF Gained
<1>11. last.values = With(NoValues, text)
  BY <1>10, Parts
<1>12. With(NoValues, text)[1] = text
  BY DEF With, NoValues
<1> QED BY <1>1, <1>10, <1>11, <1>12

-----------------------------------------------------------------------------
\* What is written is bytes: integers are cut to size.
LEMMA IntegersWritten ==
  ASSUME NEW n \in Int
  PROVE  /\ T!WriteUint8(n) \in Written /\ Len(T!WriteUint8(n)) = 1
         /\ T!WriteUint16(n) \in Written
<1>1. \A m \in Int : m % 256 \in T!Bytes
  BY DEF T!Bytes
<1>2. n \div 256 \in Int
  OBVIOUS
<1>3. \A a, b \in T!Bytes : <<a>> \in Seq(T!Bytes) /\ Len(<<a>>) = 1 /\ <<a, b>> \in Seq(T!Bytes)
  OBVIOUS
<1> QED BY <1>1, <1>2, <1>3 DEF Written, T!WriteUint8, T!WriteUint16

LEMMA StringsWritten ==
  ASSUME NEW text \in Written
  PROVE  T!WriteString(text) \in Written
<1>1. Len(text) \in Int
  BY DEF Written
<1> QED BY <1>1, IntegersWritten, WrittenBefore DEF T!WriteString

LEMMA PidsWritten ==
  ASSUME NEW pid \in {T!PidGreeting, T!PidConnectionSucceeded, T!PidConnectionFailed,
                      T!PidInquireGameSessions, T!PidGameSessionInfo, T!PidMove, T!PidResign,
                      T!PidVerifyGameState, T!PidRequestGameState, T!PidGameState}
  PROVE  T!WriteUint16(pid) \in Written
<1>1. pid \in Int
  BY DEF T!PidGreeting, T!PidConnectionSucceeded, T!PidConnectionFailed,
         T!PidInquireGameSessions, T!PidGameSessionInfo, T!PidMove, T!PidResign,
         T!PidVerifyGameState, T!PidRequestGameState, T!PidGameState
<1> QED BY <1>1, IntegersWritten

\* What the server answers.
LEMMA AnswersWritten ==
  ASSUME NEW text \in Written
  PROVE  /\ T!ConnectionSucceeded(text) \in Written /\ T!ConnectionFailed(text) \in Written
         /\ T!GameState(text) \in Written
<1>1. T!WriteString(text) \in Written
  BY StringsWritten
<1>2. /\ T!WriteUint16(T!PidConnectionSucceeded) \in Written
      /\ T!WriteUint16(T!PidConnectionFailed) \in Written
      /\ T!WriteUint16(T!PidGameState) \in Written
  BY PidsWritten
<1> QED BY <1>1, <1>2, WrittenBefore DEF T!ConnectionSucceeded, T!ConnectionFailed, T!GameState

LEMMA GreetingWritten ==
  ASSUME NEW name \in Written, NEW id \in Written
  PROVE  T!Greeting(1, name, id) \in Written
<1>1. T!WriteString(name) \in Written /\ T!WriteString(id) \in Written
  BY StringsWritten
<1>2. T!WriteUint16(T!PidGreeting) \in Written /\ T!WriteUint16(1) \in Written
  <2>1. 1 \in Int
    OBVIOUS
  <2> QED BY <2>1, PidsWritten, IntegersWritten
<1>3. T!WriteUint16(T!PidGreeting) \o T!WriteUint16(1) \in Written
  BY <1>2, WrittenBefore
<1>4. T!WriteUint16(T!PidGreeting) \o T!WriteUint16(1) \o T!WriteString(name) \in Written
  BY <1>1, <1>3, WrittenBefore
<1> QED BY <1>1, <1>4, WrittenBefore DEF T!Greeting

\* Texts of fixed sizes, and the ids of clients.
LEMMA SaidWritten ==
  /\ \A n \in Int : Greeted(n) \in Written
  /\ Hello \in Written
<1>1. T!Text(11) \in Written /\ T!Text(30) \in Written /\ T!Text(10) \in Written
  <2>1. 11 \in Nat /\ 30 \in Nat /\ 10 \in Nat
    OBVIOUS
  <2> QED BY <2>1, TextWritten
<1>2. Welcomed \in Written
  BY <1>1, AnswersWritten DEF Welcomed
<1>3. ASSUME NEW n \in Int
      PROVE  Greeted(n) \in Written
  <2>1. ClientId(n) \in Written
    BY ClientIds
  <2>2. T!Greeting(1, T!Text(11), ClientId(n)) \in Written
    BY <1>1, <2>1, GreetingWritten
  <2> QED BY <1>2, <2>2, WrittenBefore DEF Greeted
<1>4. <<>> \in Written
  BY DEF Written
<1> QED BY <1>1, <1>3, <1>4, GreetingWritten DEF Hello

\* The list: each session, and so all of them.
LEMMA ToldWritten ==
  ASSUME SessionsSound
  PROVE  Told \subseteq Written
<1>1. ASSUME NEW s \in DOMAIN sessions, NEW players \in 0..2
      PROVE  ToldOf(s, players) \in Written
  <2> DEFINE name  == NameOf(s)
             state == StateFor(players)
             pid   == T!WriteUint16(T!PidGameSessionInfo)
             id    == T!WriteUint16(s)
             seats == T!WriteUint8(players)
             size  == T!WriteUint8(Len(name))
             last  == T!WriteUint8(state)
  <2>1. s \in Int
    <3>1. s \in 0..(IdMod - 1)
      BY DEF SessionsSound
    <3> QED BY <3>1, IdsAreWords
  <2>2. name \in Written /\ Len(name) \in Int
    <3>1. name \in Written
      BY <2>1, Names
    <3> QED BY <3>1 DEF Written
  <2>3. state \in Int
    BY DEF StateFor, S!SM!Active, S!SM!Waiting
  <2>4. players \in Int
    OBVIOUS
  <2>5. /\ pid \in Written /\ id \in Written /\ seats \in Written
        /\ size \in Written /\ last \in Written
    BY <2>1, <2>2, <2>3, <2>4, PidsWritten, IntegersWritten
  <2>6. ToldOf(s, players) = pid \o id \o seats \o size \o name \o last
    BY DEF ToldOf, T!GameSessionInfo
  <2> HIDE DEF name, state, pid, id, seats, size, last
  <2>7. pid \o id \in Written
    BY <2>5, WrittenBefore
  <2>8. pid \o id \o seats \in Written
    BY <2>5, <2>7, WrittenBefore
  <2>9. pid \o id \o seats \o size \in Written
    BY <2>5, <2>8, WrittenBefore
  <2>10. pid \o id \o seats \o size \o name \in Written
    BY <2>2, <2>9, WrittenBefore
  <2> QED BY <2>5, <2>6, <2>10, WrittenBefore
<1> QED BY <1>1 DEF Told

LEMMA ChainWritten ==
  ASSUME NEW parts, parts \subseteq Written, NEW stream, Chain(parts, stream)
  PROVE  stream \in Written
<1>1. PICK n \in Nat : \E rest : CutAt(parts, stream, n, rest)
  BY DEF Chain
<1>2. PICK rest : CutAt(parts, stream, n, rest)
  BY <1>1
<1> DEFINE Back == {k \in Nat : k <= n => rest[n - k] \in Written}
<1>3. 0 \in Back
  <2>1. rest[n] = <<>> /\ n - 0 = n
    BY <1>2 DEF CutAt
  <2>2. <<>> \in Written
    BY DEF Written
  <2> QED BY <2>1, <2>2
<1>4. ASSUME NEW k \in Nat, k \in Back
      PROVE  k + 1 \in Back
  <2>1. CASE k + 1 <= n
    <3> DEFINE i == n - (k + 1)
    <3>1. i \in 0..(n - 1) /\ i + 1 = n - k /\ k <= n
      BY <2>1
    <3>2. rest[i + 1] \in Written
      BY <1>4, <3>1
    <3> HIDE DEF i
    <3>3. PICK part \in parts : rest[i] = Before(part, rest[i + 1])
      BY <1>2, <3>1 DEF CutAt
    <3>4. rest[i] \in Written
      BY <3>2, <3>3, WrittenBefore
    <3> QED BY <3>4 DEF i
  <2> QED BY <2>1
<1> HIDE DEF Back
<1>5. n \in Back
  BY <1>3, <1>4, InductionOnSet
<1>6. rest[n - n] = stream
  BY <1>2 DEF CutAt
<1> QED BY <1>5, <1>6 DEF Back

\* Where the client is, and that what it knows and what is on the wire is bytes.
Typed(where, session, id, said, out, in) ==
  /\ where \in T!Labels
  /\ Word(session)
  /\ id \in Written /\ said \in Written /\ out \in Written /\ in \in Written

ClientType == Typed(at, sessionId, serverId, final, toServer, toClient)

LEMMA NextType ==
  ASSUME Typed(at', sessionId', serverId', final', toServer', toClient')
  PROVE  ClientType'
  BY DEF ClientType, Typed, Written, T!Labels, T!Bytes, Word

LEMMA ClientTypeInit == Init => ClientType
<1> SUFFICES ASSUME Init PROVE ClientType
  OBVIOUS
<1>1. T!Init
  BY DEF Init
<1>2. <<>> \in Written
  BY DEF Written
<1>3. Word(sessionId)
  <2>1. sessionId = Argument
    BY <1>1 DEF T!Init
  <2> QED BY <2>1, ArgumentAssumption DEF Word
<1> QED BY <1>1, <1>2, <1>3 DEF T!Init, T!None, T!Labels, ClientType, Typed

\* A message more.
LEMMA WriteType ==
  ASSUME ClientType, NEW message \in Written, NEW next \in T!Labels, T!Write(message, next),
         UNCHANGED <<sessionId, serverId, info, final>>
  PROVE  ClientType'
<1>1. toServer' \in {toServer, toServer \o message} /\ UNCHANGED toClient
  BY DEF T!Write
<1>2. toServer \o message \in Written
  BY WrittenBefore DEF ClientType, Typed
<1>3. at' \in T!Labels
  BY DEF T!Write, T!Labels
<1> QED BY <1>1, <1>2, <1>3, NextType DEF ClientType, Typed

\* What the client writes is bytes.
LEMMA SentWritten ==
  /\ T!InquireSessions \in Written /\ T!RequestGameState \in Written /\ T!Resign \in Written
  /\ T!VerifyState(<<>>) \in Written
  /\ \A opening \in Openings : T!Move(opening[1], opening[2]) \in Written
<1>1. T!InquireSessions \in Written /\ T!RequestGameState \in Written /\ T!Resign \in Written
  BY PidsWritten DEF T!InquireSessions, T!RequestGameState, T!Resign
<1>2. T!VerifyState(<<>>) \in Written
  <2>1. T!WriteUint16(T!PidVerifyGameState) \in Written /\ T!WriteUint8(0) \in Written
    <3>1. 0 \in Int
      OBVIOUS
    <3> QED BY <3>1, PidsWritten, IntegersWritten
  <2>2. <<>> \in Written
    BY DEF Written
  <2>3. Before(T!WriteUint8(0), <<>>) \in Written
    BY <2>1, <2>2, WrittenBefore
  <2> QED BY <2>1, <2>3, WrittenBefore, Messages DEF Request
<1>3. ASSUME NEW opening \in Openings
      PROVE  T!Move(opening[1], opening[2]) \in Written
  <2>1. opening[1] \in Locators /\ opening[2] \in Locators
    BY OpeningsAssumption
  <2>2. Locators \subseteq Written
    <3>1. ASSUME NEW loc \in Locators
          PROVE  loc \in Written
      <4>1. 4 \in Nat /\ loc \in [1..4 -> T!Bytes]
        BY DEF Locators
      <4> QED BY <4>1, SeqDef DEF Written
    <3> QED BY <3>1
  <2> DEFINE from == opening[1]
             to   == opening[2]
             pid  == T!WriteUint16(T!PidMove)
  <2>3. from \in Written /\ to \in Written /\ pid \in Written
    BY <2>1, <2>2, PidsWritten
  <2>4. T!Move(from, to) = pid \o from \o to
    BY DEF T!Move
  <2> HIDE DEF from, to, pid
  <2>5. pid \o from \in Written
    BY <2>3, WrittenBefore
  <2>6. T!Move(from, to) \in Written
    BY <2>3, <2>4, <2>5, WrittenBefore
  <2> QED BY <2>6 DEF from, to
<1> QED BY <1>1, <1>2, <1>3

\* A message less: whatever is read, what is left is bytes.
LEMMA HeardType ==
  ASSUME ClientType,
         NEW fields \in {T!GreetingFields, T!SucceededFields, T!InfoFields, T!StateFields},
         T!Consume(T!Heard(fields))
  PROVE  toClient' \in Written /\ UNCHANGED toServer
<1>1. toClient' = T!Read(toClient, Connected, fields).rest /\ UNCHANGED toServer
  BY DEF T!Consume, T!Heard
<1>2. Len(fields) \in Nat /\ \A i \in 1..Len(fields) : Proper(fields[i])
  BY FieldsProper
<1>3. toClient \in Written
  BY DEF ClientType, Typed
<1> QED BY <1>1, <1>2, <1>3, ReadWritten

LEMMA GreetingType ==
  ASSUME FullInv, ClientType, T!ReceiveGreeting
  PROVE  ClientType'
<1> DEFINE heard == T!Read(toClient, Connected, T!GreetingFields)
<1>1. /\ at = "hear" /\ UNCHANGED <<sessionId, final>>
      /\ \/ heard.status = "ok" /\ serverId' = heard.values[3] /\ at' = "welcome"
         \/ UNCHANGED serverId /\ at' = "done"
  BY DEF T!ReceiveGreeting, T!Heard
<1>2. toClient' \in Written /\ UNCHANGED toServer
  BY HeardType DEF T!ReceiveGreeting
<1>3. heard.status = "ok" => heard.values[3] \in Written
  <2>1. CASE toClient = <<>>
    <3>1. Connected \in BOOLEAN
      BY DEF Connected
    <3>2. heard = Missing(Connected)
      BY <2>1, <3>1, NothingReads
    <3> HIDE DEF heard
    <3> QED BY <3>2, NewStatus DEF Missing
  <2>2. CASE toClient # <<>>
    <3>1. PICK n \in Int : toClient = Greeted(n)
      BY <1>1, <2>2 DEF FullInv, InfoInv, Listens
    <3>2. heard.values[3] = ClientId(n)
      BY <3>1, GreetedReads
    <3> QED BY <3>2, ClientIds
  <2> QED BY <2>1, <2>2
<1> HIDE DEF heard
<1>4. serverId' \in Written /\ at' \in T!Labels
  BY <1>1, <1>3 DEF T!Labels, ClientType, Typed
<1> QED BY <1>1, <1>2, <1>4, NextType DEF ClientType, Typed

LEMMA ListType ==
  ASSUME FullInv, ClientType, T!ReceiveSessionInfo
  PROVE  ClientType'
<1> DEFINE heard == T!Read(toClient, Connected, T!InfoFields)
           id    == heard.values[1]
<1>1. /\ at = "list" /\ UNCHANGED <<serverId, final>>
      /\ at' \in {"list", "move", "done"}
      /\ \/ UNCHANGED sessionId
         \/ heard.status = "ok" /\ sessionId' = id
  BY DEF T!ReceiveSessionInfo, T!Heard, T!Play
<1>2. toClient' \in Written /\ UNCHANGED toServer
  BY HeardType DEF T!ReceiveSessionInfo
<1>3. heard.status = "ok" => id \in DOMAIN sessions
  <2>1. Connected \in BOOLEAN
    BY DEF Connected
  <2>2. SessionsSound /\ Chain(Told, toClient)
    BY <1>1 DEF FullInv, InfoInv, Listens
  <2> QED BY <2>1, <2>2, ToldHeard DEF TrueOf
<1> HIDE DEF heard, id
<1>4. Word(sessionId')
  <2>1. CASE UNCHANGED sessionId
    BY <2>1 DEF ClientType, Typed
  <2>2. CASE heard.status = "ok" /\ sessionId' = id
    <3>1. id \in 0..(IdMod - 1)
      BY <1>3, <2>2 DEF FullInv, SessionsSound
    <3>2. Word(id)
      BY <3>1, IdsAreWords
    <3> QED BY <2>2, <3>2
  <2> QED BY <1>1, <2>1, <2>2
<1>5. at' \in T!Labels
  BY <1>1 DEF T!Labels
<1> QED BY <1>1, <1>2, <1>4, <1>5, NextType DEF ClientType, Typed

\* The other messages the client reads.
LEMMA ReadsType ==
  ASSUME ClientType, T!ReceiveWelcome \/ T!ReceiveGameState \/ T!ReceiveFinal
  PROVE  ClientType'
<1> DEFINE heard == T!Read(toClient, Connected, T!SucceededFields)
<1>1. UNCHANGED <<sessionId, serverId>> /\ at' \in {"inquire", "done", "verify"}
  BY DEF T!ReceiveWelcome, T!ReceiveGameState, T!ReceiveFinal
<1>2. toClient' \in Written /\ UNCHANGED toServer
  BY HeardType DEF T!ReceiveWelcome, T!ReceiveGameState, T!ReceiveFinal
<1>3. UNCHANGED final \/ (heard.status = "ok" /\ final' = heard.values[1])
  BY DEF T!ReceiveWelcome, T!ReceiveGameState, T!ReceiveFinal, T!Heard
<1>4. heard.status = "ok" => heard.values[1] \in Written
  <2>1. toClient \in Written
    BY DEF ClientType, Typed
  <2> QED BY <2>1, FinalWritten
<1> HIDE DEF heard
<1>5. final' \in Written /\ at' \in T!Labels
  BY <1>1, <1>3, <1>4 DEF ClientType, Typed, T!Labels
<1> QED BY <1>1, <1>2, <1>5, NextType DEF ClientType, Typed

LEMMA ScriptType ==
  ASSUME FullInv, ClientType, T!Script
  PROVE  ClientType'
<1>1. CASE T!SendGreeting
  <2>1. T!Write(Hello, "hear") /\ UNCHANGED <<sessionId, serverId, info, final>>
    BY <1>1 DEF T!SendGreeting, Hello
  <2>2. "hear" \in T!Labels
    BY DEF T!Labels
  <2> QED BY <2>1, <2>2, SaidWritten, WriteType
<1>2. CASE T!Inquire
  <2>1. T!Write(T!InquireSessions, "list") /\ UNCHANGED <<sessionId, serverId, info, final>>
    BY <1>2 DEF T!Inquire
  <2>2. "list" \in T!Labels
    BY DEF T!Labels
  <2> QED BY <2>1, <2>2, SentWritten, WriteType
<1>3. CASE T!SendMove
  <2>1. PICK opening \in Openings : T!Write(T!Move(opening[1], opening[2]), "ask")
    BY <1>3 DEF T!SendMove
  <2>2. "ask" \in T!Labels /\ UNCHANGED <<sessionId, serverId, info, final>>
    BY <1>3 DEF T!Labels, T!SendMove
  <2> QED BY <2>1, <2>2, SentWritten, WriteType
<1>4. CASE T!SendRequestGameState
  <2>1. T!Write(T!RequestGameState, "state") /\ UNCHANGED <<sessionId, serverId, info, final>>
    BY <1>4 DEF T!SendRequestGameState
  <2>2. "state" \in T!Labels
    BY DEF T!Labels
  <2> QED BY <2>1, <2>2, SentWritten, WriteType
<1>5. CASE T!SendVerifyState
  <2>1. T!Write(T!VerifyState(<<>>), "resign") /\ UNCHANGED <<sessionId, serverId, info, final>>
    BY <1>5 DEF T!SendVerifyState
  <2>2. "resign" \in T!Labels
    BY DEF T!Labels
  <2> QED BY <2>1, <2>2, SentWritten, WriteType
<1>6. CASE T!SendResign
  <2>1. T!Write(T!Resign, "final") /\ UNCHANGED <<sessionId, serverId, info, final>>
    BY <1>6 DEF T!SendResign
  <2>2. "final" \in T!Labels
    BY DEF T!Labels
  <2> QED BY <2>1, <2>2, SentWritten, WriteType
<1> QED BY <1>1, <1>2, <1>3, <1>4, <1>5, <1>6, GreetingType, ListType, ReadsType DEF T!Script

\* What the server reads and answers.
LEMMA ExchangeType ==
  ASSUME ClientType, NEW rest \in Written, NEW answer \in Written, Exchange(rest, answer)
  PROVE  ClientType'
<1>1. /\ UNCHANGED <<at, sessionId, serverId, final>> /\ toServer' = rest
      /\ toClient' \in {toClient, toClient \o answer}
  BY DEF Exchange, client
<1>2. toClient \o answer \in Written
  BY WrittenBefore DEF ClientType, Typed
<1> QED BY <1>1, <1>2, NextType DEF ClientType, Typed

LEMMA ArrivedType ==
  ASSUME ClientType,
         NEW fields \in {T!PidFields, T!ClientGreetingFields, T!MoveFields, T!VerifyFields, <<>>}
  PROVE  Arrived(fields).rest \in Written
<1>1. Len(fields) \in Nat /\ \A i \in 1..Len(fields) : Proper(fields[i])
  BY FieldsProper
<1>2. toServer \in Written
  BY DEF ClientType, Typed
<1> QED BY <1>1, <1>2, ReadWritten DEF Arrived

LEMMA AnswerWritten ==
  ASSUME SessionsSound
  PROVE  Answer \in Written
<1>1. <<>> \in Written
  BY DEF Written
<1>2. Infos \in Written
  BY InfosTold, ToldWritten, ChainWritten
<1>3. \A n \in Nat : /\ T!ConnectionSucceeded(T!Text(n)) \in Written
                     /\ T!ConnectionFailed(T!Text(n)) \in Written
                     /\ T!GameState(T!Text(n)) \in Written
  BY TextWritten, AnswersWritten
<1>4. 12 \in Nat /\ 16 \in Nat /\ 21 \in Nat /\ 26 \in Nat /\ 30 \in Nat /\ 45 \in Nat
  OBVIOUS
<1> DEFINE failed(n) == T!ConnectionFailed(T!Text(n))
           failure(request) == T!ConnectionFailed(T!Text(CASE request = "Move"   -> 12
                                     [] request = "Verify" -> 30
                                     [] request = "RequestGameState" -> 21
                                     [] OTHER -> 16))
           size(request) == CASE request = "Move"   -> 12
                              [] request = "Verify" -> 30
                              [] request = "RequestGameState" -> 21
                              [] OTHER -> 16
<1>5. \A request : size(request) \in Nat
  BY <1>4
<1>6. \A request : failure(request) = failed(size(request))
  OBVIOUS
<1> HIDE DEF size
<1>7. \A request : failed(size(request)) \in Written
  BY <1>3, <1>5
<1> HIDE DEF failed
<1>8. \A request : failure(request) \in Written
  BY <1>6, <1>7
<1>9. T!GameState(Fen) \in Written
  BY <1>3, <1>4 DEF Fen
<1>10. T!ConnectionSucceeded(T!Text(26)) \in Written
  BY <1>3, <1>4
<1> DEFINE state == T!GameState(Fen)
           done  == T!ConnectionSucceeded(T!Text(26))
<1>11. Answer \in {failure(received[Mine]), Infos, state, done, <<>>}
  BY Zenon DEF Answer
<1> HIDE DEF failure, state, done
<1>12. failure(received[Mine]) \in Written
  BY <1>8
<1>13. state \in Written /\ done \in Written
  BY <1>9, <1>10 DEF state, done
<1> QED BY <1>1, <1>2, <1>11, <1>12, <1>13

LEMMA MyHandlerType ==
  ASSUME FullInv, ClientType, MyHandler
  PROVE  ClientType'
<1>1. <<>> \in Written
  BY DEF Written
<1>2. CASE ReadGreeting
  <2> DEFINE rest   == Arrived(T!ClientGreetingFields).rest
             refuse == T!ConnectionFailed(T!Text(17))
  <2>1. Exchange(rest, refuse) \/ Exchange(rest, <<>>)
    BY <1>2 DEF ReadGreeting
  <2>2. rest \in Written
    BY ArrivedType
  <2>3. refuse \in Written
    <3>1. 17 \in Nat
      OBVIOUS
    <3> QED BY <3>1, TextWritten, AnswersWritten
  <2> HIDE DEF rest, refuse
  <2> QED BY <1>1, <2>1, <2>2, <2>3, ExchangeType
<1>3. CASE Welcome
  <2>1. Exchange(toServer, Greeted(idOf[Mine]))
    BY <1>3 DEF Welcome, Greeted, Welcomed, Before
  <2>2. Greeted(idOf[Mine]) \in Written
    <3>1. idOf[Mine] \in Int
      BY MineAssumption DEF FullInv, Inv, Domains
    <3> QED BY <3>1, SaidWritten
  <2>3. toServer \in Written
    BY DEF ClientType, Typed
  <2> QED BY <2>1, <2>2, <2>3, ExchangeType
<1>4. CASE ReadPid
  <2>1. Exchange(Arrived(T!PidFields).rest, <<>>)
    BY <1>4 DEF ReadPid
  <2>2. Arrived(T!PidFields).rest \in Written
    BY ArrivedType
  <2> QED BY <1>1, <2>1, <2>2, ExchangeType
<1>5. CASE Handle
  <2> DEFINE fields == PayloadOf(received[Mine])
  <2>1. Exchange(Arrived(fields).rest, Answer)
    BY <1>5 DEF Handle
  <2>2. fields \in {T!MoveFields, T!VerifyFields, <<>>}
    BY DEF PayloadOf
  <2> HIDE DEF fields
  <2>3. Arrived(fields).rest \in Written
    BY <2>2, ArrivedType
  <2>4. Answer \in Written
    BY AnswerWritten DEF FullInv
  <2> QED BY <2>1, <2>3, <2>4, ExchangeType
<1>6. CASE UNCHANGED <<client, wire>>
  <2>1. UNCHANGED <<at, sessionId, serverId, final, toServer, toClient>>
    BY <1>6 DEF client, wire
  <2> QED BY <2>1, NextType DEF ClientType
<1> QED BY <1>2, <1>3, <1>4, <1>5, <1>6 DEF MyHandler

LEMMA ClientTypeNext == FullInv /\ ClientType /\ [Next]_vars => ClientType'
<1> SUFFICES ASSUME FullInv, ClientType, [Next]_vars
             PROVE  ClientType'
  OBVIOUS
<1>1. <<>> \in Written
  BY DEF Written
<1>2. CASE MyAccept
  <2>1. at' = "greet" /\ UNCHANGED <<sessionId, serverId, final, toServer, toClient>>
    BY <1>2 DEF MyAccept, T!Connect
  <2> QED BY <2>1, NextType DEF ClientType, Typed, T!Labels
<1>3. CASE NotServed
  <2>1. at' = "done" /\ UNCHANGED <<sessionId, serverId, final, toServer, toClient>>
    BY <1>3 DEF NotServed, T!ConnectFails
  <2> QED BY <2>1, NextType DEF ClientType, Typed, T!Labels
<1>4. CASE ClientSteps
  BY <1>4, ScriptType DEF ClientSteps
<1>5. CASE T!Killed
  <2>1. at' = "killed" /\ UNCHANGED <<sessionId, serverId, final, toServer, toClient>>
    BY <1>5 DEF T!Killed
  <2> QED BY <2>1, NextType DEF ClientType, Typed, T!Labels
<1>6. CASE MyHandler
  BY <1>6, MyHandlerType
<1>7. CASE ClientCloses \/ Reset
  <2>1. /\ toServer' = <<>> /\ toClient' = <<>>
        /\ UNCHANGED <<at, sessionId, serverId, final>>
    BY <1>7 DEF ClientCloses, Reset, client
  <2> QED BY <1>1, <2>1, NextType DEF ClientType, Typed
<1>8. CASE MyProcessEnds \/ Others \/ UNCHANGED vars
  <2>1. UNCHANGED <<at, sessionId, serverId, final, toServer, toClient>>
    BY <1>8 DEF MyProcessEnds, Others, vars, client, wire
  <2> QED BY <2>1, NextType DEF ClientType
<1> QED BY <1>2, <1>3, <1>4, <1>5, <1>6, <1>7, <1>8 DEF Next

\* What the client knows has its type.
LEMMA WordsFit ==
  ASSUME NEW n, Word(n)
  PROVE  n \in T!Words
<1> DEFINE size == 256 * 256
<1>1. n \in Nat /\ n < 65536
  BY DEF Word
<1>2. n <= size - 1 /\ size \in Int
  BY <1>1
<1> HIDE DEF size
<1>3. n \in 0..(size - 1)
  BY <1>1, <1>2
<1> QED BY <1>3, Zenon DEF T!Words, size

LEMMA Types == FullInv /\ ClientType => TypeOK
<1> SUFFICES ASSUME FullInv, ClientType
             PROVE  TypeOK
  OBVIOUS
<1>1. ASSUME NEW stream \in Written
      PROVE  Sent(stream)
  BY <1>1 DEF Written, Sent
<1>2. at \in T!Labels /\ \A stream \in {serverId, final, toServer, toClient} : Sent(stream)
  BY <1>1 DEF ClientType, Typed
<1>4. sessionId \in T!Words
  BY WordsFit DEF ClientType, Typed
<1>5. ASSUME info # T!None
      PROVE  info.id \in T!Words /\ info.players \in T!Bytes /\ info.state \in T!Bytes
  <2>1. /\ info.id \in DOMAIN sessions /\ info.players \in 0..2
        /\ info.state \in {S!SM!Active, S!SM!Waiting}
    BY <1>5 DEF FullInv, InfoInv, InfoTrue
  <2>2. info.id \in 0..(IdMod - 1)
    BY <2>1 DEF FullInv, SessionsSound
  <2>3. Word(info.id)
    BY <2>2, IdsAreWords
  <2>4. info.players \in T!Bytes /\ info.state \in T!Bytes
    BY <2>1 DEF T!Bytes, S!SM!Active, S!SM!Waiting
  <2> QED BY <2>3, <2>4, WordsFit
<1> QED BY <1>2, <1>4, <1>5 DEF TypeOK

(* What is on the wire is bytes, and what either side makes of them is of  *)
(* its type: no integer is written that was not cut to its bytes, and what *)
(* the client takes for an id, a number of players or a state fits, even   *)
(* where the rest of the list is read as an answer it is not.              *)
THEOREM OnlyBytes == Spec => []TypeOK
<1>1. Init => FullInv /\ ClientType
  BY FullInit, ClientTypeInit
<1>2. FullInv /\ ClientType /\ [Next]_vars => FullInv' /\ ClientType'
  BY FullNext, ClientTypeNext
<1>3. FullInv /\ ClientType => TypeOK
  BY Types
<1> QED BY <1>1, <1>2, <1>3, PTL DEF Spec
=============================================================================
