-------------------------------- MODULE Wire --------------------------------
(***************************************************************************)
(* The messages on the wire, byte by byte: Network/BinaryIO.h writes and   *)
(* reads the fields, Protocol/Protocol.h numbers the messages, Server.cpp  *)
(* and Client/ClientStub.cpp put the fields together, each for itself.     *)
(*                                                                         *)
(* What is written is a sequence of bytes.  A reader has no frames to go   *)
(* by: it takes fields off the front of whatever has arrived.              *)
(***************************************************************************)
EXTENDS Integers, Sequences

PidGreeting            == 1     \* 0x0001
PidConnectionSucceeded == 2     \* 0x0002
PidConnectionFailed    == 3     \* 0x0003
PidInquireGameSessions == 256   \* 0x0100
PidGameSessionInfo     == 257   \* 0x0101
PidMove                == 512   \* 0x0200
PidResign              == 513   \* 0x0201
PidVerifyGameState     == 768   \* 0x0300
PidRequestGameState    == 1024  \* 0x0400
PidGameState           == 1025  \* 0x0401

Bytes == 0..255
Words == 0..(256 * 256 - 1)

\* A text whose wording does not matter: two of its bytes are no PID and, as
\* a length, exceed every limit.
Text(n) == [i \in 1..n |-> 84]

-----------------------------------------------------------------------------
(* Writing.  Integers lose what does not fit, texts are sent in full.      *)
WriteUint8(n)     == <<n % 256>>

\* Mutant: the low byte is not cut off.
Uint16Uncut(n) == <<(n \div 256) % 256, n>>

WriteUint16(n)    == <<(n \div 256) % 256, n % 256>>
WriteString(text) == WriteUint16(Len(text)) \o text
WriteAll(arrays)  ==
  LET written[n \in 0..Len(arrays)] == IF n = 0 THEN <<>> ELSE written[n - 1] \o arrays[n]
  IN  written[Len(arrays)]

Greeting(version, name, id) ==
  WriteUint16(PidGreeting) \o WriteUint16(version) \o WriteString(name) \o WriteString(id)
ConnectionSucceeded(message) == WriteUint16(PidConnectionSucceeded) \o WriteString(message)
ConnectionFailed(reason)     == WriteUint16(PidConnectionFailed) \o WriteString(reason)
GameState(fen)               == WriteUint16(PidGameState) \o WriteString(fen)

\* Mutant: the name is written as the other strings are.
InfoWithString(id, players, name, state) ==
  WriteUint16(PidGameSessionInfo) \o WriteUint16(id) \o WriteUint8(players)
    \o WriteString(name) \o WriteUint8(state)

\* The name has a length of one byte, unlike every other.
GameSessionInfo(id, players, name, state) ==
  WriteUint16(PidGameSessionInfo) \o WriteUint16(id) \o WriteUint8(players)
    \o WriteUint8(Len(name)) \o name \o WriteUint8(state)

Move(from, to)     == WriteUint16(PidMove) \o from \o to
VerifyState(pawns) == WriteUint16(PidVerifyGameState) \o WriteUint8(Len(pawns)) \o WriteAll(pawns)
InquireSessions    == WriteUint16(PidInquireGameSessions)
RequestGameState   == WriteUint16(PidRequestGameState)
Resign             == WriteUint16(PidResign)

-----------------------------------------------------------------------------
(* Reading.  A reading under way has taken `values' off a stream and left  *)
(* `rest'.  It is "ok", it has "failed" - the stream has ended, a length   *)
(* is over its limit, or the PID is "unexpected" - or it must "wait" for   *)
(* more; what failed has been consumed as far as it was read.              *)
Start(stream, more) ==
  [status |-> "ok", values |-> <<>>, rest |-> stream, then |-> IF more THEN "more" ELSE "end"]

\* Op(value), the value computed once, also where TLC decides ENABLED.
Once(value, Op(_)) == CHOOSE result \in {Op(v) : v \in {value}} : TRUE

Then(r, Op(_)) == Once(r, LAMBDA v : IF v.status = "ok" THEN Op(v) ELSE v)

\* ReadBytes.
Take(r, n) == Then(r, LAMBDA t :
  IF Len(t.rest) >= n
  THEN [t EXCEPT !.values = Append(@, SubSeq(t.rest, 1, n)),
                 !.rest   = SubSeq(@, n + 1, Len(@))]
  ELSE IF t.then = "more" THEN [t EXCEPT !.status = "wait"]
  ELSE [t EXCEPT !.status = "failed", !.rest = <<>>])

Latest(r)    == r.values[Len(r.values)]
Replace(r, value) == [r EXCEPT !.values[Len(r.values)] = value]
Drop(r)      == [r EXCEPT !.values = SubSeq(@, 1, Len(@) - 1)]

ReadUint8(r)  == Then(Take(r, 1), LAMBDA t : Replace(t, Latest(t)[1]))
ReadUint16(r) == Then(Take(r, 2), LAMBDA t : Replace(t, 256 * Latest(t)[1] + Latest(t)[2]))
ReadString(r, maxLen) ==
  Then(ReadUint16(r), LAMBDA t :
    IF Latest(t) > maxLen THEN [t EXCEPT !.status = "failed"]
    ELSE Take(Drop(t), Latest(t)))

(* A field that is read: what it is, and its limit or what it must be.     *)
Field(is, arg) == [is |-> is, arg |-> arg]
PidOf(pid) == Field("expected", pid)
Uint8      == Field("uint8", 0)
Uint16     == Field("uint16", 0)
String(maxLen) == Field("string", maxLen)
Array(n)   == Field("array", n)
\* Its length in one byte.  The client reads it into char nameBuf[64]: names
\* are taken to fit, what a longer one overwrites is not modelled.
ShortText  == Field("short", 0)
Arrays(n)  == Field("arrays", n)   \* their number in one byte

ReadField(r, field) ==
  CASE field.is = "expected" ->
         Then(ReadUint16(r), LAMBDA t :
           IF Latest(t) = field.arg THEN Drop(t) ELSE [t EXCEPT !.status = "unexpected"])
    [] field.is = "uint8"  -> ReadUint8(r)
    [] field.is = "uint16" -> ReadUint16(r)
    [] field.is = "string" -> ReadString(r, field.arg)
    [] field.is = "array"  -> Take(r, field.arg)
    [] field.is = "short"  -> Then(ReadUint8(r), LAMBDA t : Take(Drop(t), Latest(t)))
    [] field.is = "arrays" -> Then(ReadUint8(r), LAMBDA t : Take(Drop(t), field.arg * Latest(t)))

\* What is read when the first n fields are, for each n.
ReadUpTo(stream, more, fields) ==
  LET read[n \in 0..Len(fields)] ==
        IF n = 0 THEN Start(stream, more) ELSE ReadField(read[n - 1], fields[n])
  IN  read

Read(stream, more, fields) == ReadUpTo(stream, more, fields)[Len(fields)]

\* What each side reads.
PidFields       == <<Uint16>>
GreetingFields  == <<PidOf(PidGreeting), Uint16, String(63), String(127)>>
SucceededFields == <<PidOf(PidConnectionSucceeded), String(255)>>
InfoFields      == <<PidOf(PidGameSessionInfo), Uint16, Uint8, ShortText, Uint8>>
StateFields     == <<PidOf(PidGameState), String(511)>>

\* Mutant: the server leaves the client's id unread.
ClientGreetingWithoutId == <<PidOf(PidGreeting), Uint16, String(63)>>

ClientGreetingFields == <<PidOf(PidGreeting), Uint16, String(63), String(127)>>
MoveFields           == <<Array(4), Array(4)>>
VerifyFields         == <<Arrays(4)>>
=============================================================================
