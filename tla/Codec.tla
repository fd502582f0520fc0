--------------------------------- MODULE Codec ---------------------------------
(***************************************************************************)
(* Registers to values and back: byte-order.ts, decode.ts and encode.ts of *)
(* packages/modbus-codec.  A number is an integer in units of the last     *)
(* digit that precision keeps; a scale is a fraction, num over den.        *)
(* float32 is left out: its patterns are the business of DataView.         *)
(*                                                                         *)
(* And the frames of Modbus TCP at the port of the simulator, which carry  *)
(* the registers (modbus/frame.ts of device-sim): a stream of bytes is cut *)
(* into frames, a frame read as a request and a decision of the stand      *)
(* written as a reply.  A header is two cells, of the protocol and of the  *)
(* length of what follows.                                                 *)
(***************************************************************************)
EXTENDS Integers, Sequences

CONSTANTS Base,          \* values of a byte: 256
          MaxPdu,        \* cells after a header, at most
          AddressSpace,  \* 0x10000
          MaxReadWords   \* 125

WordBase == Base * Base
LongBase == WordBase * WordBase
Words == 0..WordBase - 1

Orders == {"ABCD", "DCBA", "BADC", "CDAB"}
Wide == {"int32", "uint32"}
WordsOf(dataType) == IF dataType \in Wide THEN 2 ELSE 1

ToWord(v) == v % WordBase

-------------------------------------------------------------------------------
(* Four bytes of a value, A the highest, in the order of the line. *)

WordsToBytes(words, order) ==
  LET s == <<words[1] \div Base, words[1] % Base, words[2] \div Base, words[2] % Base>>
  IN  CASE order = "ABCD" -> s
        [] order = "DCBA" -> <<s[4], s[3], s[2], s[1]>>
        [] order = "BADC" -> <<s[2], s[1], s[4], s[3]>>
        [] order = "CDAB" -> <<s[3], s[4], s[1], s[2]>>

Word(high, low) == high * Base + low

BytesToWords(b, order) ==
  CASE order = "ABCD" -> <<Word(b[1], b[2]), Word(b[3], b[4])>>
    [] order = "DCBA" -> <<Word(b[4], b[3]), Word(b[2], b[1])>>
    [] order = "BADC" -> <<Word(b[2], b[1]), Word(b[4], b[3])>>
    [] order = "CDAB" -> <<Word(b[3], b[4]), Word(b[1], b[2])>>

LongToBytes(v) ==
  <<(v \div (Base * WordBase)) % Base, (v \div WordBase) % Base, (v \div Base) % Base, v % Base>>

BytesToLong(b) == ((b[1] * Base + b[2]) * Base + b[3]) * Base + b[4]

Signed(v, base) == IF v >= base \div 2 THEN v - base ELSE v

-------------------------------------------------------------------------------
(* Math.round of num / den: halves go up. *)
Rounded(num, den) == (2 * num + den) \div (2 * den)

Number(v) == [kind |-> "number", value |-> v]
Label(l) == [kind |-> "label", value |-> l]
Flags(f) == [kind |-> "flags", value |-> f]
Null == [kind |-> "null"]

(* assembleRaw: too few words are no number. *)
AssembleRaw(words, param) ==
  CASE Len(words) < WordsOf(param.dataType) -> Null
    [] param.dataType = "int16" -> Number(Signed(ToWord(words[1]), WordBase))
    [] param.dataType \in {"uint16", "bits16"} -> Number(ToWord(words[1]))
    [] param.dataType = "int32" -> Number(Signed(BytesToLong(WordsToBytes(words, param.order)), LongBase))
    [] param.dataType = "uint32" -> Number(BytesToLong(WordsToBytes(words, param.order)))

BitOn(word, bit) == (word \div 2^bit) % 2 = 1

DecodeBits(word, bits) == [k \in DOMAIN bits |-> BitOn(word, bits[k].bit) # bits[k].invert]

(* decodeParam: assembled, scaled, rounded; then the meaning of a code or  *)
(* of the flags, and an unknown code means nothing.                        *)
DecodeParam(words, param) ==
  LET raw == AssembleRaw(words, param)
      value == Rounded(raw.value * param.num, param.den) + param.offset
  IN  CASE raw = Null -> Null
        [] raw # Null /\ param.bits # <<>> -> Flags(DecodeBits(ToWord(value), param.bits))
        [] raw # Null /\ param.bits = <<>> /\ param.enum # <<>> ->
             IF value \in DOMAIN param.enum THEN Label(param.enum[value]) ELSE Null
        [] raw # Null /\ param.bits = <<>> /\ param.enum = <<>> -> Number(value)

-------------------------------------------------------------------------------
(* codeOfLabel: the first code of a label, in the order of the keys. *)
CodesOf(label, table) == {c \in DOMAIN table : table[c] = label}
CodeOfLabel(label, table) == CHOOSE c \in CodesOf(label, table) : \A d \in CodesOf(label, table) : c <= d

SumOver(f, keys) ==
  LET sum[n \in 0..Len(keys)] == IF n = 0 THEN 0 ELSE sum[n - 1] + f[keys[n]] IN sum[Len(keys)]

(* wordOfFlags: bits nobody describes stay zero. *)
WordOfFlags(flags, bits) ==
  SumOver([k \in DOMAIN bits |-> IF flags[k] # bits[k].invert THEN 2^bits[k].bit ELSE 0],
          [k \in 1..Len(bits) |-> k])

ScaledValue(value, param) ==
  CASE value.kind = "number" -> value
    [] value.kind = "label" ->
         IF param.enum # <<>> /\ CodesOf(value.value, param.enum) # {}
         THEN Number(CodeOfLabel(value.value, param.enum)) ELSE Null
    [] value.kind = "flags" -> IF param.bits # <<>> THEN Number(WordOfFlags(value.value, param.bits)) ELSE Null
    [] value.kind = "null" -> Null

InRange(whole, dataType) ==
  CASE dataType = "int16" -> whole >= -(WordBase \div 2) /\ whole < WordBase \div 2
    [] dataType \in {"uint16", "bits16"} -> whole \in Words
    [] dataType = "int32" -> whole >= -(LongBase \div 2) /\ whole < LongBase \div 2
    [] dataType = "uint32" -> whole \in 0..LongBase - 1

(* encodeParam: no words at all for a value the type cannot hold. *)
EncodeParam(value, param) ==
  LET scaled == ScaledValue(value, param)
      whole == Rounded((scaled.value - param.offset) * param.den, param.num)
  IN  IF scaled = Null \/ param.num = 0 THEN <<>>
      ELSE IF ~InRange(whole, param.dataType) THEN <<>>
      ELSE IF param.dataType \in Wide
           THEN BytesToWords(LongToBytes(whole % LongBase), param.order)
           ELSE <<ToWord(whole)>>

-------------------------------------------------------------------------------
(* Frames. *)

Mbap == 2

SplitFrames(buffer) ==
  LET size == Len(buffer)
      rest(offset) == SubSeq(buffer, offset + 1, size)
      split[offset \in 0..size] ==
        IF size - offset < Mbap THEN [frames |-> <<>>, rest |-> rest(offset), broken |-> FALSE]
        ELSE LET length == buffer[offset + 2]
                 end == offset + Mbap + length
             IN  IF buffer[offset + 1] # 0 \/ length < 1 \/ length > MaxPdu
                 THEN [frames |-> <<>>, rest |-> <<>>, broken |-> TRUE]
                 ELSE IF end > size
                      THEN [frames |-> <<>>, rest |-> rest(offset), broken |-> FALSE]
                      ELSE [split[end] EXCEPT !.frames = <<SubSeq(buffer, offset + 1, end)>> \o @]
  IN  split[0]

(* socket.on('data') of line-server.ts: what is left waits for more bytes, *)
(* and a broken stream ends the connection.                                *)
Received(chunks) ==
  LET after[n \in 0..Len(chunks)] ==
        IF n = 0 THEN [frames |-> <<>>, rest |-> <<>>, broken |-> FALSE]
        ELSE IF after[n - 1].broken THEN after[n - 1]
        ELSE LET next == SplitFrames(after[n - 1].rest \o chunks[n])
             IN  [next EXCEPT !.frames = after[n - 1].frames \o @]
  IN  after[Len(chunks)]

(* Only reads of registers are supported. *)
ParseRequest(f) ==
  LET reject(code) == [kind |-> "rejected", code |-> code]
  IN  CASE f.function \notin {3, 4} -> reject("illegal function")
        [] f.function \in {3, 4} /\ ~f.whole -> reject("illegal value")
        [] f.function \in {3, 4} /\ f.whole /\ f.quantity \notin 1..MaxReadWords -> reject("illegal value")
        [] f.function \in {3, 4} /\ f.whole /\ f.quantity \in 1..MaxReadWords
             /\ f.address + f.quantity > AddressSpace -> reject("illegal address")
        [] OTHER -> [kind |-> "read", type |-> IF f.function = 3 THEN "holding" ELSE "input",
                     address |-> f.address, quantity |-> f.quantity]

(* A garbled reply declares all the words and carries one less. *)
RegistersResponse(words, garbled) ==
  [declared |-> Len(words), sent |-> IF garbled THEN SubSeq(words, 1, Len(words) - 1) ELSE words]

(* The client library takes a reply of the length it has asked for. *)
Taken(reply, quantity) == reply.declared = quantity /\ Len(reply.sent) = quantity

-------------------------------------------------------------------------------
(* Properties. *)

Cells == {0, 1, 2, 9}
Streams == UNION {[1..n -> Cells] : n \in 0..5}
Cuts(stream) ==
  {<<SubSeq(stream, 1, i), SubSeq(stream, i + 1, j), SubSeq(stream, j + 1, Len(stream))>> :
     i \in 0..Len(stream), j \in 0..Len(stream)}

(* However TCP cuts a stream into chunks the same frames come out of it,   *)
(* and it is found broken at the same place; and a request that is parsed  *)
(* asks for registers that exist, no more than a reply carries; and a      *)
(* garbled reply is never taken for data (splitFrames, parseRequest,       *)
(* registersResponse).                                                     *)
FramesAreWhole ==
  /\ \A s \in Streams : \A c \in {x \in Cuts(s) : x[1] \o x[2] \o x[3] = s} :
       LET cut == Received(c)  whole == Received(<<s>>)
       IN  cut.frames = whole.frames /\ cut.broken = whole.broken
  /\ \A f \in [function : {3, 4, 6}, whole : BOOLEAN, address : 0..(AddressSpace - 1), quantity : 0..(MaxReadWords + 1)] :
       LET r == ParseRequest(f)
       IN  /\ r.kind = "read" => (r.address..(r.address + r.quantity - 1)) \subseteq 0..(AddressSpace - 1)
           /\ f.function = 3 /\ f.whole /\ f.quantity \in 1..MaxReadWords
                /\ f.address + f.quantity <= AddressSpace => r.kind = "read"
  /\ \A n \in 1..MaxReadWords : \A words \in [1..n -> 0..1], garbled \in BOOLEAN :
       Taken(RegistersResponse(words, garbled), n) <=> ~garbled
===============================================================================
