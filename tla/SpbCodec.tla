------------------------------ MODULE SpbCodec ------------------------------
(***************************************************************************)
(* The Spb codec of src/stnet/spb.go as pure operators.                    *)
(*                                                                         *)
(* Go's reflection is replaced by an explicit type descriptor               *)
(*   [k |-> kind, w |-> bit width, el |-> element type, fl |-> fields]     *)
(* with kind one of "bool", "uint", "int", "float", "string", "slice",     *)
(* "map" (with key type kt), "struct"; a struct's fields are records       *)
(* [tag, req, t] where tag is the                                          *)
(* `tag:"n"` of the field or -1 when it has none and req is               *)
(* `require:"true"`. A value of a struct is the sequence of its field      *)
(* values, a string or slice is a sequence, a map a function, a float is   *)
(* its bit pattern. All fields are exported (settable).                    *)
(*                                                                         *)
(* Go's uint64 is Word bits wide (64 in the code, fewer for TLC); every    *)
(* operator wraps where the code wraps.                                    *)
(***************************************************************************)
EXTENDS Integers, Sequences, SequencesExt

CONSTANTS
  Word   \* bits of the varint accumulator (uint64 in the code)

\* The type codes SpbPackDataType_*.
TPos == 0
TNeg == 1
TFloat == 2
TDouble == 3
TString == 4
TVector == 5
TMap == 6
TBegin == 7
TEnd == 8

NoTarget == [k |-> "none", w |-> 0, el |-> "none", fl |-> <<>>]

\* Go's conversions of an integer to a w-bit unsigned or signed integer.
ToUnsigned(x, w) == x % (2^w)
ToSigned(x, w) ==
  LET m == x % (2^w) IN IF m >= 2^(w - 1) THEN m - 2^w ELSE m

\* The zero value a field has before decoding (newValByType, a new struct).
RECURSIVE Zero(_)
Zero(t) ==
  CASE t.k = "bool" -> FALSE
    [] t.k \in {"string", "slice", "map"} -> <<>>
    [] t.k = "struct" -> [i \in 1..Len(t.fl) |-> Zero(t.fl[i].t)]
    [] OTHER -> 0

(***************************************************************************)
(* Encoder                                                                 *)
(***************************************************************************)

\* Spb.packNumber: little-endian base-128 varint.
RECURSIVE packNumber(_)
packNumber(x) ==
  IF x >= 128 THEN <<(x % 128) + 128>> \o packNumber(x \div 128)
  ELSE <<x>>

packHeaderTag15(tag, typ) ==
  IF tag <= 15 THEN <<typ * 16 + (tag % 16)>>
  ELSE <<typ * 16 + 15>> \o packNumber(tag)

\* Spb.packHeader: type code in the high nibble; a tag of 15 or more is
\* escaped as 0xf followed by the tag as a varint.
packHeader(tag, typ) ==
  IF tag < 15 THEN <<typ * 16 + tag>>
  ELSE <<typ * 16 + 15>> \o packNumber(tag)

\* The scalar cases of Spb.pack: the type code and the varint value. A
\* negative integer is negated in its own width (so the minimum stays
\* negative) and then sign-extended to uint64. A float keeps the type code
\* Integer_Positive and sends its bit pattern.
scalarOf(t, x) ==
  CASE t.k = "bool" -> <<TPos, IF x THEN 1 ELSE 0>>
    [] t.k = "int" /\ x < 0 ->
         <<TNeg, ToUnsigned(ToSigned(-x, t.w), Word)>>
    [] OTHER -> <<TPos, x>>

\* The tag packStruct gives field i: its `tag`, else its index.
FieldTag(t, i) == IF t.fl[i].tag >= 0 THEN t.fl[i].tag ELSE i - 1

\* The keys of a map in the order packMap writes them. Go's MapKeys order
\* is unspecified; this is one of its orders, and the decoder's result does
\* not depend on it since the keys are distinct.
MapKeys(x) == SetToSeq(DOMAIN x)


\* Bind(e, Op) is Op applied to the value of e, with e evaluated once
\* however often Op uses it (TLC re-evaluates a LET each time it is used
\* when it checks fairness, which is exponential in the recursions of this module).
Bind(e, Op(_)) == CHOOSE v \in {Op(y) : y \in {e}} : TRUE

\* The concatenation of a sequence of byte strings, halved at each level so
\* that its evaluation is only logarithmically deep: a []byte of 32K
\* elements packs into 32K pieces.
RECURSIVE Concat(_)
Concat(s) ==
  Bind(s, LAMBDA q :
    CASE Len(q) = 0 -> <<>>
      [] Len(q) = 1 -> q[1]
      [] OTHER -> Concat(SubSeq(q, 1, Len(q) \div 2)) \o Concat(SubSeq(q, Len(q) \div 2 + 1, Len(q))))

\* Spb.pack with packHead = TRUE (the value of every call site), together
\* with packSlice and packStruct. A zero scalar, an empty string or an
\* empty slice is left out unless required; a struct is always written.
RECURSIVE pack(_, _, _, _)
pack(tag, t, x, require) ==
  CASE t.k = "string" ->
         IF x = <<>> /\ ~require THEN <<>>
         ELSE packHeader(tag, TString) \o packNumber(Len(x)) \o x
    [] t.k = "slice" ->
         IF x = <<>> /\ ~require THEN <<>>
         ELSE packHeader(tag, TVector) \o packNumber(Len(x))
                \o Concat([i \in 1..Len(x) |-> pack(0, t.el, x[i], TRUE)])
    [] t.k = "map" ->
         IF DOMAIN x = {} /\ ~require THEN <<>>
         ELSE LET ks == MapKeys(x)
              IN packHeader(tag, TMap) \o packNumber(Len(ks))
                   \o FlattenSeq([i \in 1..Len(ks) |->
                                   pack(0, t.kt, ks[i], TRUE) \o pack(0, t.el, x[ks[i]], TRUE)])
    [] t.k = "struct" ->
         packHeader(tag, TBegin)
           \o FlattenSeq([i \in 1..Len(t.fl) |->
                           pack(FieldTag(t, i), t.fl[i].t, x[i], t.fl[i].req)])
           \o packHeader(0, TEnd)
    [] OTHER ->
         LET s == scalarOf(t, x)
         IN IF s[2] = 0 /\ ~require THEN <<>>
            ELSE packHeader(tag, s[1]) \o packNumber(s[2])

\* SpbEncode: the top-level value is packed with tag 0 and required.
SpbEncode(t, x) == pack(0, t, x, TRUE)

(***************************************************************************)
(* Decoder. A cursor is a 1-based index into buf; every operator returns   *)
(* where the cursor is afterwards, and leaves it where the code leaves     *)
(* spb.index when it fails.                                                *)
(***************************************************************************)


\* Spb.unpackNumber: at most Word/7 bytes; the bits shifted past the top of
\* the accumulator are lost; the cursor moves only on success.
RECURSIVE numLoop(_, _, _, _)
numLoop(buf, i, shift, x) ==
  CASE shift >= Word -> [x |-> x, i |-> 0, err |-> "overflow"]
    [] i > Len(buf) -> [x |-> x, i |-> 0, err |-> "eof"]
    [] OTHER ->
         Bind((x + ((buf[i] % 128) % 2^(Word - shift)) * 2^shift) % 2^Word,
              LAMBDA x2 : IF buf[i] < 128 THEN [x |-> x2, i |-> i + 1, err |-> "none"]
                          ELSE numLoop(buf, i + 1, shift + 7, x2))

unpackNumber(buf, i) == numLoop(buf, i, 0, 0)

\* Spb.unpackHeader: the header byte is consumed before an escaped tag is
\* read, so a failing escaped tag leaves the cursor one byte further.
unpackHeader(buf, i) ==
  CASE i > Len(buf) -> [tag |-> 0, typ |-> 0, i |-> i, err |-> "noenough"]
    [] buf[i] % 16 # 15 ->
         [tag |-> buf[i] % 16, typ |-> buf[i] \div 16, i |-> i + 1, err |-> "none"]
    [] OTHER ->
         Bind(unpackNumber(buf, i + 1),
              LAMBDA n : [tag |-> n.x, typ |-> buf[i] \div 16, err |-> n.err,
                          i |-> IF n.err = "none" THEN n.i ELSE i + 1])

\* Spb.unpackByte(n): nothing for n <= 0, an error if fewer bytes are left.
unpackByte(buf, i, n) ==
  CASE n <= 0 -> [bytes |-> <<>>, i |-> i, err |-> "none"]
    [] i + n - 1 > Len(buf) -> [bytes |-> <<>>, i |-> i, err |-> "noenough"]
    [] OTHER -> [bytes |-> SubSeq(buf, i, i + n - 1), i |-> i + n, err |-> "none"]

\* skipHeadField, skipField and skipToStructEnd: skip one field using its
\* type code alone; errors end the skip where the cursor stands. A count is
\* int(ln), so a huge varint count is negative and skips nothing.
RECURSIVE skipHeadField(_, _), skipField(_, _, _), skipRepeat(_, _, _),
          skipToStructEnd(_, _)
skipHeadField(buf, i) ==
  Bind(unpackHeader(buf, i),
       LAMBDA h : IF h.err # "none" THEN h.i ELSE skipField(buf, h.i, h.typ))

\* The loop `for i := 0; i < n; i++ { skipHeadField() }`, as the first
\* half of the iterations and then the rest from where they left the
\* cursor (so that the evaluation is only logarithmically deep). A skip
\* that does not move the cursor failed, and every later one fails in the
\* same place.
skipRepeat(buf, i, n) ==
  CASE n <= 0 -> i
    [] n = 1 -> skipHeadField(buf, i)
    [] OTHER -> Bind(skipRepeat(buf, i, n \div 2),
                     LAMBDA j : IF j = i THEN i ELSE skipRepeat(buf, j, n - n \div 2))

skipField(buf, i, typ) ==
  Bind(unpackNumber(buf, i), LAMBDA n :
    CASE typ \in {TPos, TNeg, TFloat, TDouble} ->
           IF n.err = "none" THEN n.i ELSE i
      [] typ \in {TString, TVector, TMap} /\ n.err # "none" -> i
      [] typ = TString -> unpackByte(buf, n.i, ToSigned(n.x, Word)).i
      [] typ = TVector -> skipRepeat(buf, n.i, ToSigned(n.x, Word))
      [] typ = TMap -> skipRepeat(buf, n.i, 2 * ToSigned(n.x, Word))
      [] typ = TBegin -> skipToStructEnd(buf, i)
      [] OTHER -> i)

skipToStructEnd(buf, i) ==
  Bind(unpackHeader(buf, i), LAMBDA h :
    CASE h.err # "none" -> h.i
      [] h.typ = TEnd -> h.i
      [] OTHER -> Bind(skipField(buf, h.i, h.typ),
                       LAMBDA j : skipToStructEnd(buf, j)))

\* CanSetBool, CanSetFloat, CanSetInt, CanSetUint: the target is settable
\* and of that kind (an absent field, NoTarget, is not settable).
CanSetBool(t) == t.k = "bool"
CanSetFloat(t) == t.k = "float"
CanSetInt(t) == t.k = "int"
CanSetUint(t) == t.k = "uint"

\* The field unpack(x, false) fills for a tag: the first field whose `tag`
\* equals it, else the field at that index if it has no `tag`, else none.
FieldFor(t, tag) ==
  LET tagged == {i \in 1..Len(t.fl) : t.fl[i].tag = tag}
  IN CASE tagged # {} -> Min(tagged)
       [] tag < Len(t.fl) /\ t.fl[tag + 1].tag < 0 -> tag + 1
       [] OTHER -> 0

\* reflect.MakeMap and SetMapIndex over the decoded pairs: a later pair
\* with the same key wins.
MapOf(pairs) ==
  [key \in {p[1] : p \in ToSet(pairs)} |->
     pairs[Max({j \in 1..Len(pairs) : pairs[j][1] = key})][2]]

\* Spb.unpack(x, first). With first, the target is x of type t; without,
\* x is a struct and the target is the field its tag selects (none if no
\* field matches). The result is x after decoding, the cursor and the error;
\* like reflect's in-place writes, fields set before an error stay set.
RECURSIVE unpack(_, _, _, _, _), decodeInto(_, _, _, _, _),
          unpackElems(_, _, _, _, _), unpackPairs(_, _, _, _, _),
          unpackStruct(_, _, _, _)
unpack(buf, i, t, cur, first) ==
  IF i > Len(buf) THEN [v |-> cur, i |-> i, err |-> "noenough"]
  ELSE Bind(unpackHeader(buf, i), LAMBDA h :
    LET f == IF ~first /\ t.k = "struct" THEN FieldFor(t, h.tag) ELSE 0
    IN CASE h.err # "none" -> [v |-> cur, i |-> h.i, err |-> h.err]
         [] first -> decodeInto(buf, h.i, h.typ, t, cur)
         [] f = 0 -> [decodeInto(buf, h.i, h.typ, NoTarget, 0) EXCEPT !.v = cur]
         [] OTHER -> Bind(decodeInto(buf, h.i, h.typ, t.fl[f].t, cur[f]),
                          LAMBDA r : [r EXCEPT !.v = [cur EXCEPT ![f] = r.v]]))

\* The switch on the type code, writing the target (t, cur). SetUint and
\* SetInt truncate to the field's width; Integer_Positive sets a uint, an
\* int or a bool, never a float.
decodeInto(buf, i, typ, t, cur) ==
  Bind(unpackNumber(buf, i), LAMBDA n :
    LET cnt == ToSigned(n.x, Word)
        done(v, j) == [v |-> v, i |-> j, err |-> "none"]
    IN CASE typ \in {TPos, TNeg, TFloat, TDouble, TString, TVector, TMap}
              /\ n.err # "none" -> [v |-> cur, i |-> i, err |-> n.err]
         [] typ = TPos ->
              done(CASE CanSetUint(t) -> ToUnsigned(n.x, t.w)
                     [] CanSetInt(t) -> ToSigned(n.x, t.w)
                     [] CanSetBool(t) -> n.x > 0
                     [] OTHER -> cur, n.i)
         [] typ = TNeg ->
              done(IF CanSetInt(t) THEN ToSigned(-n.x, t.w) ELSE cur, n.i)
         [] typ \in {TFloat, TDouble} ->
              done(IF CanSetFloat(t) THEN n.x ELSE cur, n.i)
         [] typ = TString ->
              Bind(unpackByte(buf, n.i, cnt), LAMBDA b :
                IF b.err # "none" THEN [v |-> cur, i |-> n.i, err |-> b.err]
                ELSE done(IF t.k = "string" THEN b.bytes ELSE cur, b.i))
         [] typ = TVector /\ t.k = "slice" ->
              \* SetLen(0) before the elements: a failure leaves it empty.
              Bind(unpackElems(buf, n.i, t.el, cnt, <<>>), LAMBDA e :
                IF e.err # "none" THEN [e EXCEPT !.v = <<>>] ELSE e)
         [] typ = TVector -> done(cur, skipRepeat(buf, n.i, cnt))
         [] typ = TMap /\ t.k = "map" ->
              \* A failure leaves the map as it was; success replaces it.
              Bind(unpackPairs(buf, n.i, t, cnt, <<>>), LAMBDA e :
                IF e.err # "none" THEN [e EXCEPT !.v = cur]
                ELSE [e EXCEPT !.v = MapOf(e.v)])
         [] typ = TMap -> done(cur, skipRepeat(buf, n.i, 2 * cnt))
         [] typ = TBegin /\ t.k = "struct" -> unpackStruct(buf, i, t, cur)
         [] typ = TBegin -> done(cur, skipToStructEnd(buf, i))
         [] typ = TEnd -> [v |-> cur, i |-> i, err |-> "structend"]
         [] OTHER -> [v |-> cur, i |-> i, err |-> "invalidtype"])

\* The element loop of the Vector case: each element is decoded from the
\* zero value of the element type, with first = TRUE, and the loop stops
\* at the first error. Split in halves like skipRepeat.
unpackElems(buf, i, et, cnt, acc) ==
  CASE cnt <= 0 -> [v |-> acc, i |-> i, err |-> "none"]
    [] cnt = 1 ->
         Bind(unpack(buf, i, et, Zero(et), TRUE), LAMBDA r :
           IF r.err # "none" THEN [v |-> acc, i |-> r.i, err |-> r.err]
           ELSE [v |-> Append(acc, r.v), i |-> r.i, err |-> "none"])
    [] OTHER ->
         Bind(unpackElems(buf, i, et, cnt \div 2, acc), LAMBDA a :
           IF a.err # "none" THEN a ELSE unpackElems(buf, a.i, et, cnt - cnt \div 2, a.v))

\* The key/value loop of the Map case: a key decoded from the zero key, a
\* value from newValByType, both with first = TRUE. Split in halves.
unpackPairs(buf, i, t, cnt, acc) ==
  CASE cnt <= 0 -> [v |-> acc, i |-> i, err |-> "none"]
    [] cnt = 1 ->
         Bind(unpack(buf, i, t.kt, Zero(t.kt), TRUE), LAMBDA k :
           IF k.err # "none" THEN [v |-> acc, i |-> k.i, err |-> k.err]
           ELSE Bind(unpack(buf, k.i, t.el, Zero(t.el), TRUE), LAMBDA r :
                  IF r.err # "none" THEN [v |-> acc, i |-> r.i, err |-> r.err]
                  ELSE [v |-> Append(acc, <<k.v, r.v>>), i |-> r.i, err |-> "none"]))
    [] OTHER ->
         Bind(unpackPairs(buf, i, t, cnt \div 2, acc), LAMBDA a :
           IF a.err # "none" THEN a ELSE unpackPairs(buf, a.i, t, cnt - cnt \div 2, a.v))

\* The StructBegin case: unpack(stVal, false) until errStructEnd.
unpackStruct(buf, i, t, cur) ==
  Bind(unpack(buf, i, t, cur, FALSE), LAMBDA r :
    CASE r.err = "structend" -> [r EXCEPT !.err = "none"]
      [] r.err # "none" -> r
      [] OTHER -> unpackStruct(buf, r.i, t, r.v))

\* SpbDecode: unpack into a zero value of t with first = TRUE.
SpbDecode(data, t) == Bind(data, LAMBDA buf : unpack(buf, 1, t, Zero(t), TRUE))

=============================================================================
