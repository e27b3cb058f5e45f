-------------------------------- MODULE Cbor --------------------------------
(***************************************************************************)
(* The CBOR decoder of the package webauthn (cbor.ts) and the encoder of   *)
(* its tests (testing.ts), byte by byte.  A byte is a number below 256, a  *)
(* decoded value a record of a type and a sequence v:                      *)
(*   int, neg       v is the argument, most significant byte first and     *)
(*                  without leading zeros; neg is -1 minus it              *)
(*   bytes, text    v is the content                                       *)
(*   array, map     v is the items, or the pairs <<key, value>>            *)
(*   simple         v is <<20>>, <<21>> or <<22>>: false, true, null       *)
(* and what is refused is None.                                            *)
(***************************************************************************)
EXTENDS Integers, SequencesExt

CONSTANTS None, MAX_DEPTH

ASSUME DepthAssumption == MAX_DEPTH \in Nat

Value(type, v) == [type |-> type, v |-> v]

-----------------------------------------------------------------------------
(* Reader *)

\* What a read of n bytes at i takes, None when they are not there.
slice(b, i, n) ==
    IF i + n - 1 > Len(b) THEN None ELSE [value |-> SubSeq(b, i, i + n - 1), next |-> i + n]

\* A number's bytes without its leading zeros, and the number, if it is small.
Digits(bytes) ==
    LET used == {i \in DOMAIN bytes : bytes[i] # 0} IN
    IF used = {} THEN <<>> ELSE SubSeq(bytes, Min(used), Len(bytes))

Small(digits) == Len(digits) <= 2
Number(digits) == FoldLeft(LAMBDA n, d : 256 * n + d, 0, digits)

\* Number.MAX_SAFE_INTEGER is 2^53 - 1; beyond it a value is a bigint.
SafeInteger(digits) == Len(digits) < 7 \/ (Len(digits) = 7 /\ digits[1] < 32)

Widths == [a \in 24 .. 27 |-> IF a = 24 THEN 1 ELSE IF a = 25 THEN 2 ELSE IF a = 26 THEN 4 ELSE 8]

\* The argument of an initial byte at i - 1; 28 to 31 are refused.
readArgument(b, i, additional) ==
    IF additional < 24 THEN [value |-> Digits(<<additional>>), next |-> i]
    ELSE IF additional > 27 \/ slice(b, i, Widths[additional]) = None THEN None
    ELSE [value |-> Digits(slice(b, i, Widths[additional]).value), next |-> i + Widths[additional]]

\* A length, at most the bytes that are left.
asLength(b, arg) ==
    IF arg = None THEN None
    ELSE IF ~Small(arg.value) \/ Number(arg.value) > Len(b) - arg.next + 1 THEN None
    ELSE Number(arg.value)

-----------------------------------------------------------------------------

\* A text of one and two byte characters: TextDecoder, fatal.
RECURSIVE IsUtf8(_)
IsUtf8(t) ==
    \/ t = <<>>
    \/ t[1] < 128 /\ IsUtf8(Tail(t))
    \/ /\ Len(t) >= 2 /\ t[1] \in 194 .. 223 /\ t[2] \in 128 .. 191
       /\ IsUtf8(SubSeq(t, 3, Len(t)))

IsKey(value) ==
    value.type = "text" \/ (value.type \in {"int", "neg"} /\ SafeInteger(value.v))

RECURSIVE decodeValue(_, _, _)

\* The n values from i on, one after the other.
RECURSIVE Items(_, _, _, _)
Items(b, i, n, depth) ==
    IF n = 0 THEN [value |-> <<>>, next |-> i]
    ELSE LET first == decodeValue(b, i, depth) IN
         IF first = None THEN None
         ELSE LET rest == Items(b, first.next, n - 1, depth) IN
              IF rest = None THEN None
              ELSE [value |-> <<first.value>> \o rest.value, next |-> rest.next]

\* Mutant: a repeated key is taken.
PairsRepeated(b, i, n, depth) ==
    LET all == Items(b, i, 2 * n, depth) IN
    IF all = None THEN None
    ELSE [value |-> [k \in 1 .. n |-> <<all.value[2 * k - 1], all.value[2 * k]>>], next |-> all.next]

\* Keys and values in turn; a key is a text or a number, and is there once.
Pairs(b, i, n, depth) ==
    LET all == Items(b, i, 2 * n, depth)
        Key(k) == all.value[2 * k - 1] IN
    IF all = None THEN None
    ELSE IF \E k \in 1 .. n : ~IsKey(Key(k)) \/ \E j \in 1 .. k - 1 : Key(j) = Key(k) THEN None
    ELSE [value |-> [k \in 1 .. n |-> <<Key(k), all.value[2 * k]>>], next |-> all.next]

\* A decoded value and the place after it.
decodeValue(b, i, depth) ==
    LET major == b[i] \div 32
        additional == b[i] % 32
        arg == readArgument(b, i + 1, additional)
        n == asLength(b, arg)
        content == CASE major \in {2, 3} -> slice(b, arg.next, n)
                     [] major = 4 -> Items(b, arg.next, n, depth + 1)
                     [] major = 5 -> Pairs(b, arg.next, n, depth + 1)
        types == <<"int", "neg", "bytes", "text", "array", "map">>
    IN  IF depth > MAX_DEPTH \/ i > Len(b) \/ major = 6 THEN None
        ELSE IF major = 7 THEN
             IF additional \in {20, 21, 22}
             THEN [value |-> Value("simple", <<additional>>), next |-> i + 1] ELSE None
        ELSE IF arg = None THEN None
        ELSE IF major < 2 THEN [value |-> Value(types[major + 1], arg.value), next |-> arg.next]
        ELSE IF n = None THEN None
        ELSE IF content = None \/ (major = 3 /\ ~IsUtf8(content.value)) THEN None
        ELSE [value |-> Value(types[major + 1], content.value), next |-> content.next]

decodeCbor(b) ==
    LET d == decodeValue(b, 1, 0) IN
    IF d = None \/ d.next # Len(b) + 1 THEN None ELSE d.value

\* The first value of b, and how many bytes it takes.
decodeCborPrefix(b) ==
    LET d == decodeValue(b, 1, 0) IN
    IF d = None THEN None ELSE [value |-> d.value, bytesRead |-> d.next - 1]

-----------------------------------------------------------------------------
(* testing.ts *)

head(major, n) ==
    IF n < 24 THEN <<32 * major + n>>
    ELSE IF n < 256 THEN <<32 * major + 24, n>> ELSE <<32 * major + 25, n \div 256, n % 256>>

RECURSIVE encodeCbor(_)
encodeCbor(value) ==
    LET v == value.v IN
    CASE value.type = "int" -> head(0, Number(v))
      [] value.type = "neg" -> head(1, Number(v))
      [] value.type = "bytes" -> head(2, Len(v)) \o v
      [] value.type = "text" -> head(3, Len(v)) \o v
      [] value.type = "array" ->
            head(4, Len(v)) \o FlattenSeq([i \in DOMAIN v |-> encodeCbor(v[i])])
      [] value.type = "map" ->
            head(5, Len(v)) \o
              FlattenSeq([i \in DOMAIN v |-> encodeCbor(v[i][1]) \o encodeCbor(v[i][2])])
      [] value.type = "simple" -> <<224 + v[1]>>
=============================================================================
