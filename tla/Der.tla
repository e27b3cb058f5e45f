-------------------------------- MODULE Der --------------------------------
(***************************************************************************)
(* The DER readers of the package webauthn: certificates (asn1.ts) and     *)
(* ECDSA signatures (der.ts), with the encoders of its tests               *)
(* (x509-fixtures.ts, testing.ts), byte by byte.  Refused is None.         *)
(***************************************************************************)
EXTENDS Integers, SequencesExt

CONSTANT None

SEQUENCE_TAG == 48
EXTENSIONS_TAG == 163

BigEndian(bytes) == FoldLeft(LAMBDA n, d : 256 * n + d, 0, bytes)

\* Mutant: long forms of short lengths are read.
LengthAtLax(b, i, count) ==
    LET n == b[i] % 128  bytes == SubSeq(b, i + 1, i + n) IN
    IF i > Len(b) THEN None
    ELSE IF b[i] < 128 THEN [length |-> b[i], next |-> i + 1]
    ELSE IF n = 0 \/ n > count \/ i + n > Len(b) THEN None
    ELSE [length |-> BigEndian(bytes), next |-> i + 1 + n]

\* A length at i in at most count bytes, in its shortest form, or None.
LengthAt(b, i, count) ==
    LET n == b[i] % 128  bytes == SubSeq(b, i + 1, i + n) IN
    IF i > Len(b) THEN None
    ELSE IF b[i] < 128 THEN [length |-> b[i], next |-> i + 1]
    ELSE IF n = 0 \/ n > count \/ i + n > Len(b) THEN None
    ELSE IF bytes[1] = 0 \/ BigEndian(bytes) < 128 THEN None
    ELSE [length |-> BigEndian(bytes), next |-> i + 1 + n]

readLength(b, i) == LengthAt(b, i, 2)

-----------------------------------------------------------------------------
(* asn1.ts *)

\* The number of a tag at i and the place after it; a number that does not fit
\* the first byte takes up to three more, of seven bits each.
TagAt(b, i) ==
    LET last == {j \in i + 1 .. i + 3 : j <= Len(b) /\ b[j] < 128}
        number == FoldLeft(LAMBDA n, d : 128 * n + (d % 128), 0, SubSeq(b, i + 1, Min(last))) IN
    IF b[i] % 32 # 31 THEN [number |-> b[i] % 32, next |-> i + 1]
    ELSE IF last = {} THEN None
    ELSE IF b[i + 1] % 128 = 0 \/ number < 31 THEN None
    ELSE [number |-> number, next |-> Min(last) + 1]

\* The content is from start to before next.
TlvOf(b, i, tag, length) ==
    IF length = None THEN None
    ELSE IF length.next + length.length - 1 > Len(b) THEN None
    ELSE [tag |-> b[i], number |-> tag.number, start |-> length.next,
          next |-> length.next + length.length]

Tagged(b, i, tag) ==
    IF tag = None THEN None ELSE TlvOf(b, i, tag, LengthAt(b, tag.next, 3))

readTlv(b, i) == IF i + 1 > Len(b) THEN None ELSE Tagged(b, i, TagAt(b, i))

Content(b, tlv) == SubSeq(b, tlv.start, tlv.next - 1)

\* The children of parent from i on.
RECURSIVE From(_, _, _)
From(b, parent, i) ==
    IF i >= parent.next THEN <<>>
    ELSE LET tlv == readTlv(b, i) IN
         IF tlv = None THEN None
         ELSE IF tlv.next > parent.next THEN None
         ELSE LET rest == From(b, parent, tlv.next) IN
              IF rest = None THEN None ELSE <<tlv>> \o rest

children(b, parent) == From(b, parent, parent.start)

\* The base 128 digits of n, all but the last with their top bit set.
RECURSIVE Base128(_)
Base128(n) == IF n < 128 THEN <<n>>
              ELSE LET high == Base128(n \div 128) IN
                   [i \in DOMAIN high |-> 128 + (high[i] % 128)] \o <<n % 128>>

encodeOid(parts) ==
    <<(parts[1] * 40 + parts[2]) % 256>>
      \o FlattenSeq([i \in 1 .. Len(parts) - 2 |-> Base128(parts[i + 2])])

\* What stands for the value of an extension that is not there.
Absent == <<-1>>

\* Mutant: the value is looked for in second place.
ExtensionSecond(b, fields) == IF Len(fields) < 2 THEN None ELSE Content(b, fields[2])

\* The value of an extension of these fields, or None.
Extension(b, fields) ==
    LET octets == {k \in 2 .. Len(fields) : fields[k].tag = 4} IN
    IF octets = {} THEN None
    ELSE IF Min(octets) # 2 /\ fields[2].tag # 1 THEN None
    ELSE Content(b, fields[Min(octets)])

\* The first extension of that name, looked for among those from k on.
RECURSIVE Search(_, _, _, _)
Search(b, list, k, oid) ==
    IF k > Len(list) THEN Absent
    ELSE LET fields == IF list[k].tag = SEQUENCE_TAG THEN children(b, list[k]) ELSE None IN
         IF fields = None THEN None
         ELSE IF fields = <<>> THEN None
         ELSE IF fields[1].tag # 6 THEN None
         ELSE IF Content(b, fields[1]) = oid THEN Extension(b, fields)
         ELSE Search(b, list, k + 1, oid)

\* The first of these values, which must be a SEQUENCE.
LeadingSequence(list) ==
    IF list = None THEN None
    ELSE IF list = <<>> THEN None
    ELSE IF list[1].tag # SEQUENCE_TAG THEN None ELSE list[1]

childrenOf(b, parent) == IF parent = None THEN None ELSE children(b, parent)

\* The extensions are the children of the SEQUENCE in the field [3].
InFields(b, fields, holders, oid) ==
    IF holders = {} THEN Absent
    ELSE LET list == childrenOf(b, LeadingSequence(children(b, fields[Min(holders)]))) IN
         IF list = None THEN None ELSE Search(b, list, 1, oid)

InTbs(b, fields, oid) ==
    IF fields = None THEN None
    ELSE InFields(b, fields, {k \in DOMAIN fields : fields[k].tag = EXTENSIONS_TAG}, oid)

InCertificate(b, cert, oid) ==
    IF cert = None THEN None
    ELSE IF cert.tag # SEQUENCE_TAG THEN None
    ELSE InTbs(b, childrenOf(b, LeadingSequence(children(b, cert))), oid)

findExtension(b, oid) == InCertificate(b, readTlv(b, 1), oid)

-----------------------------------------------------------------------------
(* der.ts *)

\* A positive INTEGER at i, padded to size bytes.
readInteger(b, i, size) ==
    LET l == readLength(b, i + 1)
        digits == SubSeq(b, l.next, l.next + l.length - 1)
        used == IF digits[1] = 0 THEN Tail(digits) ELSE digits IN
    IF i > Len(b) THEN None
    ELSE IF b[i] # 2 THEN None
    ELSE IF l = None THEN None
    ELSE IF l.length = 0 \/ l.next + l.length - 1 > Len(b) THEN None
    ELSE IF digits[1] >= 128 THEN None
    ELSE IF digits[1] = 0 /\ (l.length = 1 \/ digits[2] < 128) THEN None
    ELSE IF Len(used) > size THEN None
    ELSE [value |-> [k \in 1 .. size - Len(used) |-> 0] \o used, next |-> l.next + l.length]

derToRawSignature(b, size) ==
    LET l == readLength(b, 2)
        r == readInteger(b, l.next, size)
        s == readInteger(b, r.next, size) IN
    IF b = <<>> THEN None
    ELSE IF b[1] # SEQUENCE_TAG THEN None
    ELSE IF l = None THEN None
    ELSE IF l.next + l.length # Len(b) + 1 THEN None
    ELSE IF r = None THEN None
    ELSE IF s = None THEN None
    ELSE IF s.next # Len(b) + 1 THEN None
    ELSE r.value \o s.value

-----------------------------------------------------------------------------
(* x509-fixtures.ts, testing.ts *)

encodeLength(n) ==
    IF n < 128 THEN <<n>> ELSE IF n < 256 THEN <<129, n>> ELSE <<130, n \div 256, n % 256>>

\* number is that of a context-specific tag in highContext(), above 30.
tlv(tag, content) == <<tag>> \o encodeLength(Len(content)) \o content
highContext(number, content) ==
    <<191>> \o Base128(number) \o encodeLength(Len(content)) \o content

\* An INTEGER of digits, minimal and not negative.
integer(digits) ==
    LET used == {i \in DOMAIN digits : digits[i] # 0}
        from == IF used = {} THEN <<0>> ELSE SubSeq(digits, Min(used), Len(digits)) IN
    tlv(2, IF from[1] >= 128 THEN <<0>> \o from ELSE from)

rawToDerSignature(raw) ==
    LET half == Len(raw) \div 2 IN
    tlv(SEQUENCE_TAG, integer(SubSeq(raw, 1, half)) \o integer(SubSeq(raw, half + 1, Len(raw))))

extension(oid, value, critical) ==
    tlv(SEQUENCE_TAG, tlv(6, oid) \o (IF critical THEN tlv(1, <<255>>) ELSE <<>>) \o tlv(4, value))

\* A certificate: a TBSCertificate of some fields and extensions [3], and the rest.
Certificate(extensions) ==
    tlv(SEQUENCE_TAG,
        tlv(SEQUENCE_TAG, integer(<<2>>) \o tlv(EXTENSIONS_TAG, tlv(SEQUENCE_TAG, FlattenSeq(extensions))))
          \o tlv(3, <<0>>))
=============================================================================
