----------------------------- MODULE MCDecoding -----------------------------
(***************************************************************************)
(* A small instance of Decoding for TLC: fields of a byte or two, and one  *)
(* datum per form that a value can take.                                   *)
(***************************************************************************)
EXTENDS Decoding

Num(n) == Value("int", Digits(<<n \div 256, n % 256>>))
Neg(n) == Value("neg", Digits(<<n \div 256, n % 256>>))
Text(b) == Value("text", b)
Zeros(n) == [i \in 1 .. n |-> 0]
Map(pairs) == Value("map", pairs)

Values ==
    {Num(n) : n \in {0, 1, 23, 24, 255, 256}} \cup {Neg(n) : n \in {0, 24, 256}}
    \cup {Value("simple", <<n>>) : n \in {20, 21, 22}}
    \cup {Value("bytes", <<>>), Value("bytes", <<7, 24>>), Text(<<97>>), Text(<<194, 169>>),
          Value("array", <<Num(1), Text(<<>>)>>),
          Map(<< <<Num(0), Num(1)>>, <<Num(1), Neg(0)>> >>),
          Map(<< <<Text(<<97>>), Map(<<>>)>>, <<Neg(0), Value("array", <<>>)>> >>)}

Long == {Value("bytes", Zeros(n)) : n \in {23, 24, 255, 256}}

Key(alg, material) == [alg |-> alg, material |-> material]
Keys == {Key(ES256, <<<<1>>, <<0>>>>), Key(EdDSA, <<<<9>>>>), Key(RS256, <<<<128>>, <<3>>>>),
         Key(RS256, <<<<0, 255>>, <<1, 1>>>>)}

Data(flags, credential, extensions) ==
    [rpIdHash |-> <<1>>, rawFlags |-> flags, signCount |-> <<0>>,
     credential |-> credential, extensions |-> extensions]
Credential(key) ==
    [aaguid |-> <<5>>, credentialId |-> <<6>>, publicKey |-> key, end |-> 7 + Len(key)]
Authenticator ==
    {Data(1, NoCredential, <<>>), Data(24, NoCredential, <<>>),
     Data(65, Credential(<<1>>), <<>>), Data(193, Credential(<<65, 0>>), <<161, 0, 0>>),
     Data(129, NoCredential, <<160>>)}

Signatures == [1 .. 2 * COORDINATE_BYTES -> {1, 127, 128, 255}]

Ext(oid, value) == [oid |-> oid, value |-> value, critical |-> oid[3] = 200]
Certificates ==
    {<<>>, <<Ext(<<1, 3, 6>>, <<4>>)>>, <<Ext(Oid, <<>>)>>, <<Ext(<<1, 3, 6>>, <<4>>), Ext(Oid, <<4, 1>>)>>,
     <<Ext(<<1, 3, 16384>>, <<1>>), Ext(Oid, <<7>>), Ext(Oid, <<8>>)>>, <<Ext(Oid, Zeros(130))>>,
     <<Ext(Oid, Zeros(255))>>}

Of(kind, data) == {[kind |-> kind, datum |-> d] : d \in data}
MCSources == Of("cbor", Values \cup Long) \cup Of("key", Keys) \cup Of("authData", Authenticator)
             \cup Of("signature", Signatures) \cup Of("certificate", Certificates)

\* Long data is not damaged byte by byte.
MCBytes(kind) ==
    CASE kind = "cbor" -> {0, 1, 24, 31, 64, 65, 97, 128, 160, 161, 162}
      [] kind = "key" -> {1, 3, 65}
      [] kind = "authData" -> {0, 1, 2, 64, 65, 160, 192}
      [] kind = "signature" -> {0, 1, 2, 3, 4, 48, 127, 128, 129, 130}
      [] kind = "certificate" -> {4}
=============================================================================
