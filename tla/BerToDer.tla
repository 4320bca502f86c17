------------------------------ MODULE BerToDer ------------------------------
(***************************************************************************)
(* The conversion of BER to DER that precedes the reading of KMS's CMS     *)
(* message (kmsrecipient/ber.go), on sequences of bytes, and the grammar   *)
(* it is meant to read.  Positions count from 1.                           *)
(***************************************************************************)
EXTENDS Integers, Sequences

CONSTANTS MaxBERDepth, MaxBERSize, MaxBERTagSize

\* A length within MaxBERSize takes at most three bytes.
ASSUME BerAssumption ==
    /\ {MaxBERDepth, MaxBERSize, MaxBERTagSize} \subseteq Nat
    /\ MaxBERTagSize > 1 /\ MaxBERSize < 256 * 65536

Invalid == [ok |-> FALSE]

HighTag(b) == b % 32 = 31
IsConstructed(b) == (b \div 32) % 2 = 1
-----------------------------------------------------------------------------
(* encodeDERObject *)

\* The bytes of n, without leading zeros.
Base256(n) ==
    LET digits[k \in 0 .. n] ==
            IF k = 0 THEN <<>> ELSE Append(digits[k \div 256], k % 256)
    IN  digits[n]

AppendDERLength(dst, length) ==
    dst \o IF length < 128 THEN <<length>>
           ELSE <<128 + Len(Base256(length))>> \o Base256(length)

EncodeDERObject(tag, content) == AppendDERLength(tag, Len(content)) \o content
-----------------------------------------------------------------------------
(* The parts of an object at offset o *)

\* A high tag goes on to the first byte below 128; the limit is looked at after
\* each byte that is not the last one.
ReadBERTag(in, o) ==
    LET ends == {i \in o + 1 .. Len(in) : in[i] < 128}
        last == IF HighTag(in[o]) THEN CHOOSE i \in ends : \A j \in ends : i <= j ELSE o
    IN  IF HighTag(in[o]) /\ (ends = {} \/ in[o + 1] = 128 \/ last - o >= MaxBERTagSize)
        THEN Invalid
        ELSE [ok |-> TRUE, tag |-> SubSeq(in, o, last), constructed |-> IsConstructed(in[o]),
              next |-> last + 1]

\* A length in more than one byte is the shortest one of the same value.
ReadBERLongLength(in, o) ==
    LET count == in[o] - 128
        digits == SubSeq(in, o + 1, o + count)
        value[i \in 0 .. Len(digits)] == IF i = 0 THEN 0 ELSE 256 * value[i - 1] + digits[i]
        length == value[Len(digits)]
    IN  IF count > 4 \/ o + count > Len(in) \/ in[o + 1] = 0 \/ length < 128
        THEN Invalid
        ELSE [ok |-> TRUE, length |-> length, next |-> o + count + 1]

\* The length at o; -1 if it is indefinite.
ReadBERLength(in, o) ==
    CASE o > Len(in) -> Invalid
      [] o <= Len(in) /\ in[o] = 128 -> [ok |-> TRUE, length |-> -1, next |-> o + 1]
      [] o <= Len(in) /\ in[o] < 128 -> [ok |-> TRUE, length |-> in[o], next |-> o + 1]
      [] OTHER -> ReadBERLongLength(in, o)
-----------------------------------------------------------------------------
(* Objects.  [eoc |-> TRUE] is the end-of-contents mark.  `deeper` is what  *)
(* is read at each position one level down.                                *)

\* Seeded bug: the end of an inner object is not compared with its parent's.
ReadBERChildrenLoose(in, deeper, start, end) ==
    LET rest[o \in 1 .. Len(in) + 1] ==
            IF end # 0 /\ o >= end THEN [ok |-> TRUE, content |-> <<>>, next |-> o]
            ELSE IF o > Len(in) \/ ~deeper[o].ok THEN Invalid
            ELSE IF deeper[o].eoc
            THEN IF end = 0 THEN [ok |-> TRUE, content |-> <<>>, next |-> deeper[o].next]
                 ELSE Invalid
            ELSE LET others == rest[deeper[o].next] IN
                 IF ~others.ok THEN Invalid
                 ELSE [ok |-> TRUE, content |-> deeper[o].der \o others.content,
                       next |-> others.next]
    IN  rest[start]

\* readBERConstructed's loop: up to `end`, or to the mark if that is 0.
ReadBERChildren(in, deeper, start, end) ==
    LET rest[o \in 1 .. Len(in) + 1] ==
            LET child == deeper[o]
                others == rest[child.next]
            IN  IF end # 0 /\ o = end THEN [ok |-> TRUE, content |-> <<>>, next |-> o]
                ELSE IF (end # 0 /\ o > end) \/ o > Len(in) THEN Invalid
                ELSE IF ~child.ok \/ (child.eoc /\ end # 0) THEN Invalid
                ELSE IF child.eoc THEN [ok |-> TRUE, content |-> <<>>, next |-> child.next]
                ELSE IF ~others.ok \/ Len(child.der) + Len(others.content) > MaxBERSize
                THEN Invalid
                ELSE [ok |-> TRUE, content |-> child.der \o others.content, next |-> others.next]
    IN  rest[start]

ReadBERConstructed(in, deeper, tag, o, length) ==
    LET kids == ReadBERChildren(in, deeper, o, IF length = -1 THEN 0 ELSE o + length)
    IN  IF length > Len(in) - o + 1 \/ ~kids.ok THEN Invalid
        ELSE [ok |-> TRUE, eoc |-> FALSE, der |-> EncodeDERObject(tag, kids.content),
              next |-> kids.next]

ReadBERBody(in, deeper, o) ==
    LET tag == ReadBERTag(in, o)
        length == ReadBERLength(in, tag.next)
    IN  IF ~tag.ok \/ ~length.ok THEN Invalid
        ELSE IF tag.constructed
        THEN ReadBERConstructed(in, deeper, tag.tag, length.next, length.length)
        ELSE IF length.length = -1 \/ length.length > Len(in) - length.next + 1 THEN Invalid
        ELSE [ok |-> TRUE, eoc |-> FALSE, next |-> length.next + length.length,
              der |-> EncodeDERObject(tag.tag,
                          SubSeq(in, length.next, length.next + length.length - 1))]

ReadBERObject(in, deeper, o) ==
    IF o > Len(in) THEN Invalid
    ELSE IF o < Len(in) /\ in[o] = 0 /\ in[o + 1] = 0
    THEN [ok |-> TRUE, eoc |-> TRUE, next |-> o + 2]
    ELSE ReadBERBody(in, deeper, o)

\* What is read at each position of `in`, `up` levels above the one at which
\* nothing is read any more.
BERObjects(in) ==
    LET level[up \in 0 .. MaxBERDepth + 1] ==
            [o \in 1 .. Len(in) + 1 |->
                IF up = 0 THEN Invalid ELSE ReadBERObject(in, level[up - 1], o)]
    IN  level[MaxBERDepth + 1]

Convert(in) ==
    LET object == BERObjects(in)[1] IN
    IF Len(in) \in 1 .. MaxBERSize /\ object.ok /\ ~object.eoc /\ object.next = Len(in) + 1
    THEN [ok |-> TRUE, der |-> object.der]
    ELSE Invalid
-----------------------------------------------------------------------------
(* The grammar: what BER, and the DER of the same value, look like.  How   *)
(* deep an object is counts the end-of-contents mark as an object; its     *)
(* size is that of its contents in DER.                                    *)

DerLength(n) ==
    CASE n < 128 -> <<n>>
      [] n > 127 /\ n < 256 -> <<129, n>>
      [] n > 255 /\ n < 65536 -> <<130, n \div 256, n % 256>>
      [] n > 65535 -> <<131, n \div 65536, (n \div 256) % 256, n % 256>>

Deeper(m, n) == IF m > n THEN m ELSE n

Primitive(tag, content) ==
    LET der == tag \o DerLength(Len(content)) \o content
    IN  [ber |-> der, der |-> der, depth |-> 0, size |-> Len(content)]

\* kids: what is inside, with the depth of the deepest of them, or -1.
Definite(tag, kids) ==
    [ber |-> tag \o DerLength(Len(kids.ber)) \o kids.ber,
     der |-> tag \o DerLength(Len(kids.der)) \o kids.der,
     depth |-> kids.depth + 1, size |-> Len(kids.der)]

Indefinite(tag, kids) ==
    [ber |-> tag \o <<128>> \o kids.ber \o <<0, 0>>,
     der |-> tag \o DerLength(Len(kids.der)) \o kids.der,
     depth |-> Deeper(kids.depth, 0) + 1, size |-> Len(kids.der)]

NoKids == [ber |-> <<>>, der |-> <<>>, depth |-> -1]
Join(a, b) == [ber |-> a.ber \o b.ber, der |-> a.der \o b.der, depth |-> Deeper(a.depth, b.depth)]

Tags(alphabet, n) ==
    {t \in [1 .. n -> alphabet] :
        IF n = 1 THEN ~HighTag(t[1])
        ELSE /\ HighTag(t[1]) /\ t[2] # 128 /\ t[n] < 128 /\ n <= MaxBERTagSize
             /\ \A i \in 2 .. n - 1 : t[i] > 127}

\* The objects of n bytes: g[m].contents are the contents of m < n bytes.
ObjectsOf(alphabet, g, n) ==
    LET Short(t) == {tag \in Tags(alphabet, t) : ~IsConstructed(tag[1])}
        Long(t) == {tag \in Tags(alphabet, t) : IsConstructed(tag[1])}
        Definites(t, m) ==
            IF t + Len(DerLength(m)) + m # n THEN {}
            ELSE {Primitive(tag, content) : tag \in Short(t), content \in [1 .. m -> alphabet]}
                 \cup {Definite(tag, kids) : tag \in Long(t), kids \in g[m].contents}
        Indefinites(t, m) ==
            IF t + m + 3 # n THEN {}
            ELSE {Indefinite(tag, kids) : tag \in Long(t), kids \in g[m].contents}
    IN  (UNION {Definites(t, m) \cup Indefinites(t, m) : t \in 1 .. n - 1, m \in 0 .. n - 1})
        \ {Primitive(<<0>>, <<>>)}

\* The contents of n bytes: an object, and the contents after it.
ContentsOf(g, objects, n) ==
    IF n = 0 THEN {NoKids}
    ELSE UNION {{Join(first, rest) : first \in IF k = n THEN objects ELSE g[k].objects,
                                     rest \in g[n - k].contents} : k \in 2 .. n}

\* All objects, and all contents of constructed ones, of n bytes of the alphabet.
Grammar(alphabet, most) ==
    LET g[n \in 0 .. most] ==
            [objects |-> ObjectsOf(alphabet, g, n),
             contents |-> ContentsOf(g, ObjectsOf(alphabet, g, n), n)]
    IN  [n \in 0 .. most |-> g[n]]
=============================================================================
