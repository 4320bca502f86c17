---------------------------- MODULE KmsRecipient ----------------------------
(***************************************************************************)
(* How the enclave opens a CiphertextForRecipient of KMS                   *)
(* (kmsrecipient/decrypt.go), and how KMS writes one.  A CMS message is a  *)
(* record of what asn1.Unmarshal finds in it; object identifiers are       *)
(* strings.  Ciphers are ideal: with another key or another IV than it was *)
(* encrypted with, a byte decrypts to Garbage.                             *)
(***************************************************************************)
EXTENDS Integers, Sequences

CONSTANTS BlockSize,    \* aes.BlockSize
          KeySize,      \* aes256KeySize
          Garbage,      \* a byte that was not decrypted with its key
          ErrDecrypt,   \* the one error of Decrypt
          Absent        \* an optional part that is not there

ASSUME CipherAssumption ==
    /\ BlockSize \in Nat /\ BlockSize > 1 /\ KeySize \in Nat \ {0}
    /\ Garbage \notin Nat /\ ErrDecrypt \notin Seq(Nat)

Seal(key, iv, data) == [i \in DOMAIN data |-> [key |-> key, iv |-> iv, byte |-> data[i]]]
Open(key, iv, data) ==
    [i \in DOMAIN data |->
        IF data[i].key = key /\ data[i].iv = iv THEN data[i].byte ELSE Garbage]

-----------------------------------------------------------------------------
(* What asn1.Unmarshal can find in the message *)

ObjectIdentifiers ==
    {"envelopedData", "data", "aes256-CBC", "rsaes-oaep", "mgf1", "pSpecified", "sha256", "other"}

AlgorithmIdentifier(parameters) ==
    [oid : ObjectIdentifiers \cup {Absent}, parameters : parameters \cup {Absent}, extra : BOOLEAN]

RsaOAEPParameters ==
    [hash : AlgorithmIdentifier({"null", "other"}),
     mgf : AlgorithmIdentifier(AlgorithmIdentifier({"null", "other"})),
     source : AlgorithmIdentifier(Seq(Nat)), extra : BOOLEAN]

\* key: what is wrapped, for whom, and how.
KeyTransRecipientInfo ==
    [version : Int, identifier : {"ski", "empty"}, algorithm : AlgorithmIdentifier(RsaOAEPParameters),
     key : [empty : BOOLEAN, for : STRING, hash : {"sha256", "other"}, key : {"cek"}, size : Nat],
     extra : BOOLEAN]

EncryptedContentInfo ==
    [type : ObjectIdentifiers,
     algorithm : [oid : ObjectIdentifiers, parameters : [octetString : BOOLEAN, bytes : Seq(Nat)],
                  extra : BOOLEAN],
     body : [tag : {"context0", "other"}, compound : BOOLEAN,
             fragments : Seq([octetString : BOOLEAN,
                              bytes : Seq([key : {"cek"}, iv : Seq(Nat), byte : Nat])])],
     extra : BOOLEAN]

ContentInfo ==
    [type : ObjectIdentifiers, version : Int, recipients : Seq(KeyTransRecipientInfo),
     content : EncryptedContentInfo, extra : BOOLEAN]

ASSUME AbsentAssumption ==
    /\ Absent \notin ObjectIdentifiers /\ Absent \notin {"null", "other"}
    /\ Absent \notin Seq(Nat) /\ Absent \notin RsaOAEPParameters
    /\ Absent \notin AlgorithmIdentifier({"null", "other"})

NoAlgorithm == [oid |-> Absent, parameters |-> Absent, extra |-> FALSE]
-----------------------------------------------------------------------------
(* parse *)

IsSHA256(algorithm) ==
    ~algorithm.extra /\ algorithm.oid = "sha256" /\ algorithm.parameters \in {Absent, "null"}

\* What is absent has a default, SHA-1, that is not accepted; only the label
\* may be absent.
ValidOAEP(algorithm) ==
    /\ ~algorithm.extra /\ algorithm.oid = "rsaes-oaep" /\ algorithm.parameters # Absent
    /\ LET params == algorithm.parameters IN
       /\ ~params.extra /\ IsSHA256(params.hash)
       /\ ~params.mgf.extra /\ params.mgf.oid = "mgf1" /\ params.mgf.parameters # Absent
       /\ IsSHA256(params.mgf.parameters)
       /\ \/ params.source.oid = Absent
          \/ /\ ~params.source.extra /\ params.source.oid = "pSpecified"
             /\ params.source.parameters = <<>>

\* Seeded bug: only the first fragment is read.
FirstFragment(body) ==
    IF body.tag # "context0" \/ body.fragments = <<>> THEN [ok |-> FALSE]
    ELSE [ok |-> TRUE, bytes |-> body.fragments[1].bytes]

\* A primitive value has one fragment, its bytes; a compound one as many OCTET
\* STRINGs as its writer liked.
DecodeEncryptedContent(body) ==
    LET joined[i \in 0 .. Len(body.fragments)] ==
            IF i = 0 THEN <<>> ELSE joined[i - 1] \o body.fragments[i].bytes
    IN  IF \/ body.tag # "context0"
           \/ body.compound /\ \E i \in DOMAIN body.fragments : ~body.fragments[i].octetString
        THEN [ok |-> FALSE]
        ELSE [ok |-> TRUE, bytes |-> joined[Len(body.fragments)]]

Parses(envelope) ==
    /\ ~envelope.extra
    /\ envelope.type = "envelopedData" /\ envelope.version = 2
    /\ Len(envelope.recipients) = 1
    /\ LET recipient == envelope.recipients[1]
           content == envelope.content
           body == DecodeEncryptedContent(content.body)
       IN  /\ ~recipient.extra /\ recipient.version = 2
           /\ recipient.identifier # "empty" /\ ~recipient.key.empty
           /\ ValidOAEP(recipient.algorithm)
           /\ ~content.extra /\ content.type = "data"
           /\ ~content.algorithm.extra /\ content.algorithm.oid = "aes256-CBC"
           /\ content.algorithm.parameters.octetString
           /\ Len(content.algorithm.parameters.bytes) = BlockSize
           /\ body.ok /\ Len(body.bytes) > 0 /\ Len(body.bytes) % BlockSize = 0
-----------------------------------------------------------------------------
(* decrypt *)

\* unpadPKCS7 looks at a whole block in constant time.
UnpadPKCS7(data) ==
    LET paddingLength == data[Len(data)]
        valid == /\ paddingLength \in 1 .. BlockSize
                 /\ \A i \in 0 .. BlockSize - 1 :
                       i + 1 <= paddingLength => data[Len(data) - i] = paddingLength
    IN  IF data # <<>> /\ Len(data) % BlockSize = 0 /\ valid
        THEN SubSeq(data, 1, Len(data) - paddingLength) ELSE ErrDecrypt

\* RSA-OAEP opens the content key, AES-CBC with it the content.
DecryptContent(privateKey, envelope) ==
    LET wrapped == envelope.recipients[1].key
        content == envelope.content
        plaintext == Open(wrapped.key, content.algorithm.parameters.bytes,
                          DecodeEncryptedContent(content.body).bytes)
    IN  IF wrapped.for = privateKey /\ wrapped.hash = "sha256" /\ wrapped.size = KeySize
        THEN UnpadPKCS7(plaintext) ELSE ErrDecrypt

\* Whatever fails, the error is the same.
Decrypt(privateKey, envelope) ==
    IF Parses(envelope) THEN DecryptContent(privateKey, envelope) ELSE ErrDecrypt
-----------------------------------------------------------------------------
(* KMS: CiphertextForRecipient *)

PadPKCS7(data) ==
    LET n == BlockSize - (Len(data) % BlockSize) IN data \o [i \in 1 .. n |-> n]

SHA256(parameters) == [oid |-> "sha256", parameters |-> parameters, extra |-> FALSE]
IV == [i \in 1 .. BlockSize |-> 0]

\* The encrypted content as one value, or in fragments that end after so many bytes.
Body(bytes, style) ==
    LET cuts == style.cuts
        Cut(i) == IF i = 0 THEN 0
                  ELSE IF i > Len(cuts) THEN Len(bytes)
                  ELSE IF cuts[i] < Len(bytes) THEN cuts[i] ELSE Len(bytes)
    IN  [tag |-> "context0", compound |-> style.compound,
         fragments |->
            IF ~style.compound THEN <<[octetString |-> TRUE, bytes |-> bytes]>>
            ELSE [i \in 1 .. Len(cuts) + 1 |->
                    [octetString |-> TRUE, bytes |-> SubSeq(bytes, Cut(i - 1) + 1, Cut(i))]]]

\* The ways in which the same message may be written.
Styles ==
    {style \in [compound : BOOLEAN, cuts : Seq(Nat), parameters : {Absent, "null"},
                label : {Absent, "pSpecified"}] :
        \A i, j \in DOMAIN style.cuts : i < j => style.cuts[i] <= style.cuts[j]}

CiphertextForRecipient(publicKey, data, style) ==
    [extra |-> FALSE, type |-> "envelopedData", version |-> 2,
     recipients |-> <<
        [extra |-> FALSE, version |-> 2, identifier |-> "ski",
         algorithm |->
            [oid |-> "rsaes-oaep", extra |-> FALSE,
             parameters |->
                [extra |-> FALSE, hash |-> SHA256(style.parameters),
                 mgf |-> [oid |-> "mgf1", extra |-> FALSE,
                          parameters |-> SHA256(style.parameters)],
                 source |-> IF style.label = Absent THEN NoAlgorithm
                            ELSE [oid |-> "pSpecified", parameters |-> <<>>, extra |-> FALSE]]],
         key |-> [empty |-> FALSE, for |-> publicKey, hash |-> "sha256", key |-> "cek", size |-> KeySize]]>>,
     content |->
        [extra |-> FALSE, type |-> "data",
         algorithm |-> [oid |-> "aes256-CBC", extra |-> FALSE,
                        parameters |-> [octetString |-> TRUE, bytes |-> IV]],
         body |-> Body(Seal("cek", IV, PadPKCS7(data)), style)]]
=============================================================================
