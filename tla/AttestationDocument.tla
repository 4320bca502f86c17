------------------------- MODULE AttestationDocument -------------------------
(***************************************************************************)
(* How long the host takes an attestation document to be valid             *)
(* (service/signer/v1/attestation.go).  A certificate is its window, a     *)
(* document a record of what CBOR decodes of it; a time is a number, and 0 *)
(* is Go's zero time.                                                      *)
(***************************************************************************)
EXTENDS Integers, Sequences

Refused == [notBefore |-> 0, notAfter |-> 0]

\* NSM writes the COSE_Sign1 with its tag or without.
WellFormed(document) ==
    /\ document.tag \in {"none", "sign1"}
    /\ document.fields = 4 /\ document.decodes
    /\ document.chain # <<>>
    /\ \A i \in DOMAIN document.chain : document.chain[i].parses

\* Seeded bug: only the leaf certificate counts.
LeafValidity(document) ==
    IF ~WellFormed(document) THEN Refused
    ELSE [notBefore |-> document.chain[1].notBefore, notAfter |-> document.chain[1].notAfter]

\* chain: the certificate, then the CA bundle.  The zero time of a bound says
\* that no certificate has given it yet.
ParseAttestationValidity(document) ==
    LET narrowed[i \in 0 .. Len(document.chain)] ==
            IF i = 0 THEN [notBefore |-> 0, notAfter |-> 0]
            ELSE LET v == narrowed[i - 1]
                     c == document.chain[i]
                 IN  [notBefore |-> IF v.notBefore = 0 \/ c.notBefore > v.notBefore
                                    THEN c.notBefore ELSE v.notBefore,
                      notAfter |-> IF v.notAfter = 0 \/ c.notAfter < v.notAfter
                                   THEN c.notAfter ELSE v.notAfter]
    IN  IF WellFormed(document) THEN narrowed[Len(document.chain)] ELSE Refused

ValidateAt(validity, now) == validity.notBefore <= now /\ now < validity.notAfter
=============================================================================
