---------------------------- MODULE KeyEnvelope -----------------------------
(***************************************************************************)
(* The way of a signing key through an envelope: one enclave generates it  *)
(* under a data key of KMS, another one, with an RSA key of its own and    *)
(* its own list of KMS keys, recovers it (service/enclave/envelope.go,     *)
(* awskms.go, provider/enclave/enclave.go).  An error is Failed; which one *)
(* is the subject of EnclaveInit.                                          *)
(***************************************************************************)
EXTENDS KmsRecipient

CONSTANTS KeyArns,  \* ARNs of KMS keys
          Failed

Algorithms == {"bls", "ed25519"}
Unspecified == "unspecified"
-----------------------------------------------------------------------------
(* NSM and KMS *)

\* How a request to NSM can go.
NsmOutcomes == {"document", "noSession", "sendFails", "error", "empty"}

\* A KMS key: whether its region answers, and the material it is a replica of.
KmsKeys == [healthy : BOOLEAN, material : KeyArns \cup {"shared"}]

\* KMS gives the plaintext only to those who do not ask for a recipient's.
Response(recipient, dataKey, blob, style) ==
    [plaintext |-> IF recipient = Failed THEN dataKey ELSE <<>>, blob |-> blob,
     forRecipient |-> IF recipient = Failed THEN Failed
                      ELSE CiphertextForRecipient(recipient.publicKey, dataKey, style)]
-----------------------------------------------------------------------------
(* What can fail does not have Failed among its results. *)

AttestationDocuments == [publicKey : STRING]
Blobs == [material : KeyArns \cup {"shared"}, dataKey : Seq(Nat)]
Responses == [plaintext : Seq(Nat), blob : Blobs, forRecipient : ContentInfo \cup {Failed}]

\* provider: its clients are known by their ARNs; the recipient is nil in development.
Providers == [arns : Seq(KeyArns), recipient : AttestationDocuments \cup {Failed}]

SecretEnvelopes ==
    [algorithm : Algorithms, kmsEncryptedDataKey : Blobs, nonce : {"nonce"},
     encryptedPrivateKey : Seq([key : Seq(Nat), iv : {"nonce"}, byte : Nat])]

ASSUME FailedAssumption ==
    /\ Failed \notin Seq(Nat) /\ Failed \notin AttestationDocuments /\ Failed \notin Providers
    /\ Failed \notin ContentInfo /\ Failed \notin Responses /\ Failed \notin SecretEnvelopes
-----------------------------------------------------------------------------
(* provider/enclave/enclave.go, awskms.go *)

RequestAttestation(nsm, claim) == IF nsm = "document" THEN claim ELSE Failed

DecryptKMSEnvelopedKey(enclave, ciphertext) ==
    IF ciphertext = Failed THEN ErrDecrypt ELSE Decrypt(enclave.key, ciphertext)

\* The document is for the enclave's own RSA key.
AttestKMSRecipient(enclave) == RequestAttestation(enclave.nsm, [publicKey |-> enclave.key])

NewProvider(arns, recipient) ==
    IF arns = <<>> THEN Failed ELSE [arns |-> arns, recipient |-> recipient]

NewWithAttestation(arns, document) ==
    IF document = Failed THEN Failed ELSE NewProvider(arns, document)

NewForDevelopment(arns) == NewProvider(arns, Failed)

\* newAWSKMSFactory: each provider has the enclave's key attested anew.
NewAWSKMS(enclave, arns) ==
    IF enclave.nitro THEN NewWithAttestation(arns, AttestKMSRecipient(enclave))
    ELSE NewForDevelopment(arns)

\* Seeded bug: only the first region is asked.
CallFirst(pvd, fn) == fn[pvd.arns[1]]

\* One region after the other, up to the first that succeeds.  fn: the answer of
\* each key's region.
Call(pvd, fn) ==
    LET answers == {i \in DOMAIN pvd.arns : fn[pvd.arns[i]] # Failed}
    IN  IF answers = {} THEN Failed
        ELSE fn[pvd.arns[CHOOSE i \in answers : \A j \in answers : i <= j]]

\* KMS, behind one client.
GenerateDataKey(pvd, kms, dataKey, style) ==
    Call(pvd, [arn \in DOMAIN kms |->
        IF ~kms[arn].healthy THEN Failed
        ELSE Response(pvd.recipient, dataKey,
                      [material |-> kms[arn].material, dataKey |-> dataKey], style)])

DecryptDataKeyBlob(pvd, kms, blob, style) ==
    Call(pvd, [arn \in DOMAIN kms |->
        IF ~kms[arn].healthy \/ kms[arn].material # blob.material THEN Failed
        ELSE Response(pvd.recipient, blob.dataKey, blob, style)])
-----------------------------------------------------------------------------
(* service/enclave/envelope.go *)

\* The data key a response holds for this enclave; Deserialize looks at its size.
DataKey(enclave, response) ==
    LET bytes == IF enclave.nitro THEN DecryptKMSEnvelopedKey(enclave, response.forRecipient)
                 ELSE response.plaintext
    IN  IF bytes = ErrDecrypt THEN Failed
        ELSE IF Len(bytes) # KeySize THEN Failed ELSE bytes

GenerateEnvelopeCandidate(enclave, pvd, kms, algorithm, dataKey, secret, style) ==
    IF algorithm \notin Algorithms \/ pvd = Failed THEN Failed
    ELSE LET response == GenerateDataKey(pvd, kms, dataKey, style) IN
         IF response = Failed THEN Failed
         ELSE IF DataKey(enclave, response) = Failed THEN Failed
         ELSE [algorithm |-> algorithm, kmsEncryptedDataKey |-> response.blob,
               encryptedPrivateKey |-> Seal(DataKey(enclave, response), "nonce", secret),
               nonce |-> "nonce"]

LoadKeyCandidate(enclave, pvd, kms, envelope, style) ==
    IF envelope.algorithm \notin Algorithms \/ pvd = Failed THEN Failed
    ELSE LET response == DecryptDataKeyBlob(pvd, kms, envelope.kmsEncryptedDataKey, style) IN
         IF response = Failed THEN Failed
         ELSE IF DataKey(enclave, response) = Failed THEN Failed
         ELSE LET secret == Open(DataKey(enclave, response), envelope.nonce,
                                 envelope.encryptedPrivateKey)
              IN  IF \E i \in DOMAIN secret : secret[i] = Garbage THEN Failed
                  ELSE [algorithm |-> envelope.algorithm, secret |-> secret]
=============================================================================
