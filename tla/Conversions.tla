---------------------------- MODULE Conversions -----------------------------
(***************************************************************************)
(* What the pure parts of the code compute: KmsRoute, BerToDer,            *)
(* KmsRecipient, KeyEnvelope, ClientConfig and AttestationDocument, each   *)
(* evaluated on any one input and compared with a reference that is        *)
(* defined in another way.  The inputs of a kind are any set of them:      *)
(* bounded ones for TLC, all of them in ConversionProofs.                  *)
(***************************************************************************)
EXTENDS KmsRoute, BerToDer, KeyEnvelope, ClientConfig, AttestationDocument

CONSTANTS RouteInputs,      \* both sides' configurations
          BerInputs,        \* alphabets, and the lengths up to which their strings are read
          LongLengths,      \* of the contents of objects that are nested in each other
          MessageInputs,    \* what is put into a CiphertextForRecipient
          PaddedInputs,     \* what decryption leaves to be unpadded
          EnvelopeInputs,   \* two enclaves, and how NSM and KMS answer them
          ClientInputs,     \* methods and configurations of the gRPC client
          DocumentInputs    \* attestation documents, and when they are looked at

VARIABLES input,    \* what the code is given; its field `of` says which code
          output    \* what it makes of it

vars == <<input, output>>

Init == input = [of |-> "none"] /\ output = "none"

Evaluate(of, in, out) ==
    /\ input' = [of |-> of, in |-> in]
    /\ output' = out
-----------------------------------------------------------------------------
(* Routes *)

RouteInput ==
    [arns : Seq(Arns), credentials : Regions, localstack : BOOLEAN, basePort : Nat,
     endpoint : [host : STRING, port : Nat],
     hostArns : Seq(Arns), hostLocalstack : BOOLEAN, transport : {"tcp", "vsock"}]

ASSUME RouteInputAssumption == RouteInputs \subseteq RouteInput

\* What an enclave and a host that have both accepted their configuration do with
\* each client's route; <<>> otherwise.
Routed(in) ==
    IF /\ ValidateAwsproxyConfig(in.endpoint, in.basePort)
       /\ ValidateRegions(in.credentials, in.arns)
       /\ ResolverAccepts(in.hostArns, in.hostLocalstack, in.transport)
    THEN LET clients == Clients(in.arns, in.endpoint, in.localstack) IN
         [i \in DOMAIN clients |->
            [client |-> clients[i],
             to |-> Resolve(Resolver(in.hostArns, in.hostLocalstack), clients[i].route)]]
    ELSE <<>>

EvaluateRoutes == \E in \in RouteInputs : Evaluate("route", in, Routed(in))

\* Two configurations that were checked apart agree: every ARN's client dials the
\* proxy's KMS listener and is connected to the KMS of that ARN's region,
\* the one whose certificate it demands, exactly if the host has an ARN
\* there; or, if the host says so, to LocalStack (routing.go, awskms.go).
RouteAgrees ==
    input.of = "route" =>
        \A i \in DOMAIN output :
            LET region == input.in.arns[i].region
                step == output[i]
            IN  /\ step.client.dials.port = ServicePort(input.in.basePort, "kms")
                /\ step.client.verifies \in {None, KmsHost(region)}
                /\ step.to = IF input.in.hostLocalstack THEN TcpLocalstackEndpoint
                             ELSE IF \E j \in DOMAIN input.in.hostArns :
                                        input.in.hostArns[j].region = region
                             THEN [host |-> KmsHost(region), port |-> 443] ELSE None
-----------------------------------------------------------------------------
(* BER *)

ASSUME BerInputAssumption ==
    /\ BerInputs \subseteq [alphabet : SUBSET (0 .. 255), most : Nat]
    /\ LongLengths \subseteq Nat

\* The objects of each alphabet, by their length.
Readable == [b \in BerInputs |-> Grammar(b.alphabet, b.most)]

\* Long objects, inside each other in all ways.
Longs == {Primitive(<<4>>, [i \in 1 .. n |-> 7]) : n \in LongLengths}
Wrap(objects) == {Definite(<<48>>, o) : o \in objects} \cup {Indefinite(<<48>>, o) : o \in objects}
Nested == Longs \cup Wrap(Longs) \cup Wrap(Wrap(Longs)) \cup Wrap(Wrap(Wrap(Longs)))
          \cup {Definite(<<48>>, Join(a, b)) : a, b \in Wrap(Longs)}

DerOf(object) ==
    IF /\ object.depth <= MaxBERDepth
       /\ Len(object.ber) <= MaxBERSize /\ object.size <= MaxBERSize
    THEN [ok |-> TRUE, der |-> object.der] ELSE Invalid

EvaluateBer ==
    \/ \E b \in BerInputs : \E n \in 0 .. b.most : \E string \in [1 .. n -> b.alphabet] :
          Evaluate("ber", [bound |-> b, string |-> string], Convert(string))
    \/ \E object \in Nested : Evaluate("nested", object, Convert(object.ber))

\* The reader accepts exactly the strings of the grammar, whole, not too deep and
\* not too long in either form, and makes the DER of the same value of them (berToDER).
BerExact ==
    /\ input.of = "nested" => output = DerOf(input.in)
    /\ input.of = "ber" =>
        LET string == input.in.string
            objects == {o \in Readable[input.in.bound][Len(string)].objects : o.ber = string}
        IN  output = IF objects = {} THEN Invalid ELSE DerOf(CHOOSE o \in objects : TRUE)
-----------------------------------------------------------------------------
(* CMS *)

ASSUME MessageInputAssumption ==
    /\ MessageInputs \subseteq [data : Seq(Nat), style : Styles]
    /\ PaddedInputs \subseteq Seq(Nat)

Message(in) == CiphertextForRecipient("rsa1", in.data, in.style)

\* A message, a recipient, OAEP parameters and a body with one part that KMS does
\* not write.
OtherEnvelopes(m) ==
    {[m EXCEPT !.extra = TRUE], [m EXCEPT !.type = "other"], [m EXCEPT !.version = 0],
     [m EXCEPT !.recipients = <<>>], [m EXCEPT !.recipients = @ \o @],
     [m EXCEPT !.content.extra = TRUE], [m EXCEPT !.content.type = "envelopedData"],
     [m EXCEPT !.content.algorithm.extra = TRUE],
     [m EXCEPT !.content.algorithm.oid = "other"],
     [m EXCEPT !.content.algorithm.parameters.octetString = FALSE],
     [m EXCEPT !.content.algorithm.parameters.bytes = Append(IV, 0)]}

OtherRecipients(r) ==
    {[r EXCEPT !.extra = TRUE], [r EXCEPT !.version = 0],
     [r EXCEPT !.identifier = "empty"], [r EXCEPT !.key.empty = TRUE],
     [r EXCEPT !.key.for = "rsa2"], [r EXCEPT !.key.hash = "other"],
     [r EXCEPT !.key.size = KeySize - 1],
     [r EXCEPT !.algorithm.extra = TRUE], [r EXCEPT !.algorithm.oid = "other"],
     [r EXCEPT !.algorithm.parameters = Absent]}

OtherOAEPs(p) ==
    {[p EXCEPT !.extra = TRUE], [p EXCEPT !.hash = NoAlgorithm], [p EXCEPT !.hash.oid = "other"],
     [p EXCEPT !.hash.parameters = "other"], [p EXCEPT !.hash.extra = TRUE],
     [p EXCEPT !.mgf = NoAlgorithm], [p EXCEPT !.mgf.parameters = Absent],
     [p EXCEPT !.mgf.parameters.oid = "other"], [p EXCEPT !.mgf.extra = TRUE],
     [p EXCEPT !.source.oid = "other"],
     [p EXCEPT !.source = [oid |-> "pSpecified", parameters |-> <<>>, extra |-> TRUE]],
     [p EXCEPT !.source = [oid |-> "pSpecified", parameters |-> <<1>>, extra |-> FALSE]],
     [p EXCEPT !.source = [oid |-> "pSpecified", parameters |-> Absent, extra |-> FALSE]]}

OtherBodies(in, b) ==
    {[b EXCEPT !.tag = "other"], [b EXCEPT !.fragments = <<>>],
     Body(Tail(Seal("cek", IV, PadPKCS7(in.data))), in.style)}
    \cup {[b EXCEPT !.fragments[i].octetString = FALSE] :
             i \in IF b.compound THEN DOMAIN b.fragments ELSE {}}

Deviations(in) ==
    LET m == Message(in)
        r == m.recipients[1]
    IN  OtherEnvelopes(m)
        \cup {[m EXCEPT !.recipients = <<x>>] : x \in OtherRecipients(r)}
        \cup {[m EXCEPT !.recipients = <<[r EXCEPT !.algorithm.parameters = x]>>] :
                 x \in OtherOAEPs(r.algorithm.parameters)}
        \cup {[m EXCEPT !.content.body = x] : x \in OtherBodies(in, m.content.body)}

EvaluateRecipient ==
    \/ \E in \in MessageInputs : Evaluate("message", in, Decrypt("rsa1", Message(in)))
    \/ \E in \in MessageInputs : \E m \in Deviations(in) :
          Evaluate("deviation", m, Decrypt("rsa1", m))
    \/ \E data \in PaddedInputs : Evaluate("padded", data, UnpadPKCS7(data))

\* What KMS writes, in whichever of the ways BER, CMS and OAEP leave open, is
\* opened to what was put in; with any one part changed, nothing is; and
\* the constant-time unpadding removes a padding, all of it and nothing else
\* (parse, validateOAEP, unpadPKCS7).
RecipientExact ==
    /\ input.of = "message" => output = input.in.data
    /\ input.of = "deviation" => output = ErrDecrypt
    /\ input.of = "padded" =>
        LET padded == {k \in 0 .. Len(input.in) : PadPKCS7(SubSeq(input.in, 1, k)) = input.in}
        IN  output = IF padded = {} THEN ErrDecrypt
                     ELSE SubSeq(input.in, 1, CHOOSE k \in padded : TRUE)
-----------------------------------------------------------------------------
(* Envelopes *)

Enclaves ==
    [key : STRING, nitro : {TRUE}, nsm : NsmOutcomes]
    \cup [key : STRING, nitro : {FALSE}, nsm : {"document"}]

EnvelopeInput ==
    [first : Enclaves, firstArns : Seq(KeyArns), up1 : SUBSET KeyArns, style1 : Styles,
     second : Enclaves, secondArns : Seq(KeyArns), up2 : SUBSET KeyArns, style2 : Styles,
     shared : SUBSET KeyArns, algorithm : Algorithms \cup {Unspecified},
     dataKey : [1 .. KeySize -> Nat], secret : Seq(Nat)]

ASSUME EnvelopeInputAssumption == EnvelopeInputs \subseteq EnvelopeInput

Kms(up, shared) ==
    [a \in KeyArns |-> [healthy |-> a \in up,
                        material |-> IF a \in shared THEN "shared" ELSE a]]

\* What the second enclave recovers of what the first one generated.
Recovered(in) ==
    LET envelope ==
            GenerateEnvelopeCandidate(in.first, NewAWSKMS(in.first, in.firstArns),
                Kms(in.up1, in.shared), in.algorithm, in.dataKey, in.secret, in.style1)
    IN  IF envelope = Failed THEN Failed
        ELSE LoadKeyCandidate(in.second, NewAWSKMS(in.second, in.secondArns),
                Kms(in.up2, in.shared), envelope, in.style2)

EvaluateEnvelope == \E in \in EnvelopeInputs : Evaluate("envelope", in, Recovered(in))

\* A key that one enclave generated is recovered, the same key, by every later
\* one, whatever RSA key, region order and outages either of them has: exactly if
\* the attestations succeed, KMS answers the first somewhere, and answers the
\* second somewhere where the key is a replica of the first one's
\* (generateEnvelopeCandidate, loadKeyCandidate, provider.call).
EnvelopeRecovers ==
    input.of = "envelope" =>
        LET in == input.in
            material(up, a) == Kms(up, in.shared)[a].material
            Reached(arns, up) == {i \in DOMAIN arns : arns[i] \in up}
            sources == Reached(in.firstArns, in.up1)
            source == in.firstArns[CHOOSE i \in sources : \A j \in sources : i <= j]
            possible == /\ in.algorithm \in Algorithms
                        /\ in.first.nsm = "document" /\ in.second.nsm = "document"
                        /\ sources # {}
                        /\ \E i \in Reached(in.secondArns, in.up2) :
                              material(in.up2, in.secondArns[i]) = material(in.up1, source)
        IN  output = IF possible THEN [algorithm |-> in.algorithm, secret |-> in.secret]
                     ELSE Failed
-----------------------------------------------------------------------------
(* Client *)

MethodConfig == [timeout : Int, attempts : Nat]

ASSUME ClientInputAssumption ==
    \A in \in ClientInputs :
        /\ in.method \in RpcMethods
        /\ DOMAIN in.cfg.methods \subseteq RpcMethods \X AllSpellings
        /\ in.cfg \in [methods : [DOMAIN in.cfg.methods -> MethodConfig],
                       requestTimeout : Int, maxAttempts : Nat]

Limits(in) ==
    LET cfg == PinInitializeTransportAttempts(in.cfg) IN
    [timeout |-> TimeoutOf(cfg, in.method), attempts |-> AttemptsOf(cfg, in.method)]

EvaluateClient == \E in \in ClientInputs : Evaluate("client", in, Limits(in))

\* However its key is spelled, and whatever is configured for all methods:
\* Initialize, which is repeated with fresh credentials only, is called once,
\* and within the startup timeout if no other is given; all other limits are the ones
\* documented for MethodConfig (common/grpc/client/config.go:29).  By default, no
\* call is made twice and a Sign takes at most its own limit.
ClientLimits ==
    input.of = "client" =>
        LET in == input.in
            given == {i \in DOMAIN Spellings : <<in.method, Spellings[i]>> \in DOMAIN in.cfg.methods}
            own == in.cfg.methods[<<in.method, Spellings[CHOOSE i \in given : \A j \in given : i <= j]>>]
            global == [timeout |-> IF in.cfg.requestTimeout < 0 THEN 0 ELSE in.cfg.requestTimeout,
                       attempts |-> IF in.cfg.maxAttempts = 0 THEN 1 ELSE in.cfg.maxAttempts]
        IN  /\ in.cfg = DefaultConfig =>
                  output = [timeout |-> IF in.method = "SignMessage" THEN SignDefault
                                        ELSE StartupDefault, attempts |-> 1]
            /\ in.method = "Initialize" => output.attempts = 1
            /\ in.method # "Initialize" =>
                  output.attempts = IF given = {} \/ own.attempts = 0 THEN global.attempts
                                    ELSE own.attempts
            /\ output.timeout =
                  CASE given = {} /\ in.method = "Initialize" -> StartupDefault
                    [] given = {} /\ in.method # "Initialize" -> global.timeout
                    [] given # {} /\ own.timeout = 0 -> global.timeout
                    [] given # {} /\ own.timeout < 0 -> 0
                    [] given # {} /\ own.timeout > 0 -> own.timeout
-----------------------------------------------------------------------------
(* Attestation documents *)

DocumentInput ==
    [document : [tag : STRING, fields : Nat, decodes : BOOLEAN,
                 chain : Seq([parses : BOOLEAN, notBefore : Nat \ {0}, notAfter : Nat \ {0}])],
     now : Nat]

ASSUME DocumentInputAssumption == DocumentInputs \subseteq DocumentInput

EvaluateDocument ==
    \E in \in DocumentInputs :
        Evaluate("document", in, ValidateAt(ParseAttestationValidity(in.document), in.now))

\* The host takes a document to be valid exactly when each certificate of its
\* chain is, and one that does not parse never (parseAttestationValidity).
WindowExact ==
    input.of = "document" =>
        LET document == input.in.document
            now == input.in.now
        IN  output <=>
                /\ document.tag \in {"none", "sign1"} /\ document.fields = 4 /\ document.decodes
                /\ document.chain # <<>>
                /\ \A i \in DOMAIN document.chain :
                      LET c == document.chain[i] IN
                      c.parses /\ c.notBefore <= now /\ now < c.notAfter
-----------------------------------------------------------------------------
Next ==
    /\ input.of = "none"
    /\ \/ EvaluateRoutes \/ EvaluateBer \/ EvaluateRecipient \/ EvaluateEnvelope
       \/ EvaluateClient \/ EvaluateDocument

Spec == Init /\ [][Next]_vars
=============================================================================
