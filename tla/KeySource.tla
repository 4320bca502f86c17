----------------------------- MODULE KeySource -----------------------------
(***************************************************************************)
(* Key sources, Ready states and the replies they give: the data that      *)
(* Initialize requests and responses carry between host and enclave        *)
(* (internal/enclave/service/enclave).                                     *)
(*                                                                         *)
(* A private key, its public key and the envelope that wraps it are one    *)
(* value: generateEnvelopeCandidate wraps every key exactly once.  A       *)
(* fingerprint is its key source: SHA-256 over length-prefixed fields is   *)
(* taken to be injective.                                                  *)
(***************************************************************************)
CONSTANTS Keys,         \* private keys
          Algorithms,
          AlgOf,        \* the algorithm of each key
          RunErrors,    \* status codes a failing key transaction ends with
          None

ASSUME SourceAssumption ==
    /\ AlgOf \in [Keys -> Algorithms]
    /\ None \notin Keys
    /\ RunErrors \cap {"OK", "FailedPrecondition", "ContextEnded"} = {}

\* The two key sources of an InitializeRequest.
GenerateNew(a) == [kind |-> "generate_new", alg |-> a, env |-> None]
ExistingKey(k) == [kind |-> "existing_key", alg |-> AlgOf[k], env |-> k]

Sources == [kind : {"generate_new", "existing_key"}, alg : Algorithms,
            env : Keys \cup {None}]

\* readyState: the fingerprint it was built for, its key, and whether its
\* cached response carries the envelope of a key generated by this attempt.
ReadyStates == [source : Sources, key : Keys, generated : BOOLEAN]

ASSUME NoneAssumption == None \notin Sources \cup ReadyStates

\* The replies of the enclave: a status code, a key and an envelope.
Codes == RunErrors \cup {"OK", "FailedPrecondition", "ContextEnded",
                         "InvalidArgument", "Internal", "DeadlineExceeded"}
Replies == [code : Codes, key : Keys \cup {None}, env : Keys \cup {None}]
Error(code) == [code |-> code, key |-> None, env |-> None]

\* Seeded bug: the replayed response keeps its envelope.
ResponseKeepsEnvelope(state, s) ==
    IF state.source = s \/ (state.generated /\ s = ExistingKey(state.key))
    THEN [code |-> "OK", key |-> state.key,
          env |-> IF state.generated THEN state.key ELSE None]
    ELSE Error("FailedPrecondition")

\* Seeded bug: the fingerprint of the generated envelope is not remembered.
ResponseForgetsEnvelope(state, s) ==
    IF state.source = s
    THEN [code |-> "OK", key |-> state.key,
          env |-> IF state.generated THEN state.key ELSE None]
    ELSE Error("FailedPrecondition")

\* responseForFingerprint: the source the state was built for gets the cached
\* response, the envelope of the generated key gets it without the envelope,
\* any other source is refused.
ResponseFor(state, s) ==
    IF state.source = s
    THEN [code |-> "OK", key |-> state.key,
          env |-> IF state.generated THEN state.key ELSE None]
    ELSE IF state.generated /\ s = ExistingKey(state.key)
    THEN [code |-> "OK", key |-> state.key, env |-> None]
    ELSE Error("FailedPrecondition")
=============================================================================
