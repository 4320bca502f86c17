---------------------------- MODULE KeyLifecycle ----------------------------
(***************************************************************************)
(* The life of one signing key across crashes: the host, its enclave and   *)
(* the secret that stores the key's envelope.                              *)
(*                                                                         *)
(* A starting host reads the secret, has the enclave recover the key or    *)
(* generate one, stores the envelope of a generated key, and then serves.  *)
(* Any failure ends the host process; a supervisor starts it again, with   *)
(* the same or another algorithm configured.  Either side may crash, and   *)
(* requests and replies may be lost, at any moment.                        *)
(*                                                                         *)
(* The enclave is what InitGate implements, one atomic step per request.   *)
(* Its answer reaches the host in the step that gives it: an answer lost,  *)
(* or late, is an RPC that failed (RpcFails).                              *)
(*                                                                         *)
(* Assumed: one host process at a time owns a secret, and a write that a   *)
(* host has sent is applied, or lost, before its successor reads.          *)
(***************************************************************************)
EXTENDS KeySource, Naturals

CONSTANTS Deployments,  \* whether docker/run.sh ends the enclave with the host
          Configs       \* the algorithms a host may be configured with

ASSUME ConfigsAssumption == Deployments \subseteq BOOLEAN /\ Configs \subseteq Algorithms

\* The stored header; those of older releases name no algorithm.
Secrets == [key : Keys, tagged : BOOLEAN]

ASSUME NoSecretAssumption == None \notin Secrets \cup Algorithms

InitRetryAttempts == 3
Retryable == {"Unauthenticated", "Unavailable", "DeadlineExceeded"}

VARIABLES
    secret,     \* Secrets Manager: the stored header, or None
    host,       \* the host process: where it stands, its configured
                \*   algorithm, the key source it asks for, the attempts it
                \*   made and the key it stores or serves
    enclave,    \* the enclave process: the Ready state, the source of the
                \*   running attempt, sources of requests given up by a host
                \*   that may still start one, and whether the attestation
                \*   document of the Ready state has expired
    seen,       \* keys that clients were shown, by public key or signature
    calm,       \* from here on nothing crashes, fails or expires
    colocated   \* the deployment: the enclave runs, and ends, with the host

vars == <<secret, host, enclave, seen, calm, colocated>>

Down == [pc |-> "down", alg |-> None, src |-> None, tries |-> 0, key |-> None]

Empty == [up |-> TRUE, ready |-> None, attempt |-> None, late |-> {}, stale |-> FALSE]
Off == [Empty EXCEPT !.up = FALSE]

HostStates == [pc : {"down", "get", "call", "await", "putting", "serving"},
               alg : Configs \cup {None}, src : Sources \cup {None},
               tries : 0..InitRetryAttempts, key : Keys \cup {None}]

EnclaveStates == [up : BOOLEAN, ready : ReadyStates \cup {None},
                  attempt : Sources \cup {None}, late : SUBSET Sources,
                  stale : BOOLEAN]

TypeOK ==
    /\ secret \in Secrets \cup {None}
    /\ host \in HostStates
    /\ enclave \in EnclaveStates
    /\ seen \subseteq Keys
    /\ calm \in BOOLEAN
    /\ colocated \in Deployments

Init ==
    /\ colocated \in Deployments
    /\ secret \in Secrets \cup {None}
    /\ host = Down
    /\ enclave = IF colocated THEN Off ELSE Empty
    /\ seen = {}
    /\ calm = FALSE
-----------------------------------------------------------------------------
(* How a host ends, and what it does with the answer to Initialize *)

\* The host process ends while the enclave is in state e.
Exit(e) ==
    /\ host' = Down
    /\ enclave' = IF colocated THEN Off ELSE e

\* Seeded bug: one attempt too many.
RetriedOnceMore(r) == r.code \in Retryable /\ host.tries <= InitRetryAttempts

Retried(r) == r.code \in Retryable /\ host.tries < InitRetryAttempts

\* A successful response is used if its document has not expired and it holds
\* an envelope exactly when a key was to be generated.
Accepted(r, stale) ==
    /\ r.code = "OK"
    /\ ~stale
    /\ (r.env # None) <=> (host.src.kind = "generate_new")
    /\ r.env # None => AlgOf[r.env] = host.alg

\* Seeded bug: a generated key is served before it is stored.
UseServesFirst(r) == host' = [host EXCEPT !.pc = "serving", !.key = r.key]

\* An accepted response: a generated key has to be stored first.
Use(r) == host' = [host EXCEPT !.pc = IF r.env = None THEN "serving" ELSE "putting",
                               !.key = r.key]

\* Initialize answers r while the enclave is in state e.
HostGets(r, e) ==
    \/ Accepted(r, e.stale) /\ Use(r) /\ enclave' = e
    \/ Retried(r) /\ enclave' = e
       /\ host' = [host EXCEPT !.pc = "call", !.tries = @ + 1]
    \/ ~Accepted(r, e.stale) /\ ~Retried(r) /\ Exit(e)

\* The enclave, after the host gave its request up: the handler may be on its
\* way to the gate, where it starts an attempt of its own.
Abandoned ==
    {enclave} \cup IF host.pc = "call" /\ enclave.up
                   THEN {[enclave EXCEPT !.late = @ \cup {host.src}]} ELSE {}
-----------------------------------------------------------------------------
(* The host *)

\* A supervisor starts the host; the launcher starts the enclave before it.
Start(a) ==
    /\ host.pc = "down"
    /\ host' = [pc |-> "get", alg |-> a, src |-> None, tries |-> 0, key |-> None]
    /\ enclave' = IF colocated THEN Empty ELSE enclave
    /\ UNCHANGED <<secret, seen, calm, colocated>>

Call(s) ==
    /\ host' = [host EXCEPT !.pc = "call", !.src = s, !.tries = 1]
    /\ UNCHANGED enclave

\* Seeded bug: a secret that cannot be read is taken for a missing one.
GetSecretErrorIsMissing ==
    /\ host.pc = "get"
    /\ \/ /\ secret = None \/ ~calm
          /\ Call(GenerateNew(host.alg))
       \/ /\ secret # None
          /\ Call([kind |-> "existing_key", alg |-> host.alg, env |-> secret.key])
    /\ UNCHANGED <<secret, seen, calm, colocated>>

\* Generate when there is no secret; otherwise recover the stored key, unless
\* it was stored for another algorithm.
GetSecret ==
    /\ host.pc = "get"
    /\ \/ /\ secret = None
          /\ Call(GenerateNew(host.alg))
       \/ /\ secret # None
          /\ secret.tagged => AlgOf[secret.key] = host.alg
          /\ Call([kind |-> "existing_key", alg |-> host.alg, env |-> secret.key])
       \/ /\ secret # None
          /\ secret.tagged /\ AlgOf[secret.key] # host.alg
          /\ Exit(enclave)
    /\ UNCHANGED <<secret, seen, calm, colocated>>

\* The request reaches the enclave: answered from the Ready state, or waiting
\* for the attempt it starts or joins.
Initialize ==
    /\ host.pc = "call" /\ enclave.up
    /\ \/ /\ enclave.ready # None
          /\ HostGets(ResponseFor(enclave.ready, host.src), enclave)
       \/ /\ enclave.ready = None
          /\ host' = [host EXCEPT !.pc = "await"]
          /\ enclave' = IF enclave.attempt = None
                        THEN [enclave EXCEPT !.attempt = host.src] ELSE enclave
    /\ UNCHANGED <<secret, seen, calm, colocated>>

\* The RPC fails: no connection, a lost message, or its deadline, which passes
\* also when the enclave has crashed since.
RpcFails(code) ==
    /\ host.pc \in {"call", "await"}
    /\ ~calm \/ ~enclave.up \/ (host.pc = "await" /\ enclave.attempt = None)
    /\ code \in {"Unavailable", "DeadlineExceeded"}
    /\ \E e \in Abandoned : HostGets(Error(code), e)
    /\ UNCHANGED <<secret, seen, calm, colocated>>

\* The secret or credentials cannot be read, the startup budget runs out, or
\* the process crashes or is told to stop.
HostStops ==
    /\ host.pc \notin {"down", "putting"} /\ ~calm
    /\ \E e \in Abandoned : Exit(e)
    /\ UNCHANGED <<secret, seen, calm, colocated>>

\* Secrets Manager stores the header and says so.
PutSecret ==
    /\ host.pc = "putting"
    /\ secret' = [key |-> host.key, tagged |-> TRUE]
    /\ host' = [host EXCEPT !.pc = "serving"]
    /\ UNCHANGED <<enclave, seen, calm, colocated>>

\* Update fails or the host crashes meanwhile; the write may have happened.
PutFails ==
    /\ host.pc = "putting" /\ ~calm
    /\ secret' \in {secret, [key |-> host.key, tagged |-> TRUE]}
    /\ Exit(enclave)
    /\ UNCHANGED <<seen, calm, colocated>>

\* PublicKey shows the key the host holds, Sign a signature by the enclave's.
ServeClient ==
    /\ host.pc = "serving"
    /\ \/ seen' = seen \cup {host.key}
       \/ enclave.ready # None /\ seen' = seen \cup {enclave.ready.key}
    /\ UNCHANGED <<secret, host, enclave, calm, colocated>>
-----------------------------------------------------------------------------
(* The enclave *)

\* Keys that somebody holds; a new key is none of these.
Known ==
    seen \cup ({host.key} \ {None})
         \cup (IF secret = None THEN {} ELSE {secret.key})
         \cup (IF enclave.ready = None THEN {} ELSE {enclave.ready.key})

\* The host, if it waits for the attempt, gets answer r to its own request.
AttemptEnds(r, e) ==
    /\ \/ host.pc = "await" /\ HostGets(r, e)
       \/ host.pc # "await" /\ enclave' = e /\ UNCHANGED host
    /\ UNCHANGED <<secret, seen, calm, colocated>>

AttemptSucceeds(k) ==
    /\ enclave.attempt # None
    /\ LET s == enclave.attempt
           state == [source |-> s, key |-> k, generated |-> s.kind = "generate_new"]
       IN /\ s.alg = AlgOf[k]
          /\ \/ s.kind = "existing_key" /\ k = s.env
             \/ s.kind = "generate_new" /\ k \notin Known
          /\ AttemptEnds(IF host.pc = "await" THEN ResponseFor(state, host.src) ELSE None,
                         [enclave EXCEPT !.ready = state, !.attempt = None,
                                         !.stale = FALSE])

\* A key does not deserialize under another algorithm; KMS or the attestation
\* fails, or the attempt runs out of time.
AttemptFails(code) ==
    /\ enclave.attempt # None
    /\ \/ /\ enclave.attempt.kind = "existing_key"
          /\ AlgOf[enclave.attempt.env] # enclave.attempt.alg
          /\ code = "Internal"
       \/ ~calm /\ code \in RunErrors \cup {"DeadlineExceeded"}
    /\ AttemptEnds(Error(code), [enclave EXCEPT !.attempt = None])

\* A request its host gave up reaches the gate after all.
LateRequest(s) ==
    /\ s \in enclave.late
    /\ enclave' = [enclave EXCEPT !.late = @ \ {s},
                     !.attempt = IF enclave.ready = None /\ @ = None THEN s ELSE @]
    /\ UNCHANGED <<secret, host, seen, calm, colocated>>

EnclaveCrash ==
    /\ enclave.up /\ ~calm
    /\ enclave' = Off
    /\ UNCHANGED <<secret, host, seen, calm, colocated>>

\* An enclave that is not tied to the host is started again on its own.
EnclaveStart ==
    /\ ~colocated /\ ~enclave.up
    /\ enclave' = Empty
    /\ UNCHANGED <<secret, host, seen, calm, colocated>>

\* The certificate in the document of the Ready state expires.
DocumentExpires ==
    /\ enclave.ready # None /\ ~enclave.stale /\ ~calm
    /\ enclave' = [enclave EXCEPT !.stale = TRUE]
    /\ UNCHANGED <<secret, host, seen, calm, colocated>>

FaultsEnd == ~calm /\ calm' = TRUE /\ UNCHANGED <<secret, host, enclave, seen, colocated>>
-----------------------------------------------------------------------------
ErrorCodes == RunErrors \cup {"Internal", "Unavailable", "DeadlineExceeded"}

HostStep ==
    \/ \E a \in Configs : Start(a)
    \/ GetSecret \/ Initialize \/ HostStops \/ PutSecret \/ PutFails \/ ServeClient
    \/ \E code \in ErrorCodes : RpcFails(code)

EnclaveStep ==
    \/ \E k \in Keys : AttemptSucceeds(k)
    \/ \E code \in ErrorCodes : AttemptFails(code)
    \/ \E s \in enclave.late : LateRequest(s)
    \/ EnclaveCrash \/ EnclaveStart \/ DocumentExpires

Next == HostStep \/ EnclaveStep \/ FaultsEnd

\* The supervisor restarts the host, and processes, AWS and the enclave do
\* what was asked of them, or fail; nothing says when, or that, faults end.
Fairness ==
    /\ WF_vars(\E a \in Configs : Start(a))
    /\ WF_vars(GetSecret)
    /\ WF_vars(Initialize \/ \E code \in ErrorCodes : RpcFails(code))
    /\ WF_vars(PutSecret \/ PutFails)
    /\ WF_vars(\/ \E k \in Keys : AttemptSucceeds(k)
               \/ \E code \in ErrorCodes : AttemptFails(code))
    /\ WF_vars(EnclaveStart)

Spec == Init /\ [][Next]_vars
FairSpec == Spec /\ Fairness
-----------------------------------------------------------------------------
(* Properties *)

StoredKey == IF secret = None THEN None ELSE secret.key

\* Whatever crashed between generating, returning, storing and reading a key:
\* an enclave that holds a key while one is stored holds the stored key.
EnclaveHoldsStoredKey ==
    enclave.ready # None /\ secret # None => enclave.ready.key = secret.key

\* Only a host that found no secret writes one: once a key is stored, restarts
\* and redeployments never call PutSecretValue (docs/architecture.md:1015).
WritesMissingSecretOnly == host.pc = "putting" => secret = None

\* Clients see one key, and only once it is stored, and the stored key is never
\* replaced: the secret implements the write-once key cell.
Cell == INSTANCE KeyCell
            WITH cell <- StoredKey, told <- seen, Found <- Keys \cup {None}
ImplementsKeyCell == Cell!Spec

CanSign == host.pc = "serving" /\ enclave.ready # None

Starting == host.pc \in {"down", "get", "call"}

\* The host is configured for another algorithm than that of a key that is
\* stored, or that the enclave holds.
Misconfigured ==
    \/ secret # None /\ host.alg \notin {None, AlgOf[secret.key]}
    \/ enclave.ready # None /\ host.alg \notin {None, AlgOf[enclave.ready.key]}

\* Once faults end, a host that is down or starting comes to serve clients,
\* with an enclave that can sign, whatever was left half done before; unless an
\* enclave that outlives its hosts then holds an expired document.
Recovers ==
    calm /\ Starting /\ (colocated \/ ~enclave.stale) ~> CanSign \/ Misconfigured

\* The same without the exception: "On a later startup, the host sends it as
\* existing_key in Initialize, and the enclave recovers the key"
\* (docs/architecture.md:1205).
AlwaysRecovers == calm /\ Starting ~> CanSign \/ Misconfigured
=============================================================================
