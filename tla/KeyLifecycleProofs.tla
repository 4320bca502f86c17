------------------------- MODULE KeyLifecycleProofs -------------------------
(***************************************************************************)
(* Safety of the key across crashes, for any set of keys and algorithms    *)
(* and for both ways to deploy the enclave.                                *)
(***************************************************************************)
EXTENDS KeyLifecycle, TLAPS

\* A host that read the present secret asks for this source.
ForSecret(s) ==
    IF secret = None THEN s.kind = "generate_new"
    ELSE s.kind = "existing_key" /\ s.env = secret.key

\* The enclave in state e cannot come to hold any other key than a stored one.
EnclaveInv(e) ==
    /\ e \in EnclaveStates
    /\ e.attempt # None => e.ready = None
    /\ e.ready = None => /\ e.attempt # None => ForSecret(e.attempt)
                         /\ \A s \in e.late : ForSecret(s)
    /\ e.ready # None /\ secret # None => e.ready.key = secret.key

\* A host in state h, next to an enclave in state e, knows what is stored; and
\* while it stores a key, no request is on its way to an enclave without one.
HostInv(h, e) ==
    /\ h \in HostStates
    /\ h.pc = "get" => h.alg # None
    /\ h.pc \in {"call", "await"} =>
           h.alg # None /\ h.src # None /\ ForSecret(h.src)
    /\ h.pc = "putting" =>
           /\ secret = None /\ h.key # None
           /\ e.ready # None => e.ready.key = h.key
           /\ e.ready = None => e.attempt = None /\ e.late = {}
    /\ h.pc = "serving" => secret # None /\ h.key = secret.key

SeenInv ==
    /\ secret \in Secrets \cup {None}
    /\ seen \subseteq IF secret = None THEN {} ELSE {secret.key}
    /\ calm \in BOOLEAN /\ colocated \in Deployments

LInv == EnclaveInv(enclave) /\ HostInv(host, enclave) /\ SeenInv
-----------------------------------------------------------------------------
(* Lemmas on the operators *)

\* A response that reports success carries the key of the Ready state, and its
\* envelope or none.
LEMMA ResponseKey ==
    ASSUME NEW state \in ReadyStates, NEW s,
           ResponseFor(state, s).code = "OK"
    PROVE  /\ ResponseFor(state, s).key = state.key
           /\ ResponseFor(state, s).env \in {None, state.key}
<1> QED
  BY DEF ResponseFor, Error

\* What a host writes is a header for the key.
LEMMA HeaderIsSecret ==
    ASSUME NEW k \in Keys
    PROVE  /\ [key |-> k, tagged |-> TRUE] \in Secrets
           /\ [key |-> k, tagged |-> TRUE] # None
<1>1. [key |-> k, tagged |-> TRUE] \in Secrets
  BY Zenon DEF Secrets
<1> QED
  BY <1>1, NoSecretAssumption

\* No enclave, and no state of a new one, disturbs the invariants.
LEMMA FreshEnclave ==
    /\ EnclaveInv(Off) /\ EnclaveInv(Empty)
    /\ Off.ready = None /\ Off.attempt = None /\ Off.late = {}
    /\ Empty.ready = None /\ Empty.attempt = None /\ Empty.late = {}
<1> QED
  BY DEF EnclaveInv, EnclaveStates, Off, Empty

LEMMA DownInv == ASSUME NEW e PROVE HostInv(Down, e)
<1> QED
  BY DEF HostInv, HostStates, Down, InitRetryAttempts

\* A host that exits leaves a state that satisfies the invariant.
LEMMA ExitInv ==
    ASSUME NEW e, EnclaveInv(e), SeenInv, Exit(e), UNCHANGED <<secret, seen, calm, colocated>>
    PROVE  LInv'
<1>1. EnclaveInv(enclave)'
  BY FreshEnclave DEF Exit, EnclaveInv, ForSecret
<1>2. HostInv(host, enclave)'
  BY DownInv DEF Exit, HostInv, ForSecret, Down
<1> QED
  BY <1>1, <1>2 DEF LInv, SeenInv

\* The answer to Initialize, if it reports success, is about the key that the
\* enclave then holds.
LEMMA HostGetsInv ==
    ASSUME LInv, host.pc \in {"call", "await"},
           NEW e, EnclaveInv(e), NEW r,
           r.code = "OK" => /\ e.ready # None
                            /\ r.key = e.ready.key
                            /\ r.env \in {None, e.ready.key},
           HostGets(r, e), UNCHANGED <<secret, seen, calm, colocated>>
    PROVE  LInv'
<1>1. CASE Accepted(r, e.stale) /\ Use(r) /\ enclave' = e
  <2>1. /\ e.ready \in ReadyStates
        /\ r.key = e.ready.key /\ r.key \in Keys /\ r.key # None
    BY <1>1, NoneAssumption, SourceAssumption
    DEF EnclaveInv, EnclaveStates, Accepted, ReadyStates
  <2>2. secret = None <=> r.env # None
    BY <1>1 DEF LInv, HostInv, ForSecret, Accepted
  <2>3. HostInv(host', e)
    <3>1. host' \in HostStates
      BY <1>1, <2>1 DEF LInv, HostInv, HostStates, Use
    <3>2. host'.pc \in {"putting", "serving"} /\ host'.key = r.key
          /\ (host'.pc = "putting" <=> r.env # None)
      BY <1>1 DEF LInv, HostInv, HostStates, Use
    <3>3. secret # None => e.ready.key = secret.key
      BY <2>1, NoneAssumption DEF EnclaveInv
    <3> QED
      BY <2>1, <2>2, <3>1, <3>2, <3>3, NoneAssumption DEF HostInv
  <2> QED
    BY <1>1, <2>3 DEF LInv, EnclaveInv, HostInv, SeenInv, ForSecret
<1>2. CASE Retried(r) /\ enclave' = e
           /\ host' = [host EXCEPT !.pc = "call", !.tries = @ + 1]
  <2>0. host.tries + 1 \in 0..InitRetryAttempts
    BY <1>2 DEF LInv, HostInv, HostStates, Retried, InitRetryAttempts
  <2>1. host' \in HostStates
    BY <1>2, <2>0 DEF LInv, HostInv, HostStates
  <2>2. host'.pc = "call" /\ host'.src = host.src /\ host'.alg = host.alg
    BY <1>2 DEF LInv, HostInv, HostStates
  <2> QED
    BY <1>2, <2>1, <2>2 DEF LInv, EnclaveInv, HostInv, SeenInv, ForSecret
<1>3. CASE Exit(e)
  BY <1>3, ExitInv DEF LInv
<1> QED
  BY <1>1, <1>2, <1>3 DEF HostGets

\* Giving a request up leaves at most that request behind.
LEMMA AbandonedInv ==
    ASSUME LInv, NEW e \in Abandoned
    PROVE  EnclaveInv(e)
<1>1. CASE e = enclave
  BY <1>1 DEF LInv
<1>2. CASE host.pc = "call" /\ e = [enclave EXCEPT !.late = @ \cup {host.src}]
  <2>1. host.src \in Sources /\ ForSecret(host.src)
    BY <1>2 DEF LInv, HostInv, HostStates
  <2> QED
    BY <1>2, <2>1 DEF LInv, EnclaveInv, EnclaveStates
<1> QED
  BY <1>1, <1>2 DEF Abandoned
-----------------------------------------------------------------------------
(* The invariant *)

\* The answer to a waiting host, or nobody: the enclave's new state is e.
LEMMA AttemptEndsInv ==
    ASSUME LInv, NEW e, EnclaveInv(e), NEW r,
           host.pc = "await" /\ r.code = "OK" =>
               /\ e.ready # None
               /\ r.key = e.ready.key
               /\ r.env \in {None, e.ready.key},
           host.pc = "putting" =>
               /\ e.ready # None => e.ready.key = host.key
               /\ e.ready = None => e.attempt = None /\ e.late = {},
           AttemptEnds(r, e)
    PROVE  LInv'
<1>1. CASE host.pc = "await" /\ HostGets(r, e)
  BY <1>1, HostGetsInv DEF AttemptEnds
<1>2. CASE host.pc # "await" /\ enclave' = e /\ UNCHANGED host
  BY <1>2 DEF AttemptEnds, LInv, EnclaveInv, HostInv, SeenInv, ForSecret
<1> QED
  BY <1>1, <1>2 DEF AttemptEnds

LEMMA InitInv == Init => LInv
<1> SUFFICES ASSUME Init PROVE LInv
  OBVIOUS
<1>1. EnclaveInv(enclave)
  BY FreshEnclave DEF Init
<1>2. HostInv(host, enclave)
  BY DownInv DEF Init
<1> QED
  BY <1>1, <1>2 DEF Init, LInv, SeenInv

LEMMA HostStepInv == ASSUME LInv, HostStep PROVE LInv'
<1>1. ASSUME NEW a \in Configs, Start(a) PROVE LInv'
  <2>1. EnclaveInv(enclave)'
    BY <1>1, FreshEnclave DEF Start, LInv, EnclaveInv, ForSecret
  <2>2. a # None
    BY ConfigsAssumption, NoSecretAssumption
  <2>3. host' \in HostStates /\ host'.pc = "get" /\ host'.alg = a
    BY <1>1 DEF Start, HostStates, InitRetryAttempts
  <2> QED
    BY <1>1, <2>1, <2>2, <2>3 DEF Start, LInv, HostInv, SeenInv
<1>2. CASE GetSecret
  <2>1. ASSUME NEW s \in Sources, ForSecret(s), Call(s) PROVE LInv'
    <3>0. 1 \in 0..InitRetryAttempts
      BY DEF InitRetryAttempts
    <3>1. s # None
      BY NoneAssumption
    <3>2. host' \in HostStates /\ host'.pc = "call" /\ host'.src = s
          /\ host'.alg # None
      BY <1>2, <2>1, <3>0 DEF GetSecret, Call, LInv, HostInv, HostStates
    <3> QED
      BY <1>2, <2>1, <3>1, <3>2
      DEF GetSecret, Call, LInv, EnclaveInv, HostInv, SeenInv, ForSecret
  <2>2. host.alg \in Algorithms
    BY <1>2, ConfigsAssumption DEF GetSecret, LInv, HostInv, HostStates
  <2>3. CASE secret = None /\ Call(GenerateNew(host.alg))
    <3>1. GenerateNew(host.alg) \in Sources /\ ForSecret(GenerateNew(host.alg))
      BY <2>2, <2>3 DEF GenerateNew, Sources, ForSecret
    <3> QED
      BY <2>1, <2>3, <3>1
  <2>4. CASE /\ secret # None
             /\ Call([kind |-> "existing_key", alg |-> host.alg, env |-> secret.key])
    <3> DEFINE s == [kind |-> "existing_key", alg |-> host.alg, env |-> secret.key]
    <3>1. s \in Sources /\ ForSecret(s)
      BY <2>2, <2>4 DEF LInv, SeenInv, Secrets, Sources, ForSecret
    <3> QED
      BY <2>1, <2>4, <3>1
  <2>5. CASE Exit(enclave)
    BY <1>2, <2>5, ExitInv DEF GetSecret, LInv
  <2> QED
    BY <1>2, <2>3, <2>4, <2>5 DEF GetSecret
<1>3. CASE Initialize
  <2>1. CASE enclave.ready # None /\ HostGets(ResponseFor(enclave.ready, host.src), enclave)
    <3>1. enclave.ready \in ReadyStates
      BY <2>1 DEF LInv, EnclaveInv, EnclaveStates
    <3> QED
      BY <1>3, <2>1, <3>1, ResponseKey, HostGetsInv DEF Initialize, LInv
  <2>2. CASE /\ enclave.ready = None
             /\ host' = [host EXCEPT !.pc = "await"]
             /\ enclave' = IF enclave.attempt = None
                           THEN [enclave EXCEPT !.attempt = host.src] ELSE enclave
    <3>1. host.pc = "call" /\ host.src \in Sources /\ ForSecret(host.src)
      BY <1>3 DEF Initialize, LInv, HostInv, HostStates
    <3>2. host' \in HostStates /\ host'.pc = "await" /\ host'.src = host.src
          /\ host'.alg = host.alg
      BY <2>2 DEF LInv, HostInv, HostStates
    <3>3. EnclaveInv(enclave')
      BY <2>2, <3>1 DEF LInv, EnclaveInv, EnclaveStates
    <3> QED
      BY <1>3, <3>1, <3>2, <3>3
      DEF Initialize, LInv, EnclaveInv, HostInv, SeenInv, ForSecret
  <2> QED
    BY <1>3, <2>1, <2>2 DEF Initialize
<1>4. CASE HostStops
  BY <1>4, AbandonedInv, ExitInv DEF HostStops, LInv
<1>5. CASE PutSecret
  <2>1. host' \in HostStates /\ host'.pc = "serving" /\ host'.key = host.key
        /\ host.key \in Keys
    BY <1>5 DEF PutSecret, LInv, HostInv, HostStates
  <2>2. secret' \in Secrets /\ secret' # None /\ secret'.key = host.key
    BY <1>5, <2>1, HeaderIsSecret DEF PutSecret
  <2>3. EnclaveInv(enclave)'
    BY <1>5, <2>2 DEF PutSecret, LInv, EnclaveInv, HostInv, ForSecret
  <2>4. HostInv(host, enclave)'
    BY <2>1, <2>2 DEF HostInv
  <2> QED
    BY <1>5, <2>2, <2>3, <2>4 DEF PutSecret, LInv, HostInv, SeenInv
<1>6. CASE PutFails
  <2>1. host.key \in Keys
    BY <1>6 DEF PutFails, LInv, HostInv, HostStates
  <2>2. SeenInv'
    BY <1>6, <2>1, HeaderIsSecret DEF PutFails, LInv, HostInv, SeenInv
  <2>3. EnclaveInv(enclave)'
    <3>1. CASE enclave' = Off
      BY <3>1, FreshEnclave DEF EnclaveInv, ForSecret, Off, EnclaveStates, Empty
    <3>2. CASE enclave' = enclave
      BY <1>6, <3>2 DEF PutFails, LInv, EnclaveInv, HostInv, ForSecret
    <3> QED
      BY <1>6, <3>1, <3>2 DEF PutFails, Exit
  <2>4. HostInv(host, enclave)'
    BY <1>6, DownInv DEF PutFails, Exit, HostInv, ForSecret, Down
  <2> QED
    BY <2>2, <2>3, <2>4 DEF LInv
<1>7. CASE ServeClient
  BY <1>7, NoneAssumption
  DEF ServeClient, LInv, EnclaveInv, HostInv, SeenInv, ForSecret
<1>8. ASSUME NEW code \in ErrorCodes, RpcFails(code) PROVE LInv'
  <2>1. Error(code).code # "OK"
    BY <1>8 DEF RpcFails, Error
  <2> QED
    BY <1>8, <2>1, AbandonedInv, HostGetsInv DEF RpcFails
<1> QED
  BY <1>1, <1>2, <1>3, <1>4, <1>5, <1>6, <1>7, <1>8 DEF HostStep

LEMMA EnclaveStepInv == ASSUME LInv, EnclaveStep PROVE LInv'
<1>1. ASSUME NEW k \in Keys, AttemptSucceeds(k) PROVE LInv'
  <2> DEFINE s == enclave.attempt
             state == [source |-> s, key |-> k, generated |-> s.kind = "generate_new"]
             e == [enclave EXCEPT !.ready = state, !.attempt = None, !.stale = FALSE]
             r == IF host.pc = "await" THEN ResponseFor(state, host.src) ELSE None
  <2>1. /\ s \in Sources /\ s # None /\ enclave.ready = None /\ ForSecret(s)
        /\ s.kind = "existing_key" => k = s.env
    BY <1>1 DEF AttemptSucceeds, LInv, EnclaveInv, EnclaveStates
  <2>2. state \in ReadyStates /\ state # None
    <3>1. state \in ReadyStates
      BY <2>1 DEF ReadyStates
    <3> QED
      BY <3>1, NoneAssumption
  <2>3. e \in EnclaveStates /\ e.ready = state /\ e.attempt = None
    BY <2>2 DEF LInv, EnclaveInv, EnclaveStates
  <2>4. EnclaveInv(e)
    BY <2>1, <2>2, <2>3 DEF EnclaveInv, ForSecret
  <2>5. host.pc # "putting"
    BY <2>1 DEF LInv, HostInv
  <2>6. AttemptEnds(r, e)
    BY <1>1 DEF AttemptSucceeds
  <2>7. host.pc = "await" /\ r.code = "OK" =>
            /\ e.ready # None /\ r.key = e.ready.key /\ r.env \in {None, e.ready.key}
    BY <2>2, <2>3, ResponseKey
  <2> HIDE DEF e, r
  <2> QED
    BY <2>3, <2>4, <2>5, <2>6, <2>7, AttemptEndsInv
<1>2. ASSUME NEW code \in ErrorCodes, AttemptFails(code) PROVE LInv'
  <2> DEFINE e == [enclave EXCEPT !.attempt = None]
  <2>1. EnclaveInv(e) /\ e.ready = enclave.ready /\ e.attempt = None
        /\ e.late = enclave.late
    BY DEF LInv, EnclaveInv, EnclaveStates
  <2>2. Error(code).code # "OK"
    BY <1>2, SourceAssumption DEF AttemptFails, Error
  <2>3. AttemptEnds(Error(code), e)
    BY <1>2 DEF AttemptFails
  <2>4. host.pc = "putting" => /\ enclave.ready # None => enclave.ready.key = host.key
                               /\ enclave.ready = None => enclave.late = {}
    BY DEF LInv, HostInv
  <2> HIDE DEF e
  <2> QED
    BY <2>1, <2>2, <2>3, <2>4, AttemptEndsInv
<1>3. ASSUME NEW s \in enclave.late, LateRequest(s) PROVE LInv'
  <2>1. s \in Sources /\ (enclave.ready = None => ForSecret(s))
    BY DEF LInv, EnclaveInv, EnclaveStates
  <2>2. /\ enclave' \in EnclaveStates /\ enclave'.ready = enclave.ready
        /\ enclave'.late = enclave.late \ {s}
        /\ enclave'.attempt = IF enclave.ready = None /\ enclave.attempt = None
                              THEN s ELSE enclave.attempt
    BY <1>3, <2>1 DEF LateRequest, LInv, EnclaveInv, EnclaveStates
  <2>3. EnclaveInv(enclave')
    BY <2>1, <2>2 DEF LInv, EnclaveInv
  <2>4. HostInv(host, enclave')
    BY <2>2 DEF LInv, HostInv
  <2> QED
    BY <1>3, <2>3, <2>4 DEF LateRequest, LInv, EnclaveInv, HostInv, SeenInv, ForSecret
<1>4. ASSUME enclave' \in {Off, Empty}, UNCHANGED <<secret, host, seen, calm, colocated>>
      PROVE  LInv'
  <2>1. EnclaveInv(enclave') /\ HostInv(host, enclave')
    BY <1>4, FreshEnclave DEF LInv, HostInv
  <2> QED
    BY <1>4, <2>1 DEF LInv, EnclaveInv, HostInv, SeenInv, ForSecret
<1>5. CASE EnclaveCrash \/ EnclaveStart
  BY <1>4, <1>5 DEF EnclaveCrash, EnclaveStart
<1>6. CASE DocumentExpires
  <2>1. /\ enclave' \in EnclaveStates /\ enclave'.ready = enclave.ready
        /\ enclave'.attempt = enclave.attempt /\ enclave'.late = enclave.late
    BY <1>6 DEF DocumentExpires, LInv, EnclaveInv, EnclaveStates
  <2> QED
    BY <1>6, <2>1 DEF DocumentExpires, LInv, EnclaveInv, HostInv, SeenInv, ForSecret
<1> QED
  BY <1>1, <1>2, <1>3, <1>5, <1>6 DEF EnclaveStep

\* Every step preserves the invariant.
THEOREM Inductive == Spec => []LInv
<1>1. LInv /\ [Next]_vars => LInv'
  <2> SUFFICES ASSUME LInv, [Next]_vars PROVE LInv'
    OBVIOUS
  <2>1. CASE FaultsEnd
    BY <2>1 DEF FaultsEnd, LInv, EnclaveInv, HostInv, SeenInv, ForSecret
  <2>2. CASE UNCHANGED vars
    BY <2>2 DEF vars, LInv, EnclaveInv, HostInv, SeenInv, ForSecret
  <2> QED
    BY <2>1, <2>2, HostStepInv, EnclaveStepInv DEF Next
<1> QED
  BY <1>1, InitInv, PTL DEF Spec
-----------------------------------------------------------------------------
(* The theorems *)

\* The type invariant.
THEOREM TypeCorrect == Spec => []TypeOK
<1>1. LInv => TypeOK
  BY DEF LInv, EnclaveInv, HostInv, SeenInv, TypeOK, Secrets
<1> QED
  BY <1>1, Inductive, PTL

\* Whatever crashed, an enclave with a key holds the stored one.
THEOREM OneKey == Spec => []EnclaveHoldsStoredKey
<1>1. LInv => EnclaveHoldsStoredKey
  BY DEF LInv, EnclaveInv, EnclaveHoldsStoredKey
<1> QED
  BY <1>1, Inductive, PTL

\* A host that writes the secret found none, and there still is none.
THEOREM NoOverwrite == Spec => []WritesMissingSecretOnly
<1>1. LInv => WritesMissingSecretOnly
  BY DEF LInv, HostInv, WritesMissingSecretOnly
<1> QED
  BY <1>1, Inductive, PTL

\* The secret and what clients see implement a write-once cell: storing is
\* Install, serving is Tell, and no crash or retry is visible.
THEOREM Implementation == Spec => ImplementsKeyCell
<1>1. Init => Cell!Init
  BY DEF Init, Cell!Init, StoredKey, Secrets
<1>2. LInv /\ [Next]_vars => [Cell!Next]_Cell!vars
  <2> SUFFICES ASSUME LInv, [Next]_vars PROVE [Cell!Next]_Cell!vars
    OBVIOUS
  <2>1. CASE UNCHANGED <<secret, seen>>
    BY <2>1 DEF Cell!vars, StoredKey
  <2>2. CASE /\ host.pc = "putting" /\ UNCHANGED seen
             /\ secret' = [key |-> host.key, tagged |-> TRUE]
    <3>1. secret = None /\ host.key \in Keys
      BY <2>2 DEF LInv, HostInv, HostStates
    <3>2. secret' # None /\ secret'.key = host.key
      BY <2>2, <3>1, HeaderIsSecret
    <3>3. Cell!Install(host.key)
      BY <2>2, <3>1, <3>2 DEF Cell!Install, StoredKey
    <3> QED
      BY <3>1, <3>3 DEF Cell!Next
  <2>3. CASE ServeClient
    <3>1. /\ secret # None /\ secret.key \in Keys
          /\ host.key = secret.key
          /\ enclave.ready # None => enclave.ready.key = secret.key
      BY <2>3 DEF ServeClient, LInv, HostInv, EnclaveInv, SeenInv, Secrets
    <3>2. Cell!Tell
      BY <2>3, <3>1, SourceAssumption DEF ServeClient, Cell!Tell, StoredKey
    <3> QED
      BY <3>2 DEF Cell!Next
  <2> QED
    BY <2>1, <2>2, <2>3
    DEF Next, HostStep, EnclaveStep, vars, Start, GetSecret, Initialize, HostStops,
        PutSecret, PutFails, RpcFails, AttemptSucceeds, AttemptFails, AttemptEnds,
        LateRequest, EnclaveCrash, EnclaveStart, DocumentExpires, FaultsEnd
<1> QED
  BY <1>1, <1>2, Inductive, PTL DEF Spec, ImplementsKeyCell, Cell!Spec
=============================================================================
