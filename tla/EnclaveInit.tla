---------------------------- MODULE EnclaveInit ----------------------------
(***************************************************************************)
(* The startup of the host against the enclave and KMS, in time: the retry *)
(* loop of initializeEnclave (internal/app/enclaveinit.go) with its cached *)
(* AWS credentials, and the attempt in the enclave, which asks the KMS     *)
(* regions one after the other (provider.call in                           *)
(* internal/enclave/provider/awskms/awskms.go) with the credentials of the *)
(* request that started it.                                                *)
(*                                                                         *)
(* Time is in seconds.  Deadlines are exact, and what is not a wait (an    *)
(* RPC on its way, a look into the credentials cache) takes no time.       *)
(* Credentials are numbered as they are issued; KMS takes the newest only. *)
(* Each attempt builds its own provider and calls it once: every attempt   *)
(* starts with the first ARN again, and the order moveClientToBack leaves  *)
(* behind is never used.                                                   *)
(***************************************************************************)
EXTENDS Integers, FiniteSets

CONSTANTS N,                \* KMS key ARNs, one region each
          RegionLimit,      \* how long one call of a KMS client can take
          Prompt,           \* how long it takes in a healthy region
          RunTimeout,       \* defaultInitializationTimeout
          RpcTimeout,       \* the client's timeout for the method Initialize
          StartupTimeout,   \* ProviderConfig.StartupTimeout
          Backoff,          \* initRetryBackoff
          MaxSick,          \* regions that are disrupted
          MaxFaults         \* lost RPCs and expired credentials together

ASSUME ParametersAssumption ==
    /\ N \in Nat \ {0}
    /\ {RegionLimit, Prompt, RunTimeout, RpcTimeout, StartupTimeout, Backoff} \subseteq Nat
    /\ {MaxSick, MaxFaults} \subseteq Nat

InitRetryAttempts == 3

VARIABLES
    now,        \* seconds since the startup began
    sick,       \* the disrupted regions, by their place among the ARNs
    newest,     \* the last credentials issued
    cache,      \* the credentials awsCfg.Credentials holds; 0 if none
    host,       \* initializeEnclave
    attempt,    \* the attempt that runs in the enclave, or NoAttempt
    ready,      \* whether the enclave is Ready
    faults      \* lost RPCs and expired credentials so far

vars == <<now, sick, newest, cache, host, attempt, ready, faults>>

\* What a KMS client can return: the classes of kmserror.go, then whatever it
\* does not recognise, and the end of its HTTP timeout.
KmsErrors == {"InvalidArgument", "PermissionDenied", "Unauthenticated",
              "Unavailable", "Internal", "DeadlineExceeded"}
\* Local: Internal, but from the enclave itself, not from a KMS client.
Codes == KmsErrors \cup {"OK", "Local"}
\* Why a startup failed besides; None while it has not.
Reasons == {"None", "Credentials", "Budget", "Exhausted"}

Retryable == {"Unauthenticated", "Unavailable", "DeadlineExceeded"}

Credentials == 1 .. MaxFaults + 1
Regions == 1 .. N

Attempts == [creds : Credentials,    \* of the request that started it
             at : Regions,           \* the region being asked
             auth : BOOLEAN,         \* authErr # nil
             due : Nat,              \* when that region's client gives up
             deadline : Nat]         \* of runCtx
NoAttempt == [at |-> 0]

Hosts == [pc : {"retrieve", "call", "await", "backoff", "ready", "failed"},
          tries : 1 .. InitRetryAttempts,
          creds : Credentials \cup {0},
          invalidate : BOOLEAN,      \* invalidateCredentials
          timer : Nat,               \* end of the RPC or of the backoff
          why : Codes \cup Reasons,
          floor : Credentials \cup {0}]  \* newest when last Unauthenticated

TypeOK ==
    /\ now \in Nat
    /\ sick \subseteq Regions
    /\ newest \in Credentials
    /\ cache \in Credentials \cup {0}
    /\ host \in Hosts
    /\ attempt \in Attempts \cup {NoAttempt}
    /\ ready \in BOOLEAN
    /\ faults \in 0 .. MaxFaults

\* Reading the secret may have filled the cache of awsCfg before.
Init ==
    /\ now = 0
    /\ sick \in {s \in SUBSET Regions : Cardinality(s) <= MaxSick}
    /\ newest = 1 /\ cache \in {0, 1}
    /\ host = [pc |-> "retrieve", tries |-> 1, creds |-> 0, invalidate |-> FALSE,
               timer |-> 0, why |-> "None", floor |-> 0]
    /\ attempt = NoAttempt /\ ready = FALSE /\ faults = 0

Running == attempt # NoAttempt
Earlier(a, b) == IF a <= b THEN a ELSE b
-----------------------------------------------------------------------------
(* The host *)

Fail(reason) == host' = [host EXCEPT !.pc = "failed", !.why = reason]

Retry(code) ==
    host' = [host EXCEPT !.pc = "backoff", !.timer = now + Backoff,
                         !.invalidate = (code = "Unauthenticated"),
                         !.floor = IF code = "Unauthenticated" THEN newest ELSE @]

\* Initialize returns code to the host.
HostGets(code) ==
    \/ code = "OK" /\ host' = [host EXCEPT !.pc = "ready"]
    \/ code \in Retryable /\ host.tries < InitRetryAttempts /\ Retry(code)
    \/ code \in Retryable /\ host.tries = InitRetryAttempts /\ Fail("Exhausted")
    \/ code \notin Retryable \cup {"OK"} /\ Fail(code)

\* Seeded bug: the cache is not invalidated first.
RetrieveWithoutInvalidate ==
    /\ host.pc = "retrieve"
    /\ \/ cache # 0 /\ host' = [host EXCEPT !.pc = "call", !.creds = cache]
          /\ UNCHANGED cache
       \/ cache = 0 /\ host' = [host EXCEPT !.pc = "call", !.creds = newest]
          /\ cache' = newest
    /\ UNCHANGED <<now, sick, newest, attempt, ready, faults>>

\* Retrieve fetches when the cache is empty, was invalidated, or holds what
\* its own clock calls expired.
Retrieve ==
    /\ host.pc = "retrieve"
    /\ \/ /\ cache # 0 /\ ~host.invalidate
          /\ host' = [host EXCEPT !.pc = "call", !.creds = cache]
          /\ UNCHANGED cache
       \/ /\ host' = [host EXCEPT !.pc = "call", !.creds = newest]
          /\ cache' = newest
    /\ UNCHANGED <<now, sick, newest, attempt, ready, faults>>

RetrieveFails ==
    /\ host.pc = "retrieve"
    /\ Fail("Credentials")
    /\ UNCHANGED <<now, sick, newest, cache, attempt, ready, faults>>

\* When the region asked next has to have answered.
Due(i) == now + IF i \in sick THEN RegionLimit ELSE Prompt

\* ensureInitialized, for a request with credentials c, if not yet Ready: the
\* attempt it starts, or the one it joins, whatever credentials that has.
Joined(c) ==
    IF Running THEN attempt
    ELSE [creds |-> c, at |-> 1, auth |-> FALSE, due |-> Due(1),
          deadline |-> now + RunTimeout]

\* Seeded bug: the RPC has its own timeout only, and no startup budget.
RpcDeadlineAlone == now + RpcTimeout

RpcDeadline == Earlier(now + RpcTimeout, StartupTimeout)

\* The request reaches the gate; with the budget spent the client does not
\* send it.
Call ==
    /\ host.pc = "call"
    /\ \/ /\ now < StartupTimeout /\ ready
          /\ HostGets("OK") /\ UNCHANGED attempt
       \/ /\ now < StartupTimeout /\ ~ready
          /\ host' = [host EXCEPT !.pc = "await", !.timer = RpcDeadline]
          /\ attempt' = Joined(host.creds)
       \/ /\ now >= StartupTimeout
          /\ HostGets("DeadlineExceeded") /\ UNCHANGED attempt
    /\ UNCHANGED <<now, sick, newest, cache, ready, faults>>

\* The connection fails, before or after the request has reached the gate or
\* while the host waits: the attempt in the enclave goes on without it.
RpcLost ==
    /\ faults < MaxFaults
    /\ \/ host.pc = "call" /\ ~ready /\ attempt' \in {attempt, Joined(host.creds)}
       \/ host.pc = "call" /\ ready /\ UNCHANGED attempt
       \/ host.pc = "await" /\ UNCHANGED attempt
    /\ HostGets("Unavailable")
    /\ faults' = faults + 1
    /\ UNCHANGED <<now, sick, newest, cache, ready>>

\* The deadline of the RPC passes; the attempt goes on here, too.
RpcTimesOut ==
    /\ host.pc = "await" /\ now >= host.timer
    /\ HostGets("DeadlineExceeded")
    /\ UNCHANGED <<now, sick, newest, cache, attempt, ready, faults>>

\* The select of the backoff.
BackoffEnds ==
    /\ host.pc = "backoff"
    /\ \/ now >= host.timer
          /\ host' = [host EXCEPT !.pc = "retrieve", !.tries = @ + 1]
       \/ now >= StartupTimeout /\ Fail("Budget")
    /\ UNCHANGED <<now, sick, newest, cache, attempt, ready, faults>>
-----------------------------------------------------------------------------
(* The attempt in the enclave *)

\* The attempt returns code to the host, if it still waits.
AttemptEnds(code) ==
    /\ attempt' = NoAttempt
    /\ ready' = (code = "OK")
    /\ IF host.pc = "await" THEN HostGets(code) ELSE UNCHANGED host
    /\ UNCHANGED <<now, sick, newest, cache, faults>>

\* Seeded bug: provider.call reports the last error.
ReportedLast(code, auth) == code

\* provider.call, when every region has failed, the last one with code: a
\* rejection of the credentials comes first.
Reported(code, auth) == IF auth THEN "Unauthenticated" ELSE code

\* What the client of the region asked can return.
RegionAnswers ==
    IF attempt.at \in sick THEN KmsErrors \cup {"OK"}
    ELSE IF attempt.creds = newest THEN {"OK"} ELSE {"Unauthenticated"}

\* Seeded bug: the loop over the clients runs one too far.
AskRegionPastEnd(code) ==
    /\ Running
    /\ code \in RegionAnswers
    /\ \/ code = "OK" /\ AttemptEnds("OK")
       \/ /\ code # "OK" /\ attempt.at <= N
          /\ attempt' = [attempt EXCEPT !.at = @ + 1, !.due = Due(attempt.at + 1),
                             !.auth = attempt.auth \/ code = "Unauthenticated"]
          /\ UNCHANGED <<now, sick, newest, cache, host, ready, faults>>

\* One client returns: success, or on to the next region, or the end.
AskRegion(code) ==
    /\ Running
    /\ code \in RegionAnswers
    /\ LET auth == attempt.auth \/ code = "Unauthenticated"
       IN \/ code = "OK" /\ AttemptEnds("OK")
          \/ code # "OK" /\ attempt.at = N /\ AttemptEnds(Reported(code, auth))
          \/ /\ code # "OK" /\ attempt.at < N
             /\ attempt' = [attempt EXCEPT !.at = @ + 1, !.auth = auth,
                                           !.due = Due(attempt.at + 1)]
             /\ UNCHANGED <<now, sick, newest, cache, host, ready, faults>>

\* runCtx ends: the client being used and all that follow fail at once.
RunTimesOut ==
    /\ Running /\ now >= attempt.deadline
    /\ AttemptEnds(Reported("DeadlineExceeded", attempt.auth))

\* What is not KMS fails: an attestation, or the key does not come apart.
LocalFailure ==
    /\ Running
    /\ AttemptEnds("Local")
-----------------------------------------------------------------------------
(* The environment *)

\* The role's credentials are replaced, and KMS rejects the old ones, though
\* the cache of the host takes them to be good.
CredentialsExpire ==
    /\ faults < MaxFaults
    /\ newest' = newest + 1
    /\ faults' = faults + 1
    /\ UNCHANGED <<now, sick, cache, host, attempt, ready>>

Decided == host.pc \in {"ready", "failed"}

\* A second passes, unless something is due.
Tick ==
    /\ ~Decided \/ Running
    /\ host.pc \notin {"retrieve", "call"}
    /\ host.pc \in {"await", "backoff"} => now < host.timer
    /\ host.pc = "backoff" => now < StartupTimeout
    /\ Running => now < attempt.due /\ now < attempt.deadline
    /\ now' = now + 1
    /\ UNCHANGED <<sick, newest, cache, host, attempt, ready, faults>>

\* The startup is over, and nothing runs on in the enclave.
Finished == Decided /\ ~Running /\ UNCHANGED vars

Next ==
    \/ Retrieve \/ RetrieveFails \/ Call \/ RpcLost \/ RpcTimesOut \/ BackoffEnds
    \/ \E code \in KmsErrors \cup {"OK"} : AskRegion(code)
    \/ RunTimesOut \/ LocalFailure
    \/ CredentialsExpire \/ Tick \/ Finished

Spec == Init /\ [][Next]_vars
-----------------------------------------------------------------------------
(* Properties *)

\* The longest an attempt can take, and whether that many of them, with the
\* backoffs, fit into the startup budget: one for each fault and one more.
AttemptLimit == MaxSick * RegionLimit + N * Prompt
Covered ==
    /\ MaxSick < N
    /\ MaxFaults < InitRetryAttempts
    /\ AttemptLimit < RunTimeout
    /\ AttemptLimit < RpcTimeout
    /\ (MaxFaults + 1) * AttemptLimit + MaxFaults * Backoff < StartupTimeout

\* With one region healthy a disruption of the others, together with lost
\* RPCs and credentials that expire, does not fail the startup: only the
\* credential source and the enclave itself can (docs/architecture.md:193).
FailsLocallyOnly == host.pc = "failed" => host.why \in {"Credentials", "Local"}

\* After KMS has rejected credentials, what the enclave runs for the host uses
\* none that were issued before the host learnt of it (docs/architecture.md:65).
FreshAfterRejection == Running => attempt.creds >= host.floor

\* The startup has been decided when its budget is spent, whatever hangs.
InBudget == ~Decided => now <= StartupTimeout
=============================================================================
