-------------------------- MODULE EnclaveInitProofs --------------------------
(***************************************************************************)
(* The startup of the host, for any number of regions and all timeouts.    *)
(***************************************************************************)
EXTENDS EnclaveInit, FiniteSetTheorems, TLAPS

\* Credentials that expired are counted, and no attempt is one too many.
CountInv ==
    /\ newest <= faults + 1
    /\ host.pc = "backoff" => host.tries < InitRetryAttempts

\* Nothing the host still uses, or will use without asking the source, is
\* older than the last rejection it learnt of.
CredsInv ==
    /\ host.floor <= newest
    /\ cache <= newest /\ host.creds <= newest
    /\ Running => attempt.creds <= newest /\ attempt.creds >= host.floor
    /\ ~host.invalidate /\ cache # 0 => cache >= host.floor
    /\ host.pc \in {"call", "await"} =>
          host.creds # 0 /\ host.creds >= host.floor /\ cache >= host.floor

\* The clock never passes what the host waits for.
TimeInv ==
    /\ InBudget
    /\ host.pc = "await" => now <= host.timer /\ host.timer <= StartupTimeout

IInv == TypeOK /\ CountInv /\ CredsInv /\ TimeInv
-----------------------------------------------------------------------------
(* What the host makes of an answer *)

\* After an answer the host is done, or backs off; it then invalidates its
\* credentials exactly if they were rejected.
LEMMA AfterAnswer ==
    ASSUME TypeOK, NEW code \in Codes, HostGets(code)
    PROVE  /\ host' \in Hosts
           /\ host'.pc \in {"ready", "failed", "backoff"}
           /\ host'.creds = host.creds /\ host'.tries = host.tries
           /\ host'.pc # "backoff" =>
                host'.invalidate = host.invalidate /\ host'.floor = host.floor
           /\ host'.pc = "backoff" =>
                /\ host.tries < InitRetryAttempts
                /\ host'.timer = now + Backoff
                /\ host'.invalidate = (code = "Unauthenticated")
                /\ host'.floor = IF code = "Unauthenticated" THEN newest ELSE host.floor
<1>1. host \in Hosts /\ now \in Nat /\ newest \in Credentials /\ now + Backoff \in Nat
  BY ParametersAssumption DEF TypeOK
<1>2. CASE code = "OK" /\ host' = [host EXCEPT !.pc = "ready"]
  BY <1>1, <1>2 DEF Hosts
<1>3. CASE code \in Retryable /\ host.tries < InitRetryAttempts /\ Retry(code)
  BY <1>1, <1>3 DEF Hosts, Retry, Retryable
<1>4. CASE code \in Retryable /\ host.tries = InitRetryAttempts /\ Fail("Exhausted")
  BY <1>1, <1>4 DEF Hosts, Fail, Reasons
<1>5. CASE code \notin Retryable \cup {"OK"} /\ Fail(code)
  BY <1>1, <1>5 DEF Hosts, Fail
<1> QED
  BY <1>2, <1>3, <1>4, <1>5 DEF HostGets

\* An attempt that starts has everything an attempt has.
LEMMA JoinedType ==
    ASSUME TypeOK, NEW c \in Credentials
    PROVE  /\ Joined(c) \in Attempts
           /\ Running => Joined(c) = attempt
           /\ ~Running => /\ Joined(c).creds = c /\ Joined(c).at = 1
                          /\ Joined(c).auth = FALSE /\ Joined(c).due = Due(1)
                          /\ Joined(c).deadline = now + RunTimeout
<1>1. Due(1) \in Nat /\ now + RunTimeout \in Nat /\ 1 \in Regions
  BY ParametersAssumption DEF TypeOK, Due, Regions
<1> QED
  BY <1>1 DEF TypeOK, Joined, Attempts, Running

LEMMA NotAnAttempt == NoAttempt \notin Attempts
<1>1. ASSUME NoAttempt \in Attempts PROVE FALSE
  <2>1. NoAttempt.at \in Regions
    BY <1>1 DEF Attempts
  <2> QED
    BY <2>1, ParametersAssumption DEF NoAttempt, Regions
<1> QED
  BY <1>1
-----------------------------------------------------------------------------
(* Every step preserves the invariant *)

LEMMA InitInv == Init => IInv
<1> SUFFICES ASSUME Init PROVE IInv
  OBVIOUS
<1>1. 1 \in Credentials
  BY ParametersAssumption DEF Credentials
<1>2. host \in Hosts
  BY <1>1 DEF Init, Hosts, InitRetryAttempts, Reasons
<1>3. TypeOK
  <2>1. sick \subseteq Regions /\ now = 0 /\ ready = FALSE /\ faults = 0
    BY Zenon DEF Init
  <2>2. now \in Nat /\ faults \in 0 .. MaxFaults
    BY <2>1, ParametersAssumption
  <2>5. ready \in BOOLEAN
    BY <2>1
  <2>3. newest \in Credentials /\ cache \in Credentials \cup {0}
    BY <1>1 DEF Init
  <2>4. attempt = NoAttempt
    BY DEF Init
  <2> QED
    BY <1>2, <2>1, <2>2, <2>3, <2>4, <2>5 DEF TypeOK
<1>4. CountInv /\ CredsInv
  BY DEF Init, CountInv, CredsInv, Running
<1>5. TimeInv
  BY ParametersAssumption DEF Init, TimeInv, InBudget, Decided
<1> QED
  BY <1>3, <1>4, <1>5 DEF IInv

LEMMA RetrieveInv == IInv /\ Retrieve => IInv'
<1> SUFFICES ASSUME IInv, Retrieve PROVE IInv'
  OBVIOUS
<1>1. TypeOK /\ CountInv /\ CredsInv /\ TimeInv /\ host \in Hosts
  BY DEF IInv, TypeOK
<1>2. PICK c \in Credentials :
        /\ host' = [host EXCEPT !.pc = "call", !.creds = c] /\ c <= newest
        /\ cache' = c /\ c >= host.floor
  <2>1. CASE cache # 0 /\ ~host.invalidate /\ UNCHANGED cache
             /\ host' = [host EXCEPT !.pc = "call", !.creds = cache]
    <3>1. cache \in Credentials /\ cache <= newest /\ cache >= host.floor
      BY <1>1, <2>1 DEF TypeOK, CredsInv
    <3> QED
      BY <2>1, <3>1
  <2>2. CASE host' = [host EXCEPT !.pc = "call", !.creds = newest] /\ cache' = newest
    <3>1. newest \in Credentials /\ newest <= newest /\ newest >= host.floor
      BY <1>1, ParametersAssumption DEF TypeOK, CredsInv, Credentials, Hosts
    <3> QED
      BY <2>2, <3>1
  <2> QED
    BY <2>1, <2>2 DEF Retrieve
<1>3. UNCHANGED <<now, sick, newest, attempt, ready, faults>> /\ host.pc = "retrieve"
  BY DEF Retrieve
<1>4. TypeOK'
  BY <1>1, <1>2, <1>3 DEF TypeOK, Hosts
<1>5. CountInv'
  BY <1>1, <1>2, <1>3 DEF CountInv, Hosts
<1>6. CredsInv'
  BY <1>1, <1>2, <1>3, ParametersAssumption DEF CredsInv, Running, TypeOK, Hosts, Credentials
<1>7. TimeInv'
  BY <1>1, <1>2, <1>3 DEF TimeInv, InBudget, Decided, Hosts
<1> QED
  BY <1>4, <1>5, <1>6, <1>7 DEF IInv

LEMMA RetrieveFailsInv == IInv /\ RetrieveFails => IInv'
<1> SUFFICES ASSUME IInv, RetrieveFails PROVE IInv'
  OBVIOUS
<1>1. /\ host \in Hosts /\ host' = [host EXCEPT !.pc = "failed", !.why = "Credentials"]
      /\ UNCHANGED <<now, sick, newest, cache, attempt, ready, faults>>
  BY DEF IInv, TypeOK, RetrieveFails, Fail
<1>2. host' \in Hosts
  BY <1>1 DEF Hosts, Reasons
<1> QED
  BY <1>1, <1>2 DEF IInv, TypeOK, CountInv, CredsInv, TimeInv, InBudget, Decided, Running, Hosts

\* The host gets an answer other than a rejection while attempt' runs on.
LEMMA AnswerInv ==
    ASSUME IInv, host.pc \in {"call", "await"},
           NEW code \in Codes \ {"Unauthenticated"}, HostGets(code),
           attempt' \in {attempt, Joined(host.creds)},
           faults' \in 0 .. MaxFaults, faults <= faults', UNCHANGED <<now, sick, newest, cache, ready>>
    PROVE  IInv'
<1>1. TypeOK /\ CountInv /\ CredsInv /\ TimeInv /\ host \in Hosts /\ host' \in Hosts
  BY AfterAnswer DEF IInv, TypeOK
<1>2. /\ host'.pc \in {"ready", "failed", "backoff"} /\ host'.creds = host.creds
      /\ host'.pc = "backoff" => host'.tries < InitRetryAttempts
      /\ host'.floor = host.floor
      /\ host'.invalidate = host.invalidate \/ host'.invalidate = FALSE
  BY <1>1, AfterAnswer
<1>3. host.creds \in Credentials
  BY <1>1 DEF CredsInv, Hosts
<1>4. attempt' \in Attempts \cup {NoAttempt}
  BY <1>1, <1>3, JoinedType DEF TypeOK
<1>5. TypeOK'
  BY <1>1, <1>4 DEF TypeOK
<1>6. CountInv'
  <2>1. newest' = newest /\ newest \in Int /\ faults \in Int /\ faults' \in Int
    BY <1>1, ParametersAssumption DEF TypeOK, Credentials
  <2>2. newest <= faults + 1
    BY <1>1 DEF CountInv
  <2>3. newest' <= faults' + 1
    <3>1. \A a, b, c \in Int : a <= b + 1 /\ b <= c => a <= c + 1
      OBVIOUS
    <3>2. newest <= faults' + 1
      BY <2>1, <2>2, <3>1
    <3> QED
      BY <2>1, <3>2
  <2> QED
    BY <1>2, <2>3 DEF CountInv
<1>7. attempt' # NoAttempt => attempt'.creds <= newest /\ attempt'.creds >= host.floor
  BY <1>1, <1>3, JoinedType, NotAnAttempt DEF CredsInv, Running
<1>8. CredsInv'
  BY <1>1, <1>2, <1>7 DEF CredsInv, Running
<1>9. TimeInv'
  BY <1>1, <1>2 DEF TimeInv, InBudget, Decided
<1> QED
  BY <1>5, <1>6, <1>8, <1>9 DEF IInv

LEMMA CallInv == IInv /\ Call => IInv'
<1> SUFFICES ASSUME IInv, Call PROVE IInv'
  OBVIOUS
<1>1. TypeOK /\ CountInv /\ CredsInv /\ TimeInv /\ host \in Hosts /\ now \in Nat
  BY DEF IInv, TypeOK
<1>2. CASE HostGets("OK") /\ UNCHANGED attempt
  BY <1>1, <1>2, AnswerInv, ParametersAssumption DEF Call, TypeOK, Codes
<1>3. CASE HostGets("DeadlineExceeded") /\ UNCHANGED attempt
  BY <1>1, <1>3, AnswerInv, ParametersAssumption DEF Call, TypeOK, Codes, KmsErrors
<1>4. CASE /\ now < StartupTimeout
           /\ host' = [host EXCEPT !.pc = "await", !.timer = RpcDeadline]
           /\ attempt' = Joined(host.creds)
  <2>1. host.pc = "call" /\ UNCHANGED <<now, sick, newest, cache, ready, faults>>
    BY DEF Call
  <2>2. RpcDeadline \in Nat /\ now <= RpcDeadline /\ RpcDeadline <= StartupTimeout
    BY <1>1, <1>4, ParametersAssumption DEF RpcDeadline, Earlier
  <2>3. host' \in Hosts
    BY <1>1, <1>4, <2>2 DEF Hosts
  <2>4. host.creds \in Credentials
    BY <1>1, <2>1 DEF CredsInv, Hosts
  <2>5. attempt' \in Attempts
    BY <1>1, <1>4, <2>4, JoinedType
  <2>6. TypeOK'
    BY <1>1, <2>1, <2>3, <2>5 DEF TypeOK
  <2>7. CountInv'
    BY <1>1, <1>4, <2>1 DEF CountInv, Hosts
  <2>8. attempt'.creds <= newest /\ attempt'.creds >= host.floor
    BY <1>1, <1>4, <2>1, <2>4, JoinedType DEF CredsInv
  <2>9. CredsInv'
    BY <1>1, <1>4, <2>1, <2>8 DEF CredsInv, Running, Hosts
  <2>10. TimeInv'
    BY <1>1, <1>4, <2>1, <2>2 DEF TimeInv, InBudget, Decided, Hosts
  <2> QED
    BY <2>6, <2>7, <2>9, <2>10 DEF IInv
<1> QED
  BY <1>2, <1>3, <1>4 DEF Call

LEMMA RpcLostInv == IInv /\ RpcLost => IInv'
<1> SUFFICES ASSUME IInv, RpcLost PROVE IInv'
  OBVIOUS
<1>1. "Unavailable" \in Codes \ {"Unauthenticated"}
  BY DEF Codes, KmsErrors
<1>2. faults' \in 0 .. MaxFaults /\ faults <= faults'
  BY ParametersAssumption DEF RpcLost, IInv, TypeOK
<1> QED
  BY <1>1, <1>2, AnswerInv DEF RpcLost

LEMMA RpcTimesOutInv == IInv /\ RpcTimesOut => IInv'
<1> SUFFICES ASSUME IInv, RpcTimesOut PROVE IInv'
  OBVIOUS
<1>1. "DeadlineExceeded" \in Codes \ {"Unauthenticated"}
  BY DEF Codes, KmsErrors
<1>2. faults' \in 0 .. MaxFaults /\ faults <= faults'
  BY ParametersAssumption DEF RpcTimesOut, IInv, TypeOK
<1> QED
  BY <1>1, <1>2, AnswerInv DEF RpcTimesOut

LEMMA BackoffEndsInv == IInv /\ BackoffEnds => IInv'
<1> SUFFICES ASSUME IInv, BackoffEnds PROVE IInv'
  OBVIOUS
<1>1. /\ TypeOK /\ CountInv /\ CredsInv /\ TimeInv /\ host \in Hosts /\ host.pc = "backoff"
      /\ UNCHANGED <<now, sick, newest, cache, attempt, ready, faults>>
  BY DEF IInv, TypeOK, BackoffEnds
<1>2. /\ host' \in Hosts /\ host'.pc \in {"retrieve", "failed"}
      /\ host'.creds = host.creds /\ host'.floor = host.floor
      /\ host'.invalidate = host.invalidate
  <2>1. CASE host' = [host EXCEPT !.pc = "retrieve", !.tries = @ + 1]
    <3>1. host.tries + 1 \in 1 .. InitRetryAttempts
      BY <1>1 DEF Hosts, CountInv, InitRetryAttempts
    <3> QED
      BY <1>1, <2>1, <3>1 DEF Hosts
  <2>2. CASE Fail("Budget")
    BY <1>1, <2>2 DEF Hosts, Fail, Reasons
  <2>3. host' = [host EXCEPT !.pc = "retrieve", !.tries = @ + 1] \/ Fail("Budget")
    BY DEF BackoffEnds
  <2> QED
    BY <2>1, <2>2, <2>3
<1> QED
  BY <1>1, <1>2 DEF IInv, TypeOK, CountInv, CredsInv, TimeInv, InBudget, Decided, Running

\* The attempt is over, and the host, if it waits for it, gets code.
LEMMA AttemptEndsInv ==
    ASSUME IInv, NEW code \in Codes, AttemptEnds(code)
    PROVE  IInv'
<1>1. /\ TypeOK /\ CountInv /\ CredsInv /\ TimeInv /\ host \in Hosts
      /\ attempt' = NoAttempt /\ ready' \in BOOLEAN
      /\ UNCHANGED <<now, sick, newest, cache, faults>>
  BY DEF IInv, TypeOK, AttemptEnds
<1>2. CASE host.pc # "await"
  BY <1>1, <1>2 DEF AttemptEnds, IInv, TypeOK, CountInv, CredsInv, TimeInv, InBudget, Decided,
                    Running
<1>3. CASE host.pc = "await"
  <2>1. /\ host' \in Hosts /\ host'.pc \in {"ready", "failed", "backoff"}
        /\ host'.creds = host.creds
        /\ host'.pc = "backoff" => host'.tries < InitRetryAttempts
        /\ \/ host'.floor = host.floor /\ host'.invalidate = host.invalidate
           \/ host'.floor = host.floor /\ host'.invalidate = FALSE
           \/ host'.floor = newest /\ host'.invalidate = TRUE
    BY <1>1, <1>3, AfterAnswer DEF AttemptEnds
  <2>2. TypeOK' /\ CountInv'
    BY <1>1, <2>1 DEF TypeOK, CountInv
  <2>3. newest \in Nat
    BY <1>1, ParametersAssumption DEF TypeOK, Credentials
  <2>4. CredsInv'
    BY <1>1, <1>3, <2>1, <2>3 DEF CredsInv, Running
  <2>5. TimeInv'
    BY <1>1, <1>3, <2>1 DEF TimeInv, InBudget, Decided
  <2> QED
    BY <2>2, <2>4, <2>5 DEF IInv
<1> QED
  BY <1>2, <1>3

LEMMA AskRegionInv ==
    ASSUME NEW code \in KmsErrors \cup {"OK"}
    PROVE  IInv /\ AskRegion(code) => IInv'
<1> SUFFICES ASSUME IInv, AskRegion(code) PROVE IInv'
  OBVIOUS
<1> DEFINE auth == attempt.auth \/ code = "Unauthenticated"
<1>1. code \in Codes /\ Reported(code, auth) \in Codes
  BY DEF Codes, KmsErrors, Reported
<1>2. CASE AttemptEnds("OK") \/ AttemptEnds(Reported(code, auth))
  BY <1>1, <1>2, AttemptEndsInv DEF Codes
<1>3. CASE /\ attempt.at < N
           /\ attempt' = [attempt EXCEPT !.at = @ + 1, !.auth = auth,
                                         !.due = Due(attempt.at + 1)]
           /\ UNCHANGED <<now, sick, newest, cache, host, ready, faults>>
  <2>1. attempt \in Attempts
    BY DEF IInv, TypeOK, AskRegion, Running
  <2>2. attempt.at + 1 \in Regions /\ Due(attempt.at + 1) \in Nat /\ auth \in BOOLEAN
    BY <1>3, <2>1, ParametersAssumption DEF IInv, TypeOK, Attempts, Regions, Due
  <2>3. attempt' \in Attempts /\ attempt'.creds = attempt.creds
    BY <1>3, <2>1, <2>2 DEF Attempts
  <2> QED
    BY <1>3, <2>1, <2>3, NotAnAttempt
    DEF IInv, TypeOK, CountInv, CredsInv, TimeInv, InBudget, Decided, Running
<1> QED
  BY <1>2, <1>3 DEF AskRegion

LEMMA EnclaveEndsInv == IInv /\ (RunTimesOut \/ LocalFailure) => IInv'
<1>1. "Local" \in Codes /\ Reported("DeadlineExceeded", attempt.auth) \in Codes
  BY DEF Codes, KmsErrors, Reported
<1> QED
  BY <1>1, AttemptEndsInv DEF RunTimesOut, LocalFailure

LEMMA CredentialsExpireInv == IInv /\ CredentialsExpire => IInv'
<1> SUFFICES ASSUME IInv, CredentialsExpire PROVE IInv'
  OBVIOUS
<1>1. /\ newest' = newest + 1 /\ faults' = faults + 1 /\ faults < MaxFaults
      /\ newest \in Nat /\ faults \in Nat /\ newest <= faults + 1
      /\ UNCHANGED <<now, sick, cache, host, attempt, ready>>
  BY ParametersAssumption DEF IInv, TypeOK, CountInv, CredentialsExpire, Credentials
<1>2. newest' \in Credentials /\ faults' \in 0 .. MaxFaults
  BY <1>1, ParametersAssumption DEF Credentials, IInv, TypeOK
<1>3. TypeOK'
  BY <1>1, <1>2 DEF IInv, TypeOK
<1>4. CountInv' /\ TimeInv'
  BY <1>1 DEF IInv, CountInv, TimeInv, InBudget, Decided
<1>5. cache \in Nat /\ host.creds \in Nat /\ host.floor \in Nat
      /\ (Running => attempt.creds \in Nat)
  BY ParametersAssumption DEF IInv, TypeOK, Hosts, Attempts, Running, Credentials
<1>6. CredsInv'
  BY <1>1, <1>5 DEF IInv, CredsInv, Running
<1> QED
  BY <1>3, <1>4, <1>6 DEF IInv

LEMMA TickInv == IInv /\ Tick => IInv'
<1> SUFFICES ASSUME IInv, Tick PROVE IInv'
  OBVIOUS
<1>1. /\ now' = now + 1 /\ now \in Nat /\ host \in Hosts
      /\ UNCHANGED <<sick, newest, cache, host, attempt, ready, faults>>
  BY DEF IInv, TypeOK, Tick
<1>2. TypeOK' /\ CountInv' /\ CredsInv'
  BY <1>1 DEF IInv, TypeOK, CountInv, CredsInv, Running
<1>3. host.pc = "await" => now + 1 <= host.timer /\ host.timer <= StartupTimeout
  BY <1>1, ParametersAssumption DEF IInv, TimeInv, Tick, Hosts
<1>4. host.pc = "backoff" => now + 1 <= StartupTimeout
  BY <1>1, ParametersAssumption DEF Tick
<1>5. TimeInv'
  BY <1>1, <1>3, <1>4, ParametersAssumption DEF TimeInv, InBudget, Decided, Tick, Hosts
<1> QED
  BY <1>2, <1>5 DEF IInv

\* Every step of the system preserves the invariant.
LEMMA StepInv == IInv /\ [Next]_vars => IInv'
<1> SUFFICES ASSUME IInv, [Next]_vars PROVE IInv'
  OBVIOUS
<1>1. CASE UNCHANGED vars
  BY <1>1 DEF vars, IInv, TypeOK, CountInv, CredsInv, TimeInv, InBudget, Decided, Running
<1>2. CASE Next
  BY <1>1, <1>2, RetrieveInv, RetrieveFailsInv, CallInv, RpcLostInv, RpcTimesOutInv,
     BackoffEndsInv, AskRegionInv, EnclaveEndsInv, CredentialsExpireInv, TickInv
     DEF Next, Finished
<1> QED
  BY <1>1, <1>2

\* The inductive invariant holds throughout.
THEOREM Inductive == Spec => []IInv
  BY InitInv, StepInv, PTL DEF Spec

\* The type invariant: a retry is never one too many.
THEOREM TypeCorrect == Spec => []TypeOK
<1>1. IInv => TypeOK
  BY DEF IInv
<1> QED
  BY <1>1, Inductive, PTL

\* The enclave never works with credentials from before the last rejection.
THEOREM Fresh == Spec => []FreshAfterRejection
<1>1. IInv => FreshAfterRejection
  BY DEF IInv, CredsInv, FreshAfterRejection
<1> QED
  BY <1>1, Inductive, PTL

\* The startup is decided within its budget.
THEOREM Punctual == Spec => []InBudget
<1>1. IInv => InBudget
  BY DEF IInv, TimeInv
<1> QED
  BY <1>1, Inductive, PTL
-----------------------------------------------------------------------------
(* Why the startup survives what Covered allows *)

\* How long region i can take, and all the regions after it together.
Limit(s, i) == IF i \in s THEN RegionLimit ELSE Prompt
SickAfter(s, i) == {j \in s : j > i}
After(s, i) == Cardinality(SickAfter(s, i)) * RegionLimit + (N - i) * Prompt

\* The attempts of the host that have failed, and those a fault explains:
\* lost RPCs, and rejections, each of which was of older credentials.
Failed == IF host.pc = "backoff" THEN host.tries ELSE host.tries - 1
Rejections == IF host.floor = 0 THEN 0 ELSE host.floor - 1
Explained == faults - (newest - 1) + Rejections

\* Attempts and backoffs, one after the other.
Rounds(n) == n * (AttemptLimit + Backoff)

\* A healthy region that failed has rejected the credentials; the attempt ends
\* within AttemptLimit.
AttemptInv ==
    Running =>
        /\ now <= attempt.due
        /\ \A h \in 1 .. attempt.at - 1 :
              h \notin sick => attempt.auth /\ attempt.creds < newest
        /\ attempt.due + After(sick, attempt.at) + RunTimeout
              <= attempt.deadline + AttemptLimit
        /\ attempt.deadline <= now + RunTimeout

\* The host is as far as its attempts allow, and waits for one that ends first.
RoundInv ==
    /\ ~Decided => Failed <= Explained
    /\ host.pc \in {"retrieve", "call"} => now <= Rounds(host.tries - 1)
    /\ host.pc = "backoff" => now <= host.timer /\ host.timer <= Rounds(host.tries)
    /\ host.pc = "await" =>
          /\ Running
          /\ attempt.due + After(sick, attempt.at) < host.timer
          /\ attempt.due + After(sick, attempt.at) + Backoff <= Rounds(host.tries)

CInv ==
    /\ Cardinality(sick) <= MaxSick
    /\ AttemptInv /\ RoundInv /\ FailsLocallyOnly

CoveredInv == Covered => CInv
-----------------------------------------------------------------------------
(* Arithmetic *)

\* The regions to come take what the next one takes and what is left then.
LEMMA AfterFacts ==
    ASSUME NEW s \in SUBSET Regions, Cardinality(s) <= MaxSick
    PROVE  /\ AttemptLimit \in Nat
           /\ \A i \in 0 .. N : After(s, i) \in Nat
           /\ \A i \in Regions : Limit(s, i) + After(s, i) <= After(s, i - 1)
           /\ After(s, 0) <= AttemptLimit
<1>1. N \in Nat /\ RegionLimit \in Nat /\ Prompt \in Nat /\ MaxSick \in Nat
  BY ParametersAssumption
<1>2. IsFiniteSet(s)
  <2>1. IsFiniteSet(1 .. N)
    BY <1>1, FS_Interval
  <2> QED
    BY <2>1, FS_Subset DEF Regions
<1>3. ASSUME NEW i \in 0 .. N
      PROVE  IsFiniteSet(SickAfter(s, i)) /\ Cardinality(SickAfter(s, i)) \in Nat
  BY <1>2, FS_Subset, FS_CardinalityType DEF SickAfter
<1>4. ASSUME NEW i \in 0 .. N PROVE After(s, i) \in Nat
  <2>1. N - i \in Nat
    BY <1>1
  <2>2. (N - i) * Prompt \in Nat /\ Cardinality(SickAfter(s, i)) * RegionLimit \in Nat
    BY <1>1, <1>3, <2>1
  <2> QED
    BY <2>2 DEF After
<1>5. ASSUME NEW i \in Regions PROVE Limit(s, i) + After(s, i) <= After(s, i - 1)
  <2> DEFINE c == Cardinality(SickAfter(s, i))
             d == Cardinality(SickAfter(s, i - 1))
  <2>1. i \in 1 .. N /\ i - 1 \in 0 .. N /\ i \in 0 .. N
    BY <1>1 DEF Regions
  <2>2. c \in Nat /\ d \in Nat
    BY <1>3, <2>1
  <2>3. (N - (i - 1)) * Prompt = (N - i) * Prompt + Prompt
    BY <1>1, <2>1
  <2>7. \A j \in s : j > i - 1 <=> j > i \/ j = i
    BY <1>1, <2>1 DEF Regions
  <2>4. CASE i \in s
    <3>0. ~(i > i)
      BY <1>1, <2>1
    <3>1. SickAfter(s, i - 1) = SickAfter(s, i) \cup {i} /\ i \notin SickAfter(s, i)
      BY <2>4, <2>7, <3>0, Zenon DEF SickAfter
    <3>2. d = c + 1
      BY <1>3, <2>1, <3>1, FS_AddElement
    <3>3. d * RegionLimit = c * RegionLimit + RegionLimit
      BY <1>1, <2>2, <3>2
    <3>4. Limit(s, i) = RegionLimit
      BY <2>4 DEF Limit
    <3>5. (N - i) * Prompt \in Nat /\ c * RegionLimit \in Nat
      BY <1>1, <2>1, <2>2
    <3> HIDE DEF c, d
    <3>6. After(s, i) = c * RegionLimit + (N - i) * Prompt
          /\ After(s, i - 1) = d * RegionLimit + (N - (i - 1)) * Prompt
      BY DEF After, c, d
    <3> QED
      BY <1>1, <2>3, <3>3, <3>4, <3>5, <3>6
  <2>5. CASE i \notin s
    <3>1. SickAfter(s, i - 1) = SickAfter(s, i)
      BY <2>5, <2>7, Zenon DEF SickAfter
    <3>2. Limit(s, i) = Prompt
      BY <2>5 DEF Limit
    <3>3. (N - i) * Prompt \in Nat /\ c * RegionLimit \in Nat
      BY <1>1, <2>1, <2>2
    <3> HIDE DEF c, d
    <3>4. After(s, i) = c * RegionLimit + (N - i) * Prompt
          /\ After(s, i - 1) = c * RegionLimit + (N - (i - 1)) * Prompt
      BY <3>1 DEF After, c, d
    <3> QED
      BY <1>1, <2>3, <3>2, <3>3, <3>4
  <2> QED
    BY <2>4, <2>5
<1>6. AttemptLimit \in Nat /\ After(s, 0) <= AttemptLimit
  <2> DEFINE c == Cardinality(SickAfter(s, 0))
  <2>1. c \in Nat /\ c <= MaxSick
    BY <1>1, <1>2, <1>3, FS_Subset, FS_CardinalityType DEF SickAfter
  <2>2. PICK k \in Nat : MaxSick = c + k
    <3>1. MaxSick - c \in Nat /\ MaxSick = c + (MaxSick - c)
      BY <1>1, <2>1
    <3> QED
      BY <3>1
  <2> HIDE DEF c
  <2>3. MaxSick * RegionLimit = c * RegionLimit + k * RegionLimit
    BY <1>1, <2>1, <2>2
  <2>4. c * RegionLimit \in Nat /\ k * RegionLimit \in Nat /\ N * Prompt \in Nat
    BY <1>1, <2>1
  <2>5. After(s, 0) = c * RegionLimit + N * Prompt
    BY <1>1 DEF After, c
  <2>6. AttemptLimit = c * RegionLimit + k * RegionLimit + N * Prompt
    BY <2>3 DEF AttemptLimit
  <2> QED
    BY <2>4, <2>5, <2>6
<1> QED
  BY <1>4, <1>5, <1>6

\* As many rounds as there are faults, and one more attempt, fit the budget.
LEMMA RoundFacts ==
    ASSUME Covered, AttemptLimit \in Nat
    PROVE  /\ MaxFaults \in 0 .. 2 /\ Rounds(0) = 0
           /\ \A n \in 0 .. 3 : Rounds(n) \in Nat
           /\ \A n \in 0 .. 2 : Rounds(n + 1) = Rounds(n) + AttemptLimit + Backoff
           /\ \A n \in 0 .. MaxFaults : Rounds(n) + AttemptLimit < StartupTimeout
<1> DEFINE A == AttemptLimit
<1>0. MaxFaults < 3
  BY DEF Covered, InitRetryAttempts
<1>1. A \in Nat /\ Backoff \in Nat /\ StartupTimeout \in Nat /\ MaxFaults \in 0 .. 2
  BY <1>0, ParametersAssumption
<1>2. (MaxFaults + 1) * A + MaxFaults * Backoff < StartupTimeout
  BY DEF Covered
<1>3. \A n : Rounds(n) = n * (A + Backoff)
  BY DEF Rounds
<1> HIDE DEF A
<1>4. Rounds(0) = 0 /\ Rounds(1) = A + Backoff /\ Rounds(2) = 2 * A + 2 * Backoff
      /\ Rounds(3) = 3 * A + 3 * Backoff
  BY <1>1, <1>3
<1>5. \A n \in 0 .. 3 : n = 0 \/ n = 1 \/ n = 2 \/ n = 3
  OBVIOUS
<1>6. \A n \in 0 .. 3 : Rounds(n) \in Nat
  BY <1>1, <1>4, <1>5
<1>7. \A n \in 0 .. 2 : Rounds(n + 1) = Rounds(n) + A + Backoff
  BY <1>1, <1>4
<1>8. \A n \in 0 .. MaxFaults : Rounds(n) + A < StartupTimeout
  <2>1. CASE MaxFaults = 0
    BY <1>1, <1>2, <1>4, <2>1
  <2>2. CASE MaxFaults = 1
    BY <1>1, <1>2, <1>4, <2>2
  <2>3. CASE MaxFaults = 2
    BY <1>1, <1>2, <1>4, <2>3
  <2> QED
    BY <1>1, <2>1, <2>2, <2>3
<1> QED
  BY <1>1, <1>4, <1>6, <1>7, <1>8 DEF A
-----------------------------------------------------------------------------
(* Every step keeps what Covered promises *)

\* Where a host stands that has not decided yet.
LEMMA Standing ==
    ASSUME Covered, IInv, CInv
    PROVE  /\ sick \in SUBSET Regions /\ AttemptLimit \in Nat
           /\ {now, newest, faults, host.timer, host.floor, MaxFaults, Backoff} \subseteq Nat
           /\ host \in Hosts /\ host.tries \in 1 .. 3
           /\ Explained \in Int /\ Explained <= faults /\ Rejections \in Nat
           /\ ~Decided => Failed <= faults /\ Failed \in 0 .. MaxFaults
<1>1. sick \in SUBSET Regions /\ host \in Hosts /\ newest \in Credentials /\ now \in Nat
      /\ faults \in 0 .. MaxFaults /\ host.floor <= newest
  BY DEF IInv, TypeOK, CredsInv
<1>2. AttemptLimit \in Nat
  BY <1>1, AfterFacts DEF CInv
<1>3. host.floor \in Nat /\ host.timer \in Nat /\ host.tries \in 1 .. 3
  BY <1>1, ParametersAssumption DEF Hosts, Credentials, InitRetryAttempts
<1>4. newest \in Nat \ {0} /\ faults \in Nat /\ MaxFaults \in Nat /\ Backoff \in Nat
  BY <1>1, ParametersAssumption DEF Credentials
<1>5. Rejections \in Nat /\ Rejections <= newest - 1
  BY <1>1, <1>3, <1>4 DEF Rejections
<1>6. Explained \in Int /\ Explained <= faults
  BY <1>4, <1>5 DEF Explained
<1>7. Failed \in Nat
  BY <1>3 DEF Failed
<1>8. ~Decided => Failed <= faults /\ Failed \in 0 .. MaxFaults
  BY <1>1, <1>4, <1>6, <1>7 DEF CInv, RoundInv
<1> QED
  BY <1>1, <1>2, <1>3, <1>4, <1>5, <1>6, <1>8

\* The same for an attempt.
LEMMA Attempting ==
    ASSUME IInv, CInv, Running
    PROVE  /\ attempt \in Attempts /\ attempt.at \in Regions
           /\ {attempt.due, attempt.deadline} \subseteq Nat
           /\ After(sick, attempt.at) \in Nat
<1>1. attempt \in Attempts /\ sick \in SUBSET Regions
  BY DEF IInv, TypeOK, Running
<1>2. attempt.at \in Regions /\ attempt.at \in 0 .. N
  BY <1>1, ParametersAssumption DEF Attempts, Regions
<1> QED
  BY <1>1, <1>2, AfterFacts DEF Attempts, CInv

\* A failure that counts as a fault, or that rejects older credentials, makes
\* the host back off: it has attempts left.
LEMMA BacksOff ==
    ASSUME Covered, IInv, CInv, host.pc \in {"call", "await"},
           UNCHANGED <<now, sick, newest>>, faults' \in 0 .. MaxFaults,
           NEW code \in {"Unavailable", "Unauthenticated"}, HostGets(code),
           \/ code = "Unavailable" /\ faults' = faults + 1
           \/ code = "Unauthenticated" /\ faults' = faults
              /\ host.floor < newest /\ 1 < newest
    PROVE  RoundInv' /\ FailsLocallyOnly'
<1>1. /\ {now, newest, faults, host.timer, host.floor, MaxFaults, Backoff} \subseteq Nat
      /\ host \in Hosts /\ host.tries \in 1 .. 3 /\ Rejections \in Nat
      /\ AttemptLimit \in Nat /\ sick \in SUBSET Regions
  BY Standing
<1>2. host.tries - 1 <= faults - (newest - 1) + Rejections /\ Rejections <= newest - 1
  <2>1. ~Decided /\ Failed = host.tries - 1
    BY DEF Decided, Failed
  <2>2. Failed <= Explained
    BY <2>1 DEF CInv, RoundInv
  <2>3. host.floor <= newest /\ newest # 0
    BY ParametersAssumption DEF IInv, CredsInv, TypeOK, Credentials
  <2> QED
    BY <1>1, <2>1, <2>2, <2>3 DEF Explained, Rejections
<1>3. code \in Codes /\ code \in Retryable
  BY DEF Codes, KmsErrors, Retryable
<1> DEFINE rejected == IF code = "Unauthenticated" THEN newest - 1 ELSE Rejections
<1>4. host.tries <= faults' - (newest - 1) + rejected /\ rejected <= newest - 1
  BY <1>1, <1>2 DEF Rejections
<1>5. rejected \in Nat /\ faults' \in Nat /\ faults' <= MaxFaults /\ MaxFaults < 3
  BY <1>1, RoundFacts DEF Rejections
<1>6. host.tries < InitRetryAttempts
  <2> HIDE DEF rejected
  <2> QED
    BY <1>1, <1>4, <1>5 DEF InitRetryAttempts
<1>7. Retry(code)
  BY <1>1, <1>3, <1>6 DEF HostGets, InitRetryAttempts, Retryable
<1>8. /\ host'.pc = "backoff" /\ host'.tries = host.tries /\ host'.timer = now + Backoff
      /\ host'.floor = IF code = "Unauthenticated" THEN newest ELSE host.floor
  BY <1>1, <1>7 DEF Retry, Hosts
<1>9. Rejections' = rejected
  BY <1>1, <1>8 DEF Rejections
<1>10. (~Decided => Failed <= Explained)'
  <2>1. newest' = newest
    OBVIOUS
  <2>2. Failed' = host.tries /\ Explained' = faults' - (newest - 1) + rejected
    BY <1>8, <1>9, <2>1 DEF Failed, Explained
  <2> QED
    BY <1>4, <2>2
<1>11. now + Backoff <= Rounds(host.tries)
  <2>1. CASE host.pc = "call"
    <3>1. now <= Rounds(host.tries - 1)
      BY <2>1 DEF CInv, RoundInv
    <3>2. host.tries - 1 \in 0 .. 2 /\ host.tries - 1 + 1 = host.tries
      BY <1>1
    <3>3. /\ Rounds(host.tries - 1) \in Nat
          /\ Rounds(host.tries) = Rounds(host.tries - 1) + AttemptLimit + Backoff
      BY <1>1, <3>2, RoundFacts
    <3> QED
      BY <1>1, <3>1, <3>3
  <2>2. CASE host.pc = "await"
    <3>1. Running /\ now <= attempt.due
          /\ attempt.due + After(sick, attempt.at) + Backoff <= Rounds(host.tries)
      BY <2>2 DEF CInv, RoundInv, AttemptInv
    <3>2. attempt.due \in Nat /\ After(sick, attempt.at) \in Nat
      BY <3>1, Attempting
    <3>3. Rounds(host.tries) \in Nat
      BY <1>1, RoundFacts
    <3> QED
      BY <1>1, <3>1, <3>2, <3>3
  <2> QED
    BY <2>1, <2>2
<1>12. RoundInv'
  <2>1. now' <= host'.timer /\ host'.timer <= Rounds(host'.tries)
    BY <1>1, <1>8, <1>11
  <2> QED
    BY <1>8, <1>10, <2>1 DEF RoundInv, Rounds, AttemptLimit
<1> QED
  BY <1>8, <1>12 DEF FailsLocallyOnly

\* The attempt a request starts or joins ends within AttemptLimit.
LEMMA JoinedInTime ==
    ASSUME IInv, CInv, NEW c \in Credentials
    PROVE  /\ Joined(c) \in Attempts
           /\ now <= Joined(c).due
           /\ \A h \in 1 .. Joined(c).at - 1 :
                 h \notin sick => Joined(c).auth /\ Joined(c).creds < newest
           /\ Joined(c).due + After(sick, Joined(c).at) + RunTimeout
                 <= Joined(c).deadline + AttemptLimit
           /\ Joined(c).deadline <= now + RunTimeout
           /\ Joined(c).due + After(sick, Joined(c).at) <= now + AttemptLimit
<1>1. TypeOK /\ now \in Nat /\ RunTimeout \in Nat /\ sick \in SUBSET Regions
      /\ RegionLimit \in Nat /\ Prompt \in Nat /\ N \in Nat \ {0}
  BY ParametersAssumption DEF IInv, TypeOK
<1>2. AttemptLimit \in Nat
  BY <1>1, AfterFacts DEF CInv
<1>3. Joined(c) \in Attempts
  BY <1>1, JoinedType
<1>4. CASE Running
  <2>1. Joined(c) = attempt
    BY <1>1, <1>4, JoinedType
  <2>2. /\ {attempt.due, attempt.deadline} \subseteq Nat
        /\ After(sick, attempt.at) \in Nat
    BY <1>4, Attempting
  <2> QED
    BY <1>1, <1>2, <1>3, <1>4, <2>1, <2>2 DEF CInv, AttemptInv
<1>5. CASE ~Running
  <2>1. /\ Joined(c).at = 1 /\ Joined(c).due = now + Limit(sick, 1)
        /\ Joined(c).deadline = now + RunTimeout
    BY <1>1, <1>5, JoinedType DEF Due, Limit
  <2>2. 1 \in Regions /\ 0 \in 0 .. N /\ 1 \in 0 .. N
    BY <1>1 DEF Regions
  <2>3. Limit(sick, 1) + After(sick, 1) <= After(sick, 1 - 1) /\ After(sick, 0) <= AttemptLimit
        /\ After(sick, 0) \in Nat /\ After(sick, 1) \in Nat
    BY <1>1, <2>2, AfterFacts DEF CInv
  <2>4. Limit(sick, 1) \in Nat
    BY <1>1 DEF Limit
  <2>5. Limit(sick, 1) + After(sick, 1) <= AttemptLimit
    BY <1>2, <2>3, <2>4
  <2>6. 1 .. Joined(c).at - 1 = {}
    BY <2>1
  <2> QED
    BY <1>1, <1>2, <1>3, <2>1, <2>3, <2>4, <2>5, <2>6
<1> QED
  BY <1>4, <1>5

\* The attempt is what it was, or one that a request has just joined.
LEMMA AttemptKept ==
    ASSUME IInv, CInv, UNCHANGED <<now, sick, newest>>, NEW c \in Credentials,
           attempt' \in {attempt, Joined(c)}
    PROVE  AttemptInv'
<1>1. CASE attempt' = attempt
  BY <1>1 DEF CInv, AttemptInv, Running
<1>2. CASE attempt' = Joined(c)
  BY <1>2, JoinedInTime DEF AttemptInv
<1> QED
  BY <1>1, <1>2

LEMMA SickKept ==
    ASSUME CInv, sick' = sick, AttemptInv', RoundInv', FailsLocallyOnly'
    PROVE  CInv'
  BY DEF CInv

LEMMA RetrieveCovered == Covered /\ IInv /\ CInv /\ (Retrieve \/ RetrieveFails) => CInv'
<1> SUFFICES ASSUME Covered, IInv, CInv, Retrieve \/ RetrieveFails PROVE CInv'
  OBVIOUS
<1>1. /\ UNCHANGED <<now, sick, newest, attempt, faults>>
      /\ host.pc = "retrieve" /\ host \in Hosts
  BY DEF Retrieve, RetrieveFails, IInv, TypeOK
<1>2. AttemptInv'
  BY <1>1 DEF CInv, AttemptInv, Running
<1>3. \/ host'.pc = "call" /\ host'.tries = host.tries /\ host'.floor = host.floor
      \/ host'.pc = "failed" /\ host'.why = "Credentials"
  BY <1>1 DEF Retrieve, RetrieveFails, Fail, Hosts
<1>4. RoundInv' /\ FailsLocallyOnly'
  BY <1>1, <1>3 DEF CInv, RoundInv, FailsLocallyOnly, Decided, Failed, Explained, Rejections,
                    Rounds, AttemptLimit
<1> QED
  BY <1>1, <1>2, <1>4, SickKept

LEMMA CallCovered == Covered /\ IInv /\ CInv /\ Call => CInv'
<1> SUFFICES ASSUME Covered, IInv, CInv, Call PROVE CInv'
  OBVIOUS
<1>1. /\ host.pc = "call" /\ UNCHANGED <<now, sick, newest, cache, ready, faults>>
      /\ host \in Hosts /\ host.creds \in Credentials
  BY DEF Call, IInv, TypeOK, CredsInv, Hosts
<1>2. /\ {now, newest, faults, host.timer, MaxFaults, Backoff} \subseteq Nat
      /\ AttemptLimit \in Nat /\ host.tries \in 1 .. 3 /\ host.tries - 1 \in 0 .. MaxFaults
      /\ Failed <= Explained /\ now <= Rounds(host.tries - 1)
  BY <1>1, Standing DEF CInv, RoundInv, Decided, Failed
<1>3. /\ host.tries - 1 \in 0 .. 2 /\ host.tries - 1 + 1 = host.tries
      /\ StartupTimeout \in Nat /\ RpcTimeout \in Nat
  BY <1>2, ParametersAssumption
<1>4. /\ Rounds(host.tries - 1) \in Nat
      /\ Rounds(host.tries) = Rounds(host.tries - 1) + AttemptLimit + Backoff
      /\ Rounds(host.tries - 1) + AttemptLimit < StartupTimeout
  BY <1>2, <1>3, RoundFacts
<1>5. now + AttemptLimit < StartupTimeout /\ now < StartupTimeout
  BY <1>2, <1>3, <1>4
<1>6. CASE ready /\ HostGets("OK") /\ UNCHANGED attempt
  <2>1. host'.pc = "ready"
    BY <1>1, <1>6 DEF HostGets, Retryable, Hosts
  <2>2. RoundInv' /\ FailsLocallyOnly'
    BY <2>1 DEF RoundInv, FailsLocallyOnly, Decided
  <2> QED
    BY <1>1, <1>6, <2>2, AttemptKept, SickKept
<1>7. CASE /\ host' = [host EXCEPT !.pc = "await", !.timer = RpcDeadline]
           /\ attempt' = Joined(host.creds)
  <2> DEFINE end == attempt'.due + After(sick, attempt'.at)
  <2>1. /\ host'.pc = "await" /\ host'.timer = RpcDeadline /\ host'.tries = host.tries
        /\ host'.floor = host.floor
    BY <1>1, <1>7 DEF Hosts
  <2>2. attempt' \in Attempts /\ end <= now + AttemptLimit
    BY <1>1, <1>7, JoinedInTime
  <2>3. end \in Nat
    <3>1. attempt'.due \in Nat /\ attempt'.at \in 0 .. N
      BY <2>2, ParametersAssumption DEF Attempts, Regions
    <3>2. After(sick, attempt'.at) \in Nat
      BY <3>1, Standing, AfterFacts DEF CInv
    <3> QED
      BY <3>1, <3>2
  <2>4. AttemptLimit < RpcTimeout
    BY DEF Covered
  <2> HIDE DEF end
  <2>5. end < RpcDeadline
    BY <1>2, <1>3, <1>5, <2>2, <2>3, <2>4 DEF RpcDeadline, Earlier
  <2>6. end + Backoff <= Rounds(host.tries)
    BY <1>2, <1>4, <2>2, <2>3
  <2>7. (~Decided => Failed <= Explained)'
    BY <1>1, <1>2, <2>1 DEF Failed, Explained, Rejections
  <2>8. RoundInv'
    BY <1>1, <2>1, <2>2, <2>5, <2>6, <2>7, NotAnAttempt
    DEF RoundInv, Running, Rounds, AttemptLimit, end
  <2>9. FailsLocallyOnly'
    BY <2>1 DEF FailsLocallyOnly
  <2> QED
    BY <1>1, <1>7, <2>8, <2>9, AttemptKept, SickKept
<1>8. CASE now >= StartupTimeout
  BY <1>2, <1>3, <1>5, <1>8
<1> QED
  BY <1>6, <1>7, <1>8 DEF Call

LEMMA RpcLostCovered == Covered /\ IInv /\ CInv /\ RpcLost => CInv'
<1> SUFFICES ASSUME Covered, IInv, CInv, RpcLost PROVE CInv'
  OBVIOUS
<1>1. /\ host.pc \in {"call", "await"} /\ UNCHANGED <<now, sick, newest>>
      /\ HostGets("Unavailable") /\ faults' = faults + 1
      /\ attempt' \in {attempt, Joined(host.creds)}
  BY DEF RpcLost
<1>2. faults' \in 0 .. MaxFaults
  BY ParametersAssumption DEF RpcLost, IInv, TypeOK
<1>3. RoundInv' /\ FailsLocallyOnly'
  BY <1>1, <1>2, BacksOff
<1>4. host.creds \in Credentials
  BY <1>1 DEF IInv, TypeOK, CredsInv, Hosts
<1> QED
  BY <1>1, <1>3, <1>4, AttemptKept, SickKept

\* No RPC reaches its deadline: the attempt ends first.
LEMMA RpcTimesOutCovered == Covered /\ IInv /\ CInv => ~RpcTimesOut
<1> SUFFICES ASSUME Covered, IInv, CInv, RpcTimesOut PROVE FALSE
  OBVIOUS
<1>1. /\ now >= host.timer /\ Running /\ now <= attempt.due
      /\ attempt.due + After(sick, attempt.at) < host.timer
  BY DEF RpcTimesOut, CInv, RoundInv, AttemptInv
<1>2. now \in Nat /\ host.timer \in Nat /\ attempt.due \in Nat /\ After(sick, attempt.at) \in Nat
  BY <1>1, Standing, Attempting
<1> QED
  BY <1>1, <1>2

LEMMA BackoffEndsCovered == Covered /\ IInv /\ CInv /\ BackoffEnds => CInv'
<1> SUFFICES ASSUME Covered, IInv, CInv, BackoffEnds PROVE CInv'
  OBVIOUS
<1>1. /\ host.pc = "backoff" /\ UNCHANGED <<now, sick, newest, cache, attempt, ready, faults>>
      /\ host \in Hosts
  BY DEF BackoffEnds, IInv, TypeOK
<1>2. /\ {now, host.timer} \subseteq Nat /\ AttemptLimit \in Nat
      /\ host.tries \in 1 .. 3 /\ host.tries \in 0 .. MaxFaults /\ MaxFaults \in 0 .. 2
      /\ Failed <= Explained /\ now <= host.timer /\ host.timer <= Rounds(host.tries)
  BY <1>1, Standing, RoundFacts DEF CInv, RoundInv, Decided, Failed
<1>3. host.tries < 3 /\ host.tries + 1 - 1 = host.tries
  BY <1>2
<1>4. now <= Rounds(host.tries) /\ now < StartupTimeout
  <2>1. Rounds(host.tries) \in Nat /\ Rounds(host.tries) + AttemptLimit < StartupTimeout
    BY <1>2, RoundFacts
  <2> QED
    BY <1>2, <2>1, ParametersAssumption
<1>5. ~(now >= StartupTimeout)
  BY <1>2, <1>4, ParametersAssumption
<1>6. host' = [host EXCEPT !.pc = "retrieve", !.tries = @ + 1]
  BY <1>5 DEF BackoffEnds
<1>7. host'.pc = "retrieve" /\ host'.tries = host.tries + 1 /\ host'.floor = host.floor
  BY <1>1, <1>6 DEF Hosts
<1>8. RoundInv' /\ FailsLocallyOnly'
  <2>1. Failed = host.tries /\ Failed' = host'.tries - 1
    BY <1>1, <1>7 DEF Failed
  <2>2. Explained' = Explained
    BY <1>1, <1>7 DEF Explained, Rejections
  <2>3. host'.tries - 1 = host.tries
    BY <1>2, <1>7
  <2>4. now' <= Rounds(host.tries)
    BY <1>1, <1>4
  <2> QED
    BY <1>2, <1>7, <2>1, <2>2, <2>3, <2>4 DEF RoundInv, FailsLocallyOnly, Rounds, AttemptLimit
<1>9. AttemptInv'
  BY <1>1 DEF CInv, AttemptInv, Running
<1> QED
  BY <1>1, <1>8, <1>9, SickKept

\* One attempt is over: the host has what it waited for, or backs off from
\* credentials that were older.
LEMMA AttemptEndsCovered ==
    ASSUME Covered, IInv, CInv, NEW code \in {"OK", "Local", "Unauthenticated"},
           AttemptEnds(code),
           code = "Unauthenticated" => host.floor < newest /\ 1 < newest
    PROVE  CInv'
<1>1. /\ UNCHANGED <<now, sick, newest, faults>> /\ ~Running' /\ host \in Hosts
      /\ faults' \in 0 .. MaxFaults
  BY DEF AttemptEnds, IInv, TypeOK, Running
<1>2. AttemptInv'
  BY <1>1 DEF AttemptInv
<1>3. CASE host.pc # "await"
  <2>1. host' = host
    BY <1>3 DEF AttemptEnds
  <2>2. RoundInv' /\ FailsLocallyOnly'
    BY <1>1, <1>3, <2>1 DEF CInv, RoundInv, FailsLocallyOnly, Decided, Failed, Explained,
                            Rejections, Rounds, AttemptLimit
  <2> QED
    BY <1>1, <1>2, <2>2, SickKept
<1>4. CASE host.pc = "await"
  <2>1. HostGets(code)
    BY <1>4 DEF AttemptEnds
  <2>2. CASE code = "Unauthenticated"
    <3>1. host.pc \in {"call", "await"} /\ code \in {"Unavailable", "Unauthenticated"}
          /\ faults' = faults
      BY <1>1, <1>4, <2>2
    <3>2. RoundInv' /\ FailsLocallyOnly'
      BY <1>1, <2>1, <2>2, <3>1, BacksOff
    <3> QED
      BY <1>1, <1>2, <3>2, SickKept
  <2>3. CASE code # "Unauthenticated"
    <3>1. \/ host' = [host EXCEPT !.pc = "ready"]
          \/ host' = [host EXCEPT !.pc = "failed", !.why = "Local"]
      BY <2>1, <2>3 DEF HostGets, Retryable, Fail
    <3>2. \/ host'.pc = "ready"
          \/ host'.pc = "failed" /\ host'.why = "Local"
      BY <1>1, <3>1 DEF Hosts
    <3>3. RoundInv' /\ FailsLocallyOnly'
      BY <3>2 DEF RoundInv, FailsLocallyOnly, Decided
    <3> QED
      BY <1>1, <1>2, <3>3, SickKept
  <2> QED
    BY <2>2, <2>3
<1> QED
  BY <1>3, <1>4

\* Some region is healthy.
LEMMA SomeHealthy ==
    ASSUME Covered, IInv, CInv
    PROVE  \E h \in Regions : h \notin sick
<1>1. N \in Nat \ {0} /\ sick \subseteq Regions /\ Cardinality(sick) <= MaxSick
      /\ MaxSick < N /\ MaxSick \in Nat
  BY ParametersAssumption DEF IInv, TypeOK, CInv, Covered
<1>2. Cardinality(1 .. N) = N
  BY <1>1, FS_Interval
<1>3. CASE sick = 1 .. N
  BY <1>1, <1>2, <1>3
<1> QED
  BY <1>1, <1>3 DEF Regions

\* What a healthy region refuses it refuses for the credentials, and those are
\* not the newest.
LEMMA Refused ==
    ASSUME IInv, CInv, NEW code \in KmsErrors \cup {"OK"}, AskRegion(code), code # "OK",
           NEW h \in 1 .. attempt.at, h \notin sick
    PROVE  /\ attempt.auth \/ code = "Unauthenticated"
           /\ attempt.creds < newest
<1>1. Running /\ attempt.at \in Nat /\ newest \in Nat /\ attempt.creds \in Nat
      /\ attempt.creds <= newest /\ code \in RegionAnswers
  BY ParametersAssumption
  DEF AskRegion, IInv, TypeOK, CredsInv, Running, Attempts, Regions, Credentials
<1>2. CASE h = attempt.at
  BY <1>1, <1>2 DEF RegionAnswers
<1>3. CASE h # attempt.at
  <2>1. h \in 1 .. attempt.at - 1
    BY <1>1, <1>3
  <2> QED
    BY <1>1, <2>1 DEF CInv, AttemptInv
<1> QED
  BY <1>2, <1>3

\* The next region is asked within the time that was left for it.
LEMMA NextRegion ==
    ASSUME Covered, IInv, CInv, NEW code \in KmsErrors \cup {"OK"}, AskRegion(code),
           code # "OK", attempt.at < N,
           attempt' = [attempt EXCEPT !.at = @ + 1, !.due = Due(attempt.at + 1),
                                      !.auth = attempt.auth \/ code = "Unauthenticated"],
           UNCHANGED <<now, sick, newest, cache, host, ready, faults>>
    PROVE  CInv'
<1> DEFINE i == attempt.at + 1
<1>1. Running /\ attempt \in Attempts /\ attempt.at \in Regions /\ now \in Nat
      /\ {attempt.due, attempt.deadline} \subseteq Nat /\ After(sick, attempt.at) \in Nat
      /\ AttemptLimit \in Nat /\ sick \in SUBSET Regions /\ RunTimeout \in Nat
  BY Attempting, Standing, ParametersAssumption DEF AskRegion
<1>2. i \in Regions /\ i \in 0 .. N /\ i - 1 = attempt.at
  BY <1>1, ParametersAssumption DEF Regions
<1>3. Limit(sick, i) \in Nat /\ Due(i) = now + Limit(sick, i)
  BY <1>1, ParametersAssumption DEF Limit, Due
<1>4. After(sick, i) \in Nat /\ Limit(sick, i) + After(sick, i) <= After(sick, attempt.at)
  <2>1. Limit(sick, i) + After(sick, i) <= After(sick, i - 1)
    BY <1>1, <1>2, AfterFacts DEF CInv
  <2> QED
    BY <1>1, <1>2, <2>1, AfterFacts DEF CInv
<1>5. /\ attempt'.at = i /\ attempt'.due = now + Limit(sick, i)
      /\ attempt'.auth = (attempt.auth \/ code = "Unauthenticated")
      /\ attempt'.creds = attempt.creds /\ attempt'.deadline = attempt.deadline
  BY <1>1, <1>3 DEF Attempts
<1>6. now <= attempt.due
  BY <1>1 DEF CInv, AttemptInv
<1>7. now <= attempt'.due /\ attempt'.due \in Nat
      /\ attempt'.due + After(sick, i) <= attempt.due + After(sick, attempt.at)
  <2> HIDE DEF i
  <2> QED
    BY <1>1, <1>3, <1>4, <1>5, <1>6
<1>8. \A h \in 1 .. attempt'.at - 1 :
         h \notin sick => attempt'.auth /\ attempt'.creds < newest
  BY <1>2, <1>5, Refused
<1>9. AttemptInv'
  <2>1. /\ attempt.due + After(sick, attempt.at) + RunTimeout
               <= attempt.deadline + AttemptLimit
        /\ attempt.deadline <= now + RunTimeout
    BY <1>1 DEF CInv, AttemptInv
  <2> HIDE DEF i
  <2>2. attempt'.due + After(sick, i) + RunTimeout <= attempt.deadline + AttemptLimit
    BY <1>1, <1>4, <1>7, <2>1
  <2>3. /\ attempt'.due + After(sick, attempt'.at) + RunTimeout
               <= attempt'.deadline + AttemptLimit
        /\ attempt'.deadline <= now + RunTimeout
    BY <1>5, <2>1, <2>2
  <2> QED
    BY <1>7, <1>8, <2>3 DEF AttemptInv
<1>10. RoundInv' /\ FailsLocallyOnly'
  <2>1. Running'
    <3>1. attempt'.at # 0
      BY <1>2, <1>5, ParametersAssumption DEF Regions
    <3>2. NoAttempt.at = 0
      BY DEF NoAttempt
    <3> QED
      BY <3>1, <3>2 DEF Running
  <2>2. ASSUME host.pc = "await"
        PROVE  /\ attempt'.due + After(sick, i) < host.timer
               /\ attempt'.due + After(sick, i) + Backoff <= Rounds(host.tries)
    <3>1. /\ attempt.due + After(sick, attempt.at) < host.timer
          /\ attempt.due + After(sick, attempt.at) + Backoff <= Rounds(host.tries)
      BY <2>2 DEF CInv, RoundInv
    <3>2. host.timer \in Nat /\ Backoff \in Nat /\ Rounds(host.tries) \in Nat
      BY <1>1, Standing, RoundFacts
    <3> HIDE DEF i
    <3> QED
      BY <1>1, <1>4, <1>7, <3>1, <3>2
  <2> HIDE DEF i
  <2> QED
    BY <1>5, <2>1, <2>2
    DEF CInv, RoundInv, FailsLocallyOnly, Decided, Failed, Explained, Rejections, Rounds,
        AttemptLimit, After, SickAfter
<1> QED
  BY <1>9, <1>10, SickKept

LEMMA AskRegionCovered ==
    ASSUME Covered, IInv, CInv, NEW code \in KmsErrors \cup {"OK"}, AskRegion(code)
    PROVE  CInv'
<1> DEFINE auth == attempt.auth \/ code = "Unauthenticated"
<1>1. CASE code = "OK" /\ AttemptEnds("OK")
  BY <1>1, AttemptEndsCovered
<1>2. CASE code # "OK" /\ attempt.at = N /\ AttemptEnds(Reported(code, auth))
  <2>1. PICK h \in 1 .. attempt.at : h \notin sick
    BY <1>2, SomeHealthy DEF Regions
  <2>2. auth /\ attempt.creds < newest
    BY <1>2, <2>1, Refused
  <2>3. AttemptEnds("Unauthenticated")
    BY <1>2, <2>2 DEF Reported
  <2>4. Running /\ attempt.creds \in Nat \ {0} /\ newest \in Nat /\ host.floor \in Nat
        /\ host.floor <= attempt.creds
    BY ParametersAssumption
    DEF AskRegion, IInv, TypeOK, CredsInv, Running, Attempts, Hosts, Credentials
  <2> QED
    BY <2>2, <2>3, <2>4, AttemptEndsCovered
<1>3. CASE /\ code # "OK" /\ attempt.at < N
           /\ attempt' = [attempt EXCEPT !.at = @ + 1, !.auth = auth,
                                         !.due = Due(attempt.at + 1)]
           /\ UNCHANGED <<now, sick, newest, cache, host, ready, faults>>
  <2>1. attempt' = [attempt EXCEPT !.at = @ + 1, !.due = Due(attempt.at + 1), !.auth = auth]
    BY <1>3
  <2> QED
    BY <1>3, <2>1, NextRegion
<1> QED
  BY <1>1, <1>2, <1>3 DEF AskRegion

\* No attempt reaches its deadline.
LEMMA RunTimesOutCovered == Covered /\ IInv /\ CInv => ~RunTimesOut
<1> SUFFICES ASSUME Covered, IInv, CInv, RunTimesOut PROVE FALSE
  OBVIOUS
<1>1. /\ Running /\ now >= attempt.deadline /\ now <= attempt.due
      /\ attempt.due + After(sick, attempt.at) + RunTimeout
            <= attempt.deadline + AttemptLimit
      /\ AttemptLimit < RunTimeout
  BY DEF RunTimesOut, CInv, AttemptInv, Covered
<1>2. /\ {attempt.due, attempt.deadline, now} \subseteq Nat
      /\ After(sick, attempt.at) \in Nat /\ AttemptLimit \in Nat /\ RunTimeout \in Nat
  BY <1>1, Standing, Attempting, ParametersAssumption
<1> QED
  BY <1>1, <1>2

LEMMA LocalFailureCovered == Covered /\ IInv /\ CInv /\ LocalFailure => CInv'
  BY AttemptEndsCovered DEF LocalFailure

LEMMA CredentialsExpireCovered == Covered /\ IInv /\ CInv /\ CredentialsExpire => CInv'
<1> SUFFICES ASSUME Covered, IInv, CInv, CredentialsExpire PROVE CInv'
  OBVIOUS
<1>1. /\ newest' = newest + 1 /\ faults' = faults + 1 /\ newest \in Nat /\ faults \in Nat
      /\ UNCHANGED <<now, sick, cache, host, attempt, ready>> /\ Rejections \in Nat
  BY Standing DEF CredentialsExpire
<1>2. AttemptInv'
  <2>1. Running => attempt.creds \in Nat
    BY ParametersAssumption DEF IInv, TypeOK, Running, Attempts, Credentials
  <2>2. Running => \A h \in 1 .. attempt.at - 1 :
           h \notin sick => attempt.auth /\ attempt.creds < newest + 1
    BY <1>1, <2>1 DEF CInv, AttemptInv
  <2> QED
    BY <1>1, <2>2 DEF CInv, AttemptInv, Running, After, SickAfter, AttemptLimit
<1>3. Explained' = Explained
  BY <1>1 DEF Explained, Rejections
<1>4. RoundInv' /\ FailsLocallyOnly'
  BY <1>1, <1>3
  DEF CInv, RoundInv, FailsLocallyOnly, Decided, Failed, Running, Rounds, AttemptLimit,
      After, SickAfter
<1> QED
  BY <1>1, <1>2, <1>4, SickKept

LEMMA TickCovered == Covered /\ IInv /\ CInv /\ Tick => CInv'
<1> SUFFICES ASSUME Covered, IInv, CInv, Tick PROVE CInv'
  OBVIOUS
<1>1. /\ now' = now + 1 /\ now \in Nat /\ host.timer \in Nat
      /\ UNCHANGED <<sick, newest, cache, host, attempt, ready, faults>>
  BY Standing DEF Tick
<1>2. AttemptInv'
  <2>1. Running => now + 1 <= attempt.due /\ attempt.deadline <= now + 1 + RunTimeout
    BY <1>1, Attempting, ParametersAssumption DEF Tick, CInv, AttemptInv
  <2> QED
    BY <1>1, <2>1 DEF CInv, AttemptInv, Running, After, SickAfter, AttemptLimit
<1>3. RoundInv' /\ FailsLocallyOnly'
  <2>1. host.pc \notin {"retrieve", "call"} /\ (host.pc = "backoff" => now + 1 <= host.timer)
    BY <1>1 DEF Tick
  <2>2. Failed' = Failed /\ Explained' = Explained
    BY <1>1 DEF Failed, Explained, Rejections
  <2> QED
    BY <1>1, <2>1, <2>2
    DEF CInv, RoundInv, FailsLocallyOnly, Decided, Running, Rounds, AttemptLimit, After,
        SickAfter
<1> QED
  BY <1>1, <1>2, <1>3, SickKept

LEMMA InitCovered == Covered /\ Init => CInv
<1> SUFFICES ASSUME Covered, Init PROVE CInv
  OBVIOUS
<1>1. now = 0 /\ newest = 1 /\ faults = 0 /\ attempt = NoAttempt /\ host.pc = "retrieve"
      /\ host.tries = 1 /\ host.floor = 0
  BY DEF Init
<1>2. Cardinality(sick) <= MaxSick /\ sick \in SUBSET Regions
  BY DEF Init
<1>3. Failed = 0 /\ Explained = 0
  BY <1>1 DEF Failed, Explained, Rejections
<1>4. Rounds(0) = 0
  BY <1>2, AfterFacts, RoundFacts
<1>5. now <= Rounds(host.tries - 1)
  BY <1>1, <1>4
<1> QED
  BY <1>1, <1>2, <1>3, <1>5 DEF CInv, AttemptInv, RoundInv, FailsLocallyOnly, Running

LEMMA StepCovered == Covered /\ IInv /\ CInv /\ [Next]_vars => CInv'
<1> SUFFICES ASSUME Covered, IInv, CInv, [Next]_vars PROVE CInv'
  OBVIOUS
<1>1. CASE UNCHANGED vars
  <2>1. AttemptInv' /\ RoundInv' /\ FailsLocallyOnly'
    BY <1>1
    DEF vars, CInv, AttemptInv, RoundInv, FailsLocallyOnly, Decided, Failed, Explained,
        Rejections, Running, Rounds, AttemptLimit, After, SickAfter
  <2> QED
    BY <1>1, <2>1, SickKept DEF vars
<1>2. CASE Next
  BY <1>1, <1>2, RetrieveCovered, CallCovered, RpcLostCovered, RpcTimesOutCovered,
     BackoffEndsCovered, AskRegionCovered, RunTimesOutCovered, LocalFailureCovered,
     CredentialsExpireCovered, TickCovered
     DEF Next, Finished
<1> QED
  BY <1>1, <1>2

\* With a healthy region and time for one more attempt than there are faults,
\* only the credential source or the enclave itself can fail the startup.
THEOREM Survives == Spec => [](Covered => FailsLocallyOnly)
<1>1. Init => CoveredInv
  BY InitCovered DEF CoveredInv
<1>2. IInv /\ CoveredInv /\ [Next]_vars => CoveredInv'
  <2>1. Covered' = Covered
    BY DEF Covered, AttemptLimit
  <2> QED
    BY <2>1, StepCovered DEF CoveredInv
<1>3. CoveredInv => (Covered => FailsLocallyOnly)
  BY DEF CoveredInv, CInv
<1> QED
  BY <1>1, <1>2, <1>3, Inductive, PTL DEF Spec
=============================================================================
