------------------------------ MODULE InitGate ------------------------------
(***************************************************************************)
(* The initialization gate of one enclave incarnation                      *)
(* (internal/enclave/service/enclave): the handlers Initialize,            *)
(* GetPublicKey and SignMessage, the atomic `ready' pointer and the        *)
(* singleflight group that runs at most one key transaction at a time.     *)
(* A crash ends the incarnation and everything here; KeyLifecycle composes *)
(* incarnations.                                                           *)
(***************************************************************************)
EXTENDS KeySource

CONSTANTS Callers,      \* Initialize RPCs in flight at once
          Stored        \* keys whose envelopes exist before this incarnation

ASSUME StoredAssumption == Stored \subseteq Keys

\* What a step returns to a client: the reply, the source it was asked for
\* (None if not by Initialize) and whether the RPC's context had ended.
Answers == [reply : Replies, to : Sources \cup {None}, ended : BOOLEAN]

\* What a singleflight call returns, and each waiter's channel then holds.
Results == [state : ReadyStates, failure : {"OK"}]
           \cup [state : {None}, failure : RunErrors \cup {"DeadlineExceeded"}]
Built(state) == [state |-> state, failure |-> "OK"]
Failed(code) == [state |-> None, failure |-> code]

VARIABLES
    ready,      \* initGate.ready: the published state, or None
    phase,      \* how far the registered singleflight call has come
    source,     \* the key source that call was started with
    outcome,    \* the candidate, later the result, of that call; or None
    waiters,    \* the callers that call will send its result to
    pc,         \* where each RPC stands
    request,    \* the key source each RPC asks for; None if not Initialize
    inbox,      \* each RPC's singleflight channel: a result, or None
    done,       \* whether the context of each RPC has ended
    answer,     \* what the last step returned to a client, or None
    minted,     \* keys that exist
    exported,   \* keys whose envelope has left the enclave
    told        \* keys some caller was told about

gateVars == <<ready, phase, source, outcome, waiters>>
callVars == <<pc, request, inbox, done>>
worldVars == <<minted, exported, told>>
vars == <<gateVars, callVars, worldVars, answer>>

TypeOK ==
    /\ ready \in ReadyStates \cup {None}
    /\ phase \in {"none", "start", "running", "built", "returned"}
    /\ source \in Sources \cup {None}
    /\ outcome \in Results \cup {None}
    /\ waiters \subseteq Callers
    /\ pc \in [Callers -> {"idle", "load", "join", "wait"}]
    /\ request \in [Callers -> Sources \cup {None}]
    /\ inbox \in [Callers -> Results \cup {None}]
    /\ done \in [Callers -> BOOLEAN]
    /\ answer \in Answers \cup {None}
    /\ minted \subseteq Keys
    /\ exported \subseteq Keys
    /\ told \subseteq Keys

Init ==
    /\ ready = None
    /\ phase = "none" /\ source = None /\ outcome = None /\ waiters = {}
    /\ pc = [c \in Callers |-> "idle"]
    /\ request = [c \in Callers |-> None]
    /\ inbox = [c \in Callers |-> None]
    /\ done = [c \in Callers |-> FALSE]
    /\ answer = None
    /\ minted = Stored /\ exported = Stored /\ told = {}
-----------------------------------------------------------------------------
(* Handlers *)

\* Reply r goes to a client that asked for key source s.
Return(r, s, ended) ==
    /\ answer' = [reply |-> r, to |-> s, ended |-> ended]
    /\ told' = told \cup ({r.key} \ {None})
    /\ exported' = exported \cup ({r.env} \ {None})
    /\ UNCHANGED minted

\* The Initialize RPC c returns r.
Answer(c, r) ==
    /\ Return(r, request[c], done[c])
    /\ pc' = [pc EXCEPT ![c] = "idle"]
    /\ request' = [request EXCEPT ![c] = None]
    /\ inbox' = [inbox EXCEPT ![c] = None]
    /\ done' = [done EXCEPT ![c] = FALSE]

\* No client is answered in this step.
Silent == answer' = None /\ UNCHANGED <<minted, told, exported>>

\* A well-formed Initialize reaches the gate.  A client can only present an
\* envelope that exists outside the enclave.
Initialize(c, s) ==
    /\ pc[c] = "idle"
    /\ s.kind = "existing_key" => s.env \in exported
    /\ pc' = [pc EXCEPT ![c] = "load"]
    /\ request' = [request EXCEPT ![c] = s]
    /\ Silent /\ UNCHANGED <<gateVars, inbox, done>>

\* Anything malformed is refused before the gate, whatever the gate holds.
RejectInitialize ==
    /\ Return(Error("InvalidArgument"), None, FALSE)
    /\ UNCHANGED <<gateVars, callVars>>

\* The fast path of ensureInitialized.
LoadReady(c) ==
    /\ pc[c] = "load"
    /\ \/ /\ ready # None
          /\ Answer(c, ResponseFor(ready, request[c]))
       \/ /\ ready = None
          /\ pc' = [pc EXCEPT ![c] = "join"]
          /\ Silent /\ UNCHANGED <<request, inbox, done>>
    /\ UNCHANGED gateVars

\* sf.DoChan: start the call, or join the one registered, whatever source it
\* was started with and even if its function has already returned.
DoChan(c) ==
    /\ pc[c] = "join"
    /\ pc' = [pc EXCEPT ![c] = "wait"]
    /\ \/ /\ phase = "none"
          /\ phase' = "start"
          /\ source' = request[c]
          /\ waiters' = {c}
       \/ /\ phase # "none"
          /\ waiters' = waiters \cup {c}
          /\ UNCHANGED <<phase, source>>
    /\ Silent /\ UNCHANGED <<ready, outcome, request, inbox, done>>

\* Seeded bug: a joiner gets the shared response whatever it asked for.
ReceiveShared(c) ==
    /\ pc[c] = "wait" /\ inbox[c] # None
    /\ Answer(c, IF inbox[c].state = None
                 THEN Error(inbox[c].failure)
                 ELSE ResponseFor(inbox[c].state, inbox[c].state.source))
    /\ UNCHANGED gateVars

\* The select of ensureInitialized: the result, or the end of the context.
\* When both are there Go picks either.
Receive(c) ==
    /\ pc[c] = "wait" /\ inbox[c] # None
    /\ Answer(c, IF inbox[c].state = None
                 THEN Error(inbox[c].failure)
                 ELSE ResponseFor(inbox[c].state, request[c]))
    /\ UNCHANGED gateVars

\* The channel is abandoned; the attempt goes on without this caller.
LeaveOnContext(c) ==
    /\ pc[c] = "wait" /\ done[c]
    /\ Answer(c, Error("ContextEnded"))
    /\ waiters' = waiters \ {c}
    /\ UNCHANGED <<ready, phase, source, outcome>>

\* A client cancels, disconnects, or its deadline passes.
EndContext(c) ==
    /\ pc[c] # "idle" /\ ~done[c]
    /\ done' = [done EXCEPT ![c] = TRUE]
    /\ Silent /\ UNCHANGED <<gateVars, pc, request, inbox>>

\* GetPublicKey and SignMessage answer from the Ready state; attesting or
\* signing may fail.
UseKey ==
    /\ \/ /\ ready = None
          /\ Return(Error("FailedPrecondition"), None, FALSE)
       \/ /\ ready # None
          /\ \/ Return([code |-> "OK", key |-> ready.key, env |-> None], None, FALSE)
             \/ Return(Error("Internal"), None, FALSE)
    /\ UNCHANGED <<gateVars, callVars>>
-----------------------------------------------------------------------------
(* The singleflight call: the closure DoChan runs on a goroutine of its own *)

\* Seeded bug: the closure does not look again.
RecheckSkipped ==
    /\ phase = "start"
    /\ phase' = "running"
    /\ Silent /\ UNCHANGED <<ready, source, outcome, waiters, callVars>>

\* The closure looks again: its caller may have seen no state long ago.
Recheck ==
    /\ phase = "start"
    /\ \/ /\ ready # None
          /\ outcome' = Built(ready)
          /\ phase' = "returned"
       \/ /\ ready = None
          /\ phase' = "running"
          /\ UNCHANGED outcome
    /\ Silent /\ UNCHANGED <<ready, source, waiters, callVars>>

\* runInit ends with a candidate: the key of the envelope, or a key nobody
\* has seen.
BuildCandidate(k) ==
    /\ phase = "running"
    /\ \/ source.kind = "existing_key" /\ k = source.env
       \/ source.kind = "generate_new" /\ k \notin minted /\ AlgOf[k] = source.alg
    /\ outcome' = Built([source |-> source, key |-> k,
                         generated |-> source.kind = "generate_new"])
    /\ phase' = "built"
    /\ minted' = minted \cup {k}
    /\ answer' = None
    /\ UNCHANGED <<ready, source, waiters, callVars, exported, told>>

\* Seeded bug: the attempt runs under the context of a caller.
RunFailCancelled(code) ==
    /\ phase = "running"
    /\ code \in RunErrors
    /\ \/ outcome' = Failed(code)
       \/ (\E c \in Callers : done[c]) /\ outcome' = Failed("ContextEnded")
    /\ phase' = "returned"
    /\ Silent /\ UNCHANGED <<ready, source, waiters, callVars>>

\* Seeded bug: the error leaves the handler without a status code of its own.
RunFailUnmapped(code) ==
    /\ phase = "running"
    /\ code \in RunErrors
    /\ outcome' = Failed("Unknown")
    /\ phase' = "returned"
    /\ Silent /\ UNCHANGED <<ready, source, waiters, callVars>>

\* runInit fails: KMS, the proxies, the recovery of the key, the attestation.
RunFail(code) ==
    /\ phase = "running"
    /\ code \in RunErrors
    /\ outcome' = Failed(code)
    /\ phase' = "returned"
    /\ Silent /\ UNCHANGED <<ready, source, waiters, callVars>>

\* Seeded bug: the attempt has no deadline.
RunTimeoutNever == phase = "timed out" /\ UNCHANGED vars

\* The attempt's own deadline passes; no caller's context has a part in it.
RunTimeout ==
    /\ phase = "running"
    /\ outcome' = Failed("DeadlineExceeded")
    /\ phase' = "returned"
    /\ Silent /\ UNCHANGED <<ready, source, waiters, callVars>>

Publish ==
    /\ phase = "built"
    /\ ready' = outcome.state
    /\ phase' = "returned"
    /\ Silent /\ UNCHANGED <<source, outcome, waiters, callVars>>

\* singleflight unregisters the call and sends its result, under its lock.
Deliver ==
    /\ phase = "returned"
    /\ inbox' = [c \in Callers |-> IF c \in waiters THEN outcome ELSE inbox[c]]
    /\ phase' = "none" /\ source' = None /\ outcome' = None /\ waiters' = {}
    /\ Silent /\ UNCHANGED <<ready, pc, request, done>>
-----------------------------------------------------------------------------
CallerStep(c) ==
    \/ LoadReady(c) \/ DoChan(c) \/ Receive(c) \/ LeaveOnContext(c)

ClientStep(c) ==
    \/ \E a \in Algorithms : Initialize(c, GenerateNew(a))
    \/ \E k \in Keys : Initialize(c, ExistingKey(k))
    \/ EndContext(c)

AttemptStep ==
    \/ Recheck \/ Publish \/ Deliver \/ RunTimeout
    \/ \E k \in Keys : BuildCandidate(k)
    \/ \E code \in RunErrors : RunFail(code)

Next ==
    \/ AttemptStep \/ RejectInitialize \/ UseKey
    \/ \E c \in Callers : CallerStep(c) \/ ClientStep(c)

\* Goroutines run, and the attempt's deadline fires.  KMS need not answer and
\* clients need not do anything.
Fairness ==
    /\ \A c \in Callers : WF_vars(LoadReady(c) \/ DoChan(c) \/ Receive(c))
    /\ WF_vars(Recheck) /\ WF_vars(RunTimeout)
    /\ WF_vars(Publish) /\ WF_vars(Deliver)

Spec == Init /\ [][Next]_vars
FairSpec == Spec /\ Fairness
-----------------------------------------------------------------------------
(* Properties *)

InstalledKey == IF ready = None THEN None ELSE ready.key

\* Nobody is ever told about a key, or handed the envelope of a new key,
\* other than the installed one: a failed, abandoned or losing attempt leaves
\* no trace outside the enclave.
OneKeyVisible == told \cup (exported \ Stored) \subseteq {InstalledKey}

\* Once a state is published it stays: concurrent attempts, late joiners and
\* attempts started by callers that saw no state cannot replace the key.
ReadyNeverReplaced == [][ready # None => ready' = ready]_vars

\* The last step answered an Initialize for a key source.
Initialized == answer # None /\ answer.to # None /\ answer.reply.code = "OK"

\* A successful Initialize returns the installed key, the one its own key
\* source names, never the key of the request whose attempt it shared.
SuccessMatchesRequest ==
    Initialized =>
        /\ answer.reply.key = InstalledKey
        /\ answer.to.alg = AlgOf[answer.reply.key]
        /\ answer.to.kind = "existing_key" => answer.reply.key = answer.to.env

\* An envelope is returned to requests to generate only, and wraps the key
\* returned with it; a request to generate never succeeds without one.
EnvelopeForGeneratorOnly ==
    Initialized =>
        answer.reply.env = IF answer.to.kind = "generate_new"
                           THEN answer.reply.key ELSE None

\* Initialize is refused with FailedPrecondition only when the enclave holds
\* another key than the source names, or when asked to generate after a key
\* that was not generated for the same algorithm.  In particular the envelope
\* a caller was given is accepted for as long as the enclave runs.
RefusedOnlyOnConflict ==
    (answer # None /\ answer.to # None
        /\ answer.reply.code = "FailedPrecondition") =>
            /\ ready # None
            /\ answer.to.kind = "existing_key" => answer.to.env # ready.key
            /\ answer.to.kind = "generate_new" =>
                    ~ready.generated \/ AlgOf[ready.key] # answer.to.alg

\* The end of one caller's context is never reported to another caller.
NoForeignCancellation ==
    (answer # None /\ answer.reply.code = "ContextEnded") => answer.ended

\* Every RPC is answered, though KMS may hang and callers may come and go.
EveryCallAnswered ==
    \A c \in Callers : pc[c] # "idle" ~> pc[c] = "idle"

\* The gate implements the write-once key cell.
Cell == INSTANCE KeyCell WITH cell <- InstalledKey, Found <- {None}
ImplementsKeyCell == Cell!Spec
=============================================================================
