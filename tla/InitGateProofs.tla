--------------------------- MODULE InitGateProofs ---------------------------
(***************************************************************************)
(* Safety of the initialization gate, for any number of callers, keys,     *)
(* stored envelopes and algorithms.                                        *)
(***************************************************************************)
EXTENDS InitGate, TLAPS

\* What a client can put into a request.
WellFormed(s) ==
    \/ \E a \in Algorithms : s = GenerateNew(a)
    \/ \E k \in Keys : s = ExistingKey(k)

\* A state that runInit can have built: its key is the one its source names.
Faithful(state) ==
    /\ WellFormed(state.source)
    /\ AlgOf[state.key] = state.source.alg
    /\ state.generated <=> state.source.kind = "generate_new"
    /\ state.source.kind = "existing_key" => state.source.env = state.key

\* A result that may still be on its way to a caller: an error, or the
\* published state itself.
Current(result) == result.state = None \/ result.state = ready

\* Requests that reached the gate are well formed, and so is the request the
\* attempt was started with.
RequestsInv ==
    /\ \A c \in Callers : pc[c] # "idle" => WellFormed(request[c])
    /\ phase # "none" => WellFormed(source)

\* While an attempt builds a key nothing is published; this is what the second
\* look at `ready' buys.
AttemptInv ==
    /\ phase \in {"running", "built"} => ready = None
    /\ phase = "built" => /\ outcome \in Results
                          /\ outcome.state \in ReadyStates
                          /\ Faithful(outcome.state)
    /\ phase = "returned" => outcome \in Results /\ Current(outcome)

ReadyInv == ready # None => Faithful(ready)

InboxInv == \A c \in Callers : inbox[c] # None => Current(inbox[c])

IInv == TypeOK /\ RequestsInv /\ AttemptInv /\ ReadyInv /\ InboxInv /\ OneKeyVisible
-----------------------------------------------------------------------------
(* Lemmas on the operators *)

LEMMA WellFormedIsSource ==
    ASSUME NEW s, WellFormed(s)
    PROVE  /\ s \in Sources
           /\ s.kind = "existing_key" => s.env \in Keys /\ s.alg = AlgOf[s.env]
           /\ s # None
<1>1. CASE \E a \in Algorithms : s = GenerateNew(a)
  BY <1>1, NoneAssumption DEF GenerateNew, Sources
<1>2. CASE \E k \in Keys : s = ExistingKey(k)
  BY <1>2, NoneAssumption, SourceAssumption, StoredAssumption DEF ExistingKey, Sources
<1> QED
  BY <1>1, <1>2 DEF WellFormed

\* What responseForFingerprint returns: a refusal, or the state's key with its
\* envelope or none.
LEMMA ResponseForRange ==
    ASSUME NEW state \in ReadyStates, NEW s
    PROVE  LET r == ResponseFor(state, s)
           IN  /\ r \in Replies
               /\ r.key \in {state.key, None}
               /\ r.env \in {state.key, None}
BY DEF ResponseFor, ReadyStates, Replies, Codes, Error

LEMMA ErrorRange ==
    ASSUME NEW code \in Codes
    PROVE  /\ Error(code) \in Replies
           /\ Error(code).key = None
           /\ Error(code).env = None
           /\ Error(code).code = code
BY DEF Error, Replies

\* Every reply an Initialize RPC can get from the gate or from its channel.
LEMMA ReplyRange ==
    ASSUME TypeOK, InboxInv, NEW c \in Callers, inbox[c] # None
    PROVE  LET r == IF inbox[c].state = None
                    THEN Error(inbox[c].failure)
                    ELSE ResponseFor(inbox[c].state, request[c])
           IN  /\ r \in Replies
               /\ r.key \in {InstalledKey, None}
               /\ r.env \in {InstalledKey, None}
<1>1. inbox[c] \in Results
  BY DEF TypeOK
<1>2. CASE inbox[c].state = None
  BY <1>1, <1>2, ErrorRange DEF Results, Codes
<1>3. CASE inbox[c].state # None
  <2>1. inbox[c].state = ready /\ ready # None /\ ready \in ReadyStates
    BY <1>1, <1>3 DEF InboxInv, Current, TypeOK
  <2>2. InstalledKey = ready.key
    BY <2>1 DEF InstalledKey
  <2> QED
    BY <1>3, <2>1, <2>2, ResponseForRange
<1> QED
  BY <1>2, <1>3
-----------------------------------------------------------------------------
(* Type correctness *)

\* Answering an Initialize keeps the types, provided the reply is a reply.
LEMMA ReturnType ==
    ASSUME TypeOK, NEW r \in Replies, NEW s \in Sources \cup {None},
           NEW ended \in BOOLEAN, Return(r, s, ended)
    PROVE  /\ answer' \in Answers \cup {None}
           /\ minted' \subseteq Keys /\ exported' \subseteq Keys /\ told' \subseteq Keys
BY DEF Return, TypeOK, Answers, Replies

LEMMA AnswerType ==
    ASSUME TypeOK, NEW c \in Callers, NEW r \in Replies, Answer(c, r)
    PROVE  /\ pc' \in [Callers -> {"idle", "load", "join", "wait"}]
           /\ request' \in [Callers -> Sources \cup {None}]
           /\ inbox' \in [Callers -> Results \cup {None}]
           /\ done' \in [Callers -> BOOLEAN]
           /\ answer' \in Answers \cup {None}
           /\ minted' \subseteq Keys /\ exported' \subseteq Keys /\ told' \subseteq Keys
<1>1. request[c] \in Sources \cup {None} /\ done[c] \in BOOLEAN
  BY DEF TypeOK
<1>2. Return(r, request[c], done[c])
  BY DEF Answer
<1> QED
  BY <1>1, <1>2, ReturnType DEF Answer, TypeOK

LEMMA TypeStep == IInv /\ [Next]_vars => TypeOK'
<1> SUFFICES ASSUME IInv, [Next]_vars PROVE TypeOK'
  OBVIOUS
<1> USE DEF gateVars, callVars, worldVars
<1>0. TypeOK /\ RequestsInv /\ AttemptInv /\ ReadyInv /\ InboxInv
  BY DEF IInv
<1>1. ASSUME NEW c \in Callers, NEW s, WellFormed(s), Initialize(c, s) PROVE TypeOK'
  BY <1>0, <1>1, WellFormedIsSource DEF Initialize, Silent, TypeOK
<1>2. ASSUME NEW c \in Callers, EndContext(c) PROVE TypeOK'
  BY <1>0, <1>2 DEF EndContext, Silent, TypeOK
<1>3. ASSUME NEW c \in Callers, LoadReady(c) PROVE TypeOK'
  <2>1. CASE ready # None /\ Answer(c, ResponseFor(ready, request[c]))
    <3>1. ResponseFor(ready, request[c]) \in Replies
      BY <1>0, <2>1, ResponseForRange DEF TypeOK
    <3> QED
      BY <1>0, <1>3, <2>1, <3>1, AnswerType DEF LoadReady, TypeOK
  <2>2. CASE pc' = [pc EXCEPT ![c] = "join"] /\ Silent /\ UNCHANGED <<request, inbox, done>>
    BY <1>0, <1>3, <2>2 DEF LoadReady, Silent, TypeOK
  <2> QED
    BY <1>3, <2>1, <2>2 DEF LoadReady
<1>4. ASSUME NEW c \in Callers, DoChan(c) PROVE TypeOK'
  BY <1>0, <1>4 DEF DoChan, Silent, TypeOK
<1>5. ASSUME NEW c \in Callers, Receive(c) PROVE TypeOK'
  <2> DEFINE r == IF inbox[c].state = None
                  THEN Error(inbox[c].failure)
                  ELSE ResponseFor(inbox[c].state, request[c])
  <2>1. Answer(c, r) /\ UNCHANGED gateVars /\ r \in Replies
    BY <1>0, <1>5, ReplyRange DEF Receive
  <2> HIDE DEF r
  <2> QED
    BY <1>0, <2>1, AnswerType DEF TypeOK
<1>6. ASSUME NEW c \in Callers, LeaveOnContext(c) PROVE TypeOK'
  <2>1. Error("ContextEnded") \in Replies
    BY ErrorRange DEF Codes
  <2> QED
    BY <1>0, <1>6, <2>1, AnswerType DEF LeaveOnContext, TypeOK
<1>7. CASE RejectInitialize
  <2>1. Error("InvalidArgument") \in Replies
    BY ErrorRange DEF Codes
  <2> QED
    BY <1>0, <1>7, <2>1, ReturnType DEF RejectInitialize, TypeOK
<1>8. CASE UseKey
  <2>1. PICK r \in Replies : Return(r, None, FALSE)
    <3>1. Error("FailedPrecondition") \in Replies /\ Error("Internal") \in Replies
      BY ErrorRange DEF Codes
    <3>2. ready # None => [code |-> "OK", key |-> ready.key, env |-> None] \in Replies
      BY <1>0 DEF TypeOK, ReadyStates, Replies, Codes
    <3> QED
      BY <1>8, <3>1, <3>2 DEF UseKey
  <2> QED
    BY <1>0, <1>8, <2>1, ReturnType DEF UseKey, TypeOK
<1>9. CASE Recheck
  <2>1. ready # None => Built(ready) \in Results
    BY <1>0 DEF TypeOK, Built, Results, Codes
  <2> QED
    BY <1>0, <1>9, <2>1 DEF Recheck, Silent, TypeOK
<1>10. ASSUME NEW k \in Keys, BuildCandidate(k) PROVE TypeOK'
  <2>1. source \in Sources
    BY <1>0, <1>10, WellFormedIsSource DEF BuildCandidate, RequestsInv
  <2>2. outcome' \in Results
    BY <1>10, <2>1 DEF BuildCandidate, Built, Results, ReadyStates, Codes
  <2> QED
    BY <1>0, <1>10, <2>2 DEF BuildCandidate, TypeOK
<1>11. ASSUME NEW code \in RunErrors, RunFail(code) PROVE TypeOK'
  <2>1. outcome' \in Results
    BY <1>11 DEF RunFail, Failed, Results, Codes
  <2> QED
    BY <1>0, <1>11, <2>1 DEF RunFail, Silent, TypeOK
<1>12. CASE RunTimeout
  <2>1. outcome' \in Results
    BY <1>12 DEF RunTimeout, Failed, Results, Codes
  <2> QED
    BY <1>0, <1>12, <2>1 DEF RunTimeout, Silent, TypeOK
<1>13. CASE Publish
  BY <1>0, <1>13 DEF Publish, Silent, TypeOK, AttemptInv
<1>14. CASE Deliver
  <2>1. outcome \in Results
    BY <1>0, <1>14 DEF Deliver, AttemptInv
  <2> QED
    BY <1>0, <1>14, <2>1 DEF Deliver, Silent, TypeOK
<1>15. CASE UNCHANGED vars
  BY <1>0, <1>15 DEF vars, TypeOK
<1> QED
  BY <1>1, <1>2, <1>3, <1>4, <1>5, <1>6, <1>7, <1>8, <1>9, <1>10, <1>11, <1>12,
     <1>13, <1>14, <1>15
     DEF Next, CallerStep, ClientStep, AttemptStep, WellFormed
-----------------------------------------------------------------------------
(* The steps as the outside sees them *)

\* A step that returns reply r to a client.
Replying(r, s, ended) ==
    /\ Return(r, s, ended)
    /\ ready' = ready
    /\ r.key \in {InstalledKey, None}
    /\ r.env \in {InstalledKey, None}

\* Every step either publishes while nothing is published, or leaves `ready'
\* alone; and either returns nothing, or a reply about the installed key.
LEMMA StepShape ==
    IInv /\ [Next]_vars =>
        \/ /\ UNCHANGED <<told, exported>>
           /\ \/ ready' = ready
              \/ ready = None /\ phase = "built" /\ ready' = outcome.state
        \/ \E r, s, ended : Replying(r, s, ended)
<1> SUFFICES ASSUME IInv, [Next]_vars
             PROVE  \/ /\ UNCHANGED <<told, exported>>
                       /\ \/ ready' = ready
                          \/ ready = None /\ phase = "built" /\ ready' = outcome.state
                    \/ \E r, s, ended : Replying(r, s, ended)
  OBVIOUS
<1> DEFINE Quiet == /\ UNCHANGED <<told, exported>>
                    /\ \/ ready' = ready
                       \/ ready = None /\ phase = "built" /\ ready' = outcome.state
           Loud == \E r, s, ended : Replying(r, s, ended)
<1> SUFFICES Quiet \/ Loud
  OBVIOUS
<1> USE DEF gateVars, callVars, worldVars
<1>0. TypeOK /\ AttemptInv /\ InboxInv
  BY DEF IInv
<1>a. \A code : LET r == Error(code) IN r.key = None /\ r.env = None
  BY DEF Error
<1>1. ASSUME NEW c \in Callers, LoadReady(c), ready # None PROVE Loud
  <2>1. Answer(c, ResponseFor(ready, request[c])) /\ ready' = ready
    BY <1>1 DEF LoadReady
  <2>2. InstalledKey = ready.key /\ ready \in ReadyStates
    BY <1>0, <1>1 DEF InstalledKey, TypeOK
  <2>3. Replying(ResponseFor(ready, request[c]), request[c], done[c])
    BY <2>1, <2>2, ResponseForRange DEF Answer, Replying
  <2> QED
    BY <2>3
<1>2. ASSUME NEW c \in Callers, LoadReady(c), ready = None PROVE Quiet
  BY <1>2 DEF LoadReady, Silent
<1>3. ASSUME NEW c \in Callers, Receive(c) PROVE Loud
  <2> DEFINE r == IF inbox[c].state = None
                  THEN Error(inbox[c].failure)
                  ELSE ResponseFor(inbox[c].state, request[c])
  <2>1. Answer(c, r) /\ ready' = ready
    BY <1>3 DEF Receive
  <2>2. r.key \in {InstalledKey, None} /\ r.env \in {InstalledKey, None}
    BY <1>0, <1>3, ReplyRange DEF Receive
  <2> HIDE DEF r
  <2>3. Replying(r, request[c], done[c])
    BY <2>1, <2>2 DEF Answer, Replying
  <2> QED
    BY <2>3
<1>4. ASSUME NEW c \in Callers, LeaveOnContext(c) PROVE Loud
  <2>1. Replying(Error("ContextEnded"), request[c], done[c])
    BY <1>4, <1>a DEF LeaveOnContext, Answer, Replying
  <2> QED
    BY <2>1
<1>5. CASE RejectInitialize
  <2>1. Replying(Error("InvalidArgument"), None, FALSE)
    BY <1>5, <1>a DEF RejectInitialize, Replying
  <2> QED
    BY <2>1
<1>6. CASE UseKey
  <2>1. CASE Return(Error("FailedPrecondition"), None, FALSE)
    <3>1. Replying(Error("FailedPrecondition"), None, FALSE)
      BY <1>6, <1>a, <2>1 DEF UseKey, Replying
    <3> QED
      BY <3>1
  <2>2. CASE Return(Error("Internal"), None, FALSE)
    <3>1. Replying(Error("Internal"), None, FALSE)
      BY <1>6, <1>a, <2>2 DEF UseKey, Replying
    <3> QED
      BY <3>1
  <2>3. CASE ready # None /\ Return([code |-> "OK", key |-> ready.key, env |-> None], None, FALSE)
    <3>1. Replying([code |-> "OK", key |-> ready.key, env |-> None], None, FALSE)
      BY <1>6, <2>3 DEF UseKey, Replying, InstalledKey
    <3> QED
      BY <3>1
  <2> QED
    BY <1>6, <2>1, <2>2, <2>3 DEF UseKey
<1>7. CASE Publish
  BY <1>0, <1>7 DEF Publish, Silent, AttemptInv
<1>8. ASSUME NEW c \in Callers, NEW s, Initialize(c, s) PROVE Quiet
  BY <1>8 DEF Initialize, Silent
<1>9. ASSUME NEW c \in Callers, EndContext(c) \/ DoChan(c) PROVE Quiet
  BY <1>9 DEF EndContext, DoChan, Silent
<1>10. CASE Recheck \/ RunTimeout \/ Deliver
  BY <1>10 DEF Recheck, RunTimeout, Deliver, Silent
<1>11. ASSUME NEW k \in Keys, BuildCandidate(k) PROVE Quiet
  BY <1>11 DEF BuildCandidate
<1>12. ASSUME NEW code \in RunErrors, RunFail(code) PROVE Quiet
  BY <1>12 DEF RunFail, Silent
<1>13. CASE UNCHANGED vars
  BY <1>13 DEF vars
<1> HIDE DEF Quiet, Loud
<1> QED
  BY <1>1, <1>2, <1>3, <1>4, <1>5, <1>6, <1>7, <1>8, <1>9, <1>10, <1>11, <1>12, <1>13
     DEF Next, CallerStep, ClientStep, AttemptStep

\* A published state is never replaced.
LEMMA ReadyStays == IInv /\ [Next]_vars => (ready # None => ready' = ready)
BY StepShape DEF Replying

-----------------------------------------------------------------------------
(* The remaining parts of the inductive invariant *)

LEMMA RequestsStep == IInv /\ [Next]_vars => RequestsInv'
<1> SUFFICES ASSUME IInv, [Next]_vars PROVE RequestsInv'
  OBVIOUS
<1> USE DEF gateVars, callVars, RequestsInv
<1>0. TypeOK /\ RequestsInv
  BY DEF IInv
<1>1. ASSUME NEW c \in Callers, NEW s, WellFormed(s), Initialize(c, s) PROVE RequestsInv'
  BY <1>0, <1>1 DEF Initialize, TypeOK, WellFormed
<1>2. ASSUME NEW c \in Callers, DoChan(c) PROVE RequestsInv'
  BY <1>0, <1>2 DEF DoChan, TypeOK, WellFormed
<1>3. ASSUME NEW c \in Callers, NEW r, Answer(c, r), UNCHANGED <<phase, source>>
      PROVE  RequestsInv'
  BY <1>0, <1>3 DEF Answer, TypeOK, WellFormed
<1>4. ASSUME NEW c \in Callers, LoadReady(c) \/ Receive(c) \/ LeaveOnContext(c)
      PROVE  RequestsInv'
  <2>1. CASE \E r : Answer(c, r)
    BY <1>3, <1>4, <2>1 DEF LoadReady, Receive, LeaveOnContext
  <2>2. CASE LoadReady(c) /\ pc' = [pc EXCEPT ![c] = "join"] /\ UNCHANGED request
    BY <1>0, <2>2 DEF LoadReady, TypeOK, WellFormed
  <2> QED
    BY <1>4, <2>1, <2>2 DEF LoadReady, Receive, LeaveOnContext
<1>5. ASSUME UNCHANGED <<pc, request, source>>,
             phase' # "none" => phase # "none"
      PROVE  RequestsInv'
  BY <1>0, <1>5 DEF WellFormed
<1>6. ASSUME NEW c \in Callers, EndContext(c) PROVE RequestsInv'
  BY <1>5, <1>6 DEF EndContext
<1>7. CASE RejectInitialize \/ UseKey
  BY <1>5, <1>7 DEF RejectInitialize, UseKey
<1>8. CASE Recheck \/ RunTimeout \/ Publish
  BY <1>5, <1>8 DEF Recheck, RunTimeout, Publish
<1>9. ASSUME NEW k \in Keys, BuildCandidate(k) PROVE RequestsInv'
  BY <1>5, <1>9 DEF BuildCandidate
<1>10. ASSUME NEW code \in RunErrors, RunFail(code) PROVE RequestsInv'
  BY <1>5, <1>10 DEF RunFail
<1>11. CASE Deliver
  BY <1>0, <1>11 DEF Deliver, WellFormed
<1>12. CASE UNCHANGED vars
  BY <1>5, <1>12 DEF vars
<1> QED
  BY <1>1, <1>2, <1>4, <1>6, <1>7, <1>8, <1>9, <1>10, <1>11, <1>12
     DEF Next, CallerStep, ClientStep, AttemptStep, WellFormed

\* The candidate runInit builds is faithful to the request it was given.
LEMMA CandidateFaithful ==
    ASSUME TypeOK, RequestsInv, NEW k \in Keys, BuildCandidate(k)
    PROVE  /\ outcome' \in Results
           /\ outcome'.state \in ReadyStates
           /\ Faithful(outcome'.state)
<1> DEFINE st == [source |-> source, key |-> k,
                  generated |-> source.kind = "generate_new"]
<1>1. WellFormed(source) /\ source \in Sources
  BY WellFormedIsSource DEF BuildCandidate, RequestsInv
<1>2. AlgOf[k] = source.alg /\ (source.kind = "existing_key" => source.env = k)
  BY <1>1, WellFormedIsSource DEF BuildCandidate
<1>3. st \in ReadyStates /\ Faithful(st)
  BY <1>1, <1>2 DEF ReadyStates, Faithful
<1>4. outcome' = Built(st)
  BY DEF BuildCandidate
<1> HIDE DEF st
<1> QED
  BY <1>3, <1>4 DEF Built, Results, Codes

LEMMA AttemptStepInv == IInv /\ [Next]_vars => AttemptInv'
<1> SUFFICES ASSUME IInv, [Next]_vars PROVE AttemptInv'
  OBVIOUS
<1> USE DEF gateVars, callVars
<1>0. TypeOK /\ RequestsInv /\ AttemptInv
  BY DEF IInv
<1>1. ASSUME UNCHANGED <<ready, phase, outcome>> PROVE AttemptInv'
  BY <1>0, <1>1 DEF AttemptInv, Current, Faithful, WellFormed
<1>2. ASSUME NEW c \in Callers, DoChan(c) PROVE AttemptInv'
  <2>1. CASE phase = "none"
    BY <1>2, <2>1 DEF DoChan, AttemptInv
  <2>2. CASE phase # "none"
    BY <1>1, <1>2, <2>2 DEF DoChan
  <2> QED
    BY <2>1, <2>2
<1>3. ASSUME NEW c \in Callers, NEW s,
             \/ LoadReady(c) \/ Receive(c) \/ LeaveOnContext(c)
             \/ Initialize(c, s) \/ EndContext(c)
      PROVE  AttemptInv'
  BY <1>1, <1>3 DEF LoadReady, Receive, LeaveOnContext, Initialize, EndContext
<1>4. CASE RejectInitialize \/ UseKey
  BY <1>1, <1>4 DEF RejectInitialize, UseKey
<1>5. CASE Recheck
  <2>1. CASE ready # None
    BY <1>0, <1>5, <2>1 DEF Recheck, Built, Results, Codes, Current, AttemptInv, TypeOK
  <2>2. CASE ready = None
    BY <1>5, <2>2 DEF Recheck, AttemptInv
  <2> QED
    BY <2>1, <2>2
<1>6. ASSUME NEW k \in Keys, BuildCandidate(k) PROVE AttemptInv'
  <2>1. ready' = None /\ phase' = "built"
    BY <1>0, <1>6 DEF BuildCandidate, AttemptInv
  <2>2. outcome' \in Results /\ outcome'.state \in ReadyStates /\ Faithful(outcome'.state)
    BY <1>0, <1>6, CandidateFaithful
  <2>3. (Faithful(outcome.state))'
    BY <2>2 DEF Faithful, WellFormed
  <2> QED
    BY <2>1, <2>2, <2>3 DEF AttemptInv
<1>7. ASSUME NEW code \in RunErrors \cup {"DeadlineExceeded"}, phase' = "returned", outcome' = Failed(code)
      PROVE  AttemptInv'
  BY <1>7 DEF AttemptInv, Failed, Results, Current
<1>8. ASSUME NEW code \in RunErrors, RunFail(code) PROVE AttemptInv'
  BY <1>7, <1>8 DEF RunFail
<1>9. CASE RunTimeout
  BY <1>7, <1>9 DEF RunTimeout
<1>10. CASE Publish
  BY <1>0, <1>10 DEF Publish, AttemptInv, Current
<1>11. CASE Deliver
  BY <1>11 DEF Deliver, AttemptInv
<1>12. CASE UNCHANGED vars
  BY <1>1, <1>12 DEF vars
<1> QED
  BY <1>2, <1>3, <1>4, <1>5, <1>6, <1>8, <1>9, <1>10, <1>11, <1>12
     DEF Next, CallerStep, ClientStep, AttemptStep

LEMMA ReadyStep == IInv /\ [Next]_vars => ReadyInv'
<1> SUFFICES ASSUME IInv, [Next]_vars PROVE ReadyInv'
  OBVIOUS
<1>1. AttemptInv /\ ReadyInv
  BY DEF IInv
<1>2. CASE ready' = ready
  BY <1>1, <1>2 DEF ReadyInv, Faithful, WellFormed
<1>3. CASE phase = "built" /\ ready' = outcome.state
  <2>1. Faithful(ready')
    BY <1>1, <1>3 DEF AttemptInv
  <2> QED
    BY <2>1 DEF ReadyInv, Faithful, WellFormed
<1> QED
  BY <1>2, <1>3, StepShape DEF Replying

LEMMA InboxStep == IInv /\ [Next]_vars => InboxInv'
<1> SUFFICES ASSUME IInv, [Next]_vars, NEW c \in Callers, inbox'[c] # None
             PROVE  inbox'[c].state = None \/ inbox'[c].state = ready'
  BY DEF InboxInv, Current
<1> USE DEF gateVars, callVars
<1>0. TypeOK /\ AttemptInv /\ InboxInv
  BY DEF IInv
<1>1. ready # None => ready' = ready
  BY ReadyStays
<1>2. CASE inbox'[c] = inbox[c]
  <2>1. inbox[c].state \in {None, ready} /\ inbox[c] \in Results
    BY <1>0, <1>2 DEF InboxInv, Current, TypeOK
  <2> QED
    BY <1>1, <1>2, <2>1 DEF Results
<1>3. CASE Deliver /\ inbox'[c] # inbox[c]
  <2>1. inbox'[c] = outcome /\ phase = "returned" /\ ready' = ready
    BY <1>3 DEF Deliver
  <2> QED
    BY <1>0, <2>1 DEF AttemptInv, Current
<1>4. Deliver \/ inbox'[c] = inbox[c] \/ inbox'[c] = None
  <2>1. ASSUME NEW d \in Callers, NEW r, Answer(d, r)
        PROVE  inbox'[c] = inbox[c] \/ inbox'[c] = None
    BY <1>0, <2>1 DEF Answer, TypeOK
  <2>2. ASSUME NEW d \in Callers, CallerStep(d)
        PROVE  inbox'[c] = inbox[c] \/ inbox'[c] = None
    BY <2>1, <2>2 DEF CallerStep, LoadReady, DoChan, Receive, LeaveOnContext
  <2>3. ASSUME NEW d \in Callers, ClientStep(d)
        PROVE  inbox'[c] = inbox[c]
    BY <2>3 DEF ClientStep, Initialize, EndContext
  <2>4. CASE RejectInitialize \/ UseKey \/ UNCHANGED vars
    BY <2>4 DEF RejectInitialize, UseKey, vars
  <2>5. CASE AttemptStep
    BY <2>5 DEF AttemptStep, Recheck, Publish, RunTimeout, BuildCandidate, RunFail
  <2> QED
    BY <2>2, <2>3, <2>4, <2>5 DEF Next
<1> QED
  BY <1>2, <1>3, <1>4

LEMMA VisibleStep == IInv /\ [Next]_vars => OneKeyVisible'
<1> SUFFICES ASSUME IInv, [Next]_vars PROVE OneKeyVisible'
  OBVIOUS
<1>0. TypeOK /\ OneKeyVisible
  BY DEF IInv
<1>1. CASE UNCHANGED <<told, exported>> /\ ready' = ready
  BY <1>0, <1>1 DEF OneKeyVisible, InstalledKey
<1>2. CASE UNCHANGED <<told, exported>> /\ ready = None
  <2>1. told \cup (exported \ Stored) = {}
    BY <1>0, <1>2, SourceAssumption, StoredAssumption DEF OneKeyVisible, InstalledKey, TypeOK
  <2> QED
    BY <1>2, <2>1 DEF OneKeyVisible
<1>3. ASSUME NEW r, NEW s, NEW ended, Replying(r, s, ended) PROVE OneKeyVisible'
  BY <1>0, <1>3 DEF Replying, Return, OneKeyVisible, InstalledKey
<1> QED
  BY <1>1, <1>2, <1>3, StepShape
-----------------------------------------------------------------------------
(* What Initialize answers *)

\* Every answer to an Initialize is the cached response for the request's own
\* source, the end of the client's own context, or the error of the attempt.
LEMMA AnswerShape ==
    ASSUME IInv, [Next]_vars, answer' # None
    PROVE  \/ answer' = answer /\ ready' = ready
           \/ answer'.to = None /\ answer'.reply.code # "ContextEnded"
           \/ /\ ready # None /\ ready' = ready
              /\ WellFormed(answer'.to)
              /\ answer'.reply = ResponseFor(ready, answer'.to)
           \/ answer'.reply = Error("ContextEnded") /\ answer'.ended
           \/ \E code \in RunErrors \cup {"DeadlineExceeded"} :
                  answer'.reply = Error(code)
<1> DEFINE Goal == \/ answer' = answer /\ ready' = ready
                   \/ answer'.to = None /\ answer'.reply.code # "ContextEnded"
                   \/ /\ ready # None /\ ready' = ready
                      /\ WellFormed(answer'.to)
                      /\ answer'.reply = ResponseFor(ready, answer'.to)
                   \/ answer'.reply = Error("ContextEnded") /\ answer'.ended
                   \/ \E code \in RunErrors \cup {"DeadlineExceeded"} :
                          answer'.reply = Error(code)
<1> SUFFICES Goal
  OBVIOUS
<1> USE DEF gateVars, callVars, worldVars
<1>0. TypeOK /\ InboxInv /\ RequestsInv
  BY DEF IInv
<1>1. ASSUME NEW c \in Callers, NEW r, Answer(c, r)
      PROVE  answer'.reply = r /\ answer'.to = request[c] /\ answer'.ended = done[c]
  BY <1>1 DEF Answer, Return
<1>2. ASSUME NEW c \in Callers, LoadReady(c) PROVE Goal
  <2>1. ready # None /\ Answer(c, ResponseFor(ready, request[c])) /\ ready' = ready
    BY <1>2 DEF LoadReady, Silent
  <2>2. WellFormed(request[c])
    BY <1>0, <1>2 DEF LoadReady, RequestsInv
  <2> QED
    BY <1>1, <2>1, <2>2
<1>3. ASSUME NEW c \in Callers, Receive(c) PROVE Goal
  <2>1. inbox[c] \in Results /\ ready' = ready
    BY <1>0, <1>3 DEF TypeOK, Receive
  <2>2. CASE inbox[c].state = None
    <3>1. inbox[c].failure \in RunErrors \cup {"DeadlineExceeded"}
      BY <2>1, <2>2, NoneAssumption DEF Results
    <3>2. Answer(c, Error(inbox[c].failure))
      BY <1>3, <2>2 DEF Receive
    <3> QED
      BY <1>1, <3>1, <3>2
  <2>3. CASE inbox[c].state # None
    <3>1. inbox[c].state = ready /\ ready # None
      BY <1>0, <1>3, <2>3 DEF InboxInv, Current, Receive
    <3>2. Answer(c, ResponseFor(ready, request[c]))
      BY <1>3, <2>3, <3>1 DEF Receive
    <3>3. WellFormed(request[c])
      BY <1>0, <1>3 DEF Receive, RequestsInv
    <3> QED
      BY <1>1, <2>1, <3>1, <3>2, <3>3
  <2> QED
    BY <2>2, <2>3
<1>4. ASSUME NEW c \in Callers, LeaveOnContext(c) PROVE Goal
  <2>1. Answer(c, Error("ContextEnded")) /\ done[c]
    BY <1>4 DEF LeaveOnContext
  <2> QED
    BY <1>1, <2>1
<1>5. CASE RejectInitialize \/ UseKey
  <2>1. answer'.to = None /\ answer'.reply.code # "ContextEnded"
    BY <1>5 DEF RejectInitialize, UseKey, Return, Error
  <2> QED
    BY <2>1
<1>6. CASE UNCHANGED vars
  BY <1>6 DEF vars
<1>7. CASE answer' = None
  BY <1>7
<1>8. CASE AttemptStep
  BY <1>7, <1>8 DEF AttemptStep, Recheck, Publish, Deliver, RunTimeout,
                    BuildCandidate, RunFail, Silent
<1>9. ASSUME NEW c \in Callers, DoChan(c) \/ ClientStep(c) PROVE Goal
  BY <1>7, <1>9 DEF DoChan, ClientStep, Initialize, EndContext, Silent
<1> HIDE DEF Goal
<1> QED
  BY <1>2, <1>3, <1>4, <1>5, <1>6, <1>8, <1>9 DEF Next, CallerStep

\* The properties of the answers, as one state predicate.
AnswersInv ==
    /\ SuccessMatchesRequest
    /\ EnvelopeForGeneratorOnly
    /\ RefusedOnlyOnConflict
    /\ NoForeignCancellation

\* The cached response satisfies them for whoever asks.
LEMMA ResponseCorrect ==
    ASSUME NEW state \in ReadyStates, Faithful(state), NEW s, WellFormed(s)
    PROVE  LET r == ResponseFor(state, s)
           IN  \/ /\ r.code = "OK" /\ r.key = state.key
                  /\ s.alg = AlgOf[state.key]
                  /\ s.kind = "existing_key" => s.env = state.key
                  /\ r.env = IF s.kind = "generate_new" THEN r.key ELSE None
               \/ /\ r = Error("FailedPrecondition")
                  /\ s.kind = "existing_key" => s.env # state.key
                  /\ s.kind = "generate_new" =>
                         ~state.generated \/ AlgOf[state.key] # s.alg
<1>0. state.key \in Keys /\ state.source \in Sources
  BY DEF ReadyStates
<1>1. CASE s = state.source
  BY <1>0, <1>1 DEF ResponseFor, Faithful, WellFormed, GenerateNew, ExistingKey
<1>2. CASE s # state.source /\ state.generated /\ s = ExistingKey(state.key)
  BY <1>0, <1>2 DEF ResponseFor, ExistingKey
<1>3. CASE s # state.source /\ ~(state.generated /\ s = ExistingKey(state.key))
  <2>1. ResponseFor(state, s) = Error("FailedPrecondition")
    BY <1>3 DEF ResponseFor
  <2>2. ASSUME s.kind = "existing_key", s.env = state.key PROVE FALSE
    <3>1. s = ExistingKey(state.key)
      BY <2>2 DEF WellFormed, GenerateNew, ExistingKey
    <3>2. state.source.kind = "existing_key"
      BY <1>0, <1>3, <3>1 DEF Faithful, Sources
    <3>3. state.source = ExistingKey(state.key)
      BY <3>2 DEF Faithful, WellFormed, GenerateNew, ExistingKey
    <3> QED
      BY <1>3, <3>1, <3>3
  <2>3. ASSUME s.kind = "generate_new", state.generated, AlgOf[state.key] = s.alg
        PROVE  FALSE
    <3>1. s = GenerateNew(s.alg)
      BY <2>3 DEF WellFormed, GenerateNew, ExistingKey
    <3>2. state.source.kind = "generate_new" /\ state.source.alg = s.alg
      BY <2>3 DEF Faithful
    <3>3. state.source = GenerateNew(s.alg)
      <4>1. PICK x : state.source = GenerateNew(x) \/ state.source = ExistingKey(x)
        BY DEF Faithful, WellFormed
      <4> QED
        BY <3>2, <4>1 DEF GenerateNew, ExistingKey
    <3> QED
      BY <1>3, <3>1, <3>3
  <2> QED
    BY <2>1, <2>2, <2>3
<1> QED
  BY <1>1, <1>2, <1>3

LEMMA AnswersStep == IInv /\ AnswersInv /\ [Next]_vars => AnswersInv'
<1> SUFFICES ASSUME IInv, AnswersInv, [Next]_vars, answer' # None PROVE AnswersInv'
  BY DEF AnswersInv, SuccessMatchesRequest, EnvelopeForGeneratorOnly,
         RefusedOnlyOnConflict, NoForeignCancellation, Initialized
<1> USE DEF AnswersInv, SuccessMatchesRequest, EnvelopeForGeneratorOnly,
            RefusedOnlyOnConflict, NoForeignCancellation, Initialized
<1>0. TypeOK /\ ReadyInv
  BY DEF IInv
<1>1. CASE answer'.to = None /\ answer'.reply.code # "ContextEnded"
  BY <1>1
<1>2. CASE answer' = answer /\ ready' = ready
  BY <1>2 DEF InstalledKey
<1>3. CASE /\ ready # None /\ ready' = ready
           /\ WellFormed(answer'.to)
           /\ answer'.reply = ResponseFor(ready, answer'.to)
  <2>1. ready \in ReadyStates /\ Faithful(ready) /\ InstalledKey' = ready.key
    BY <1>0, <1>3 DEF TypeOK, ReadyInv, InstalledKey
  <2> QED
    BY <1>3, <2>1, ResponseCorrect DEF Error
<1>4. CASE answer'.reply = Error("ContextEnded") /\ answer'.ended
  BY <1>4 DEF Error
<1>5. ASSUME NEW code \in RunErrors \cup {"DeadlineExceeded"}, answer'.reply = Error(code)
      PROVE  AnswersInv'
  <2>1. code \notin {"OK", "FailedPrecondition", "ContextEnded"}
    BY SourceAssumption, StoredAssumption
  <2>2. answer'.reply.code = code
    BY <1>5 DEF Error
  <2> QED
    BY <2>1, <2>2
<1> QED
  BY <1>1, <1>2, <1>3, <1>4, <1>5, AnswerShape
-----------------------------------------------------------------------------
(* Theorems *)

LEMMA InitIInv == Init => IInv
<1> SUFFICES ASSUME Init PROVE IInv
  OBVIOUS
<1>1. TypeOK
  BY SourceAssumption, StoredAssumption DEF Init, TypeOK
<1>2. RequestsInv /\ AttemptInv /\ ReadyInv /\ InboxInv /\ OneKeyVisible
  BY DEF Init, RequestsInv, AttemptInv, ReadyInv, InboxInv, OneKeyVisible
<1> QED
  BY <1>1, <1>2 DEF IInv

LEMMA NextIInv == IInv /\ [Next]_vars => IInv'
BY TypeStep, RequestsStep, AttemptStepInv, ReadyStep, InboxStep, VisibleStep DEF IInv

\* The inductive invariant holds in every reachable state of the gate.
THEOREM Inductive == Spec => []IInv
BY InitIInv, NextIInv, PTL DEF Spec

\* Every variable of the gate, every result in flight and every answer has its
\* type; in particular each error leaves with a status code.
THEOREM TypeCorrect == Spec => []TypeOK
<1>1. IInv => TypeOK
  BY DEF IInv
<1> QED
  BY <1>1, Inductive, PTL

\* However many callers race, fail, leave and retry, an enclave shows the
\* outside one key: the installed one.
THEOREM OneKey == Spec => []OneKeyVisible
<1>1. IInv => OneKeyVisible
  BY DEF IInv
<1> QED
  BY <1>1, Inductive, PTL

\* The atomic pointer is written at most once.
THEOREM NeverReplaced == Spec => ReadyNeverReplaced
<1>1. IInv /\ [Next]_vars => [ready # None => ready' = ready]_vars
  BY ReadyStays
<1> QED
  BY <1>1, Inductive, PTL DEF Spec, ReadyNeverReplaced

LEMMA AnswersInductive == Spec => []AnswersInv
<1>1. Init => AnswersInv
  BY DEF Init, AnswersInv, SuccessMatchesRequest, EnvelopeForGeneratorOnly,
         RefusedOnlyOnConflict, NoForeignCancellation, Initialized
<1> QED
  BY <1>1, AnswersStep, Inductive, PTL DEF Spec

\* Callers that share an attempt still get answers about their own requests:
\* a success is about the installed key, and the key asked for.
THEOREM AnswersCorrect == Spec => []SuccessMatchesRequest
<1>1. AnswersInv => SuccessMatchesRequest
  BY DEF AnswersInv
<1> QED
  BY <1>1, AnswersInductive, PTL

\* The envelope goes to those who asked to generate, and to all of them.
THEOREM EnvelopesCorrect == Spec => []EnvelopeForGeneratorOnly
<1>1. AnswersInv => EnvelopeForGeneratorOnly
  BY DEF AnswersInv
<1> QED
  BY <1>1, AnswersInductive, PTL

\* A refusal means a real conflict with the installed key.
THEOREM RefusalsCorrect == Spec => []RefusedOnlyOnConflict
<1>1. AnswersInv => RefusedOnlyOnConflict
  BY DEF AnswersInv
<1> QED
  BY <1>1, AnswersInductive, PTL

\* Nobody is told of another caller's cancellation.
THEOREM CancellationsCorrect == Spec => []NoForeignCancellation
<1>1. AnswersInv => NoForeignCancellation
  BY DEF AnswersInv
<1> QED
  BY <1>1, AnswersInductive, PTL

\* The gate implements a write-once cell: publishing is Install, an answer
\* about a key is Tell, everything else is invisible.
THEOREM Implementation == Spec => ImplementsKeyCell
<1>1. Init => Cell!Init
  BY DEF Init, Cell!Init, InstalledKey
<1>2. IInv /\ [Next]_vars => [Cell!Next]_Cell!vars
  <2> SUFFICES ASSUME IInv, [Next]_vars PROVE [Cell!Next]_Cell!vars
    OBVIOUS
  <2>0. TypeOK /\ AttemptInv
    BY DEF IInv
  <2>1. CASE UNCHANGED <<told, exported>> /\ ready' = ready
    BY <2>1 DEF Cell!vars, InstalledKey
  <2>2. CASE /\ UNCHANGED <<told, exported>>
             /\ ready = None /\ phase = "built" /\ ready' = outcome.state
    <3>1. ready' \in ReadyStates /\ InstalledKey = None
      BY <2>0, <2>2 DEF AttemptInv, InstalledKey
    <3>2. InstalledKey' = ready'.key /\ ready'.key \in Keys
      BY <3>1, NoneAssumption DEF InstalledKey, ReadyStates
    <3>3. Cell!Install(ready'.key)
      BY <2>2, <3>1, <3>2 DEF Cell!Install
    <3> QED
      BY <3>2, <3>3 DEF Cell!Next
  <2>3. ASSUME NEW r, NEW s, NEW ended, Replying(r, s, ended)
        PROVE  [Cell!Next]_Cell!vars
    <3>1. InstalledKey' = InstalledKey
      BY <2>3 DEF Replying, InstalledKey
    <3>2. CASE r.key = None
      BY <2>3, <3>1, <3>2 DEF Replying, Return, Cell!vars
    <3>3. CASE r.key = InstalledKey /\ r.key # None
      BY <2>3, <3>1, <3>3 DEF Replying, Return, Cell!Next, Cell!Tell
    <3> QED
      BY <2>3, <3>2, <3>3 DEF Replying
  <2> QED
    BY <2>1, <2>2, <2>3, StepShape
<1> QED
  BY <1>1, <1>2, Inductive, PTL DEF Spec, ImplementsKeyCell, Cell!Spec
=============================================================================
