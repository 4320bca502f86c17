---------------------- MODULE AttestationRefreshProofs ----------------------
(***************************************************************************)
(* The bounds of the attestation refresh, for all delays, life times and   *)
(* margins that TimingAssumption allows.                                   *)
(***************************************************************************)
EXTENDS AttestationRefresh, TLAPS

\* The windows that certificates can have.
Issued == {v \in Windows : v.na - v.nb \in Lives}
-----------------------------------------------------------------------------
(* The delays *)

LEMMA RemainderBound ==
    ASSUME NEW a \in Nat, NEW b \in Nat \ {0}
    PROVE  a % b \in Int /\ a % b <= a
<1>1. a = b * (a \div b) + (a % b) /\ a \div b \in Nat /\ a % b \in 0..(b - 1)
  OBVIOUS
<1>2. b * (a \div b) \in Nat
  BY <1>1
<1> QED
  BY <1>1, <1>2

\* A product that wraps around only becomes smaller.
LEMMA WrappedBound ==
    ASSUME NEW x \in Nat
    PROVE  Wrapped(x) \in Int /\ Wrapped(x) <= x
<1>1. x + Half \in Nat /\ 2 * Half \in Nat \ {0}
  BY TimingAssumption
<1>2. (x + Half) % (2 * Half) \in Int /\ (x + Half) % (2 * Half) <= x + Half
  BY <1>1, RemainderBound
<1> QED
  BY <1>2, TimingAssumption DEF Wrapped

\* The refresh is due before the document ends, by more than a call takes, and
\* also where the product overflows.
LEMMA RefreshAtBound ==
    ASSUME NEW v \in Issued
    PROVE  RefreshAt(v) \in Int /\ RefreshAt(v) + Latency < v.na
<1> DEFINE life == v.na - v.nb
           w == Wrapped(life * 4)
<1>1. v.na \in Int /\ v.nb \in Int /\ life \in Nat /\ 5 * Latency + 1 <= life /\ Latency \in Nat
  BY TimingAssumption DEF Issued, Windows
<1>2. w \in Int /\ w <= life * 4
  BY <1>1, WrappedBound
<1> HIDE DEF w
<1>3. Quotient(w, 5) \in Int /\ 5 * Quotient(w, 5) <= life * 4
  <2>1. CASE w >= 0
    BY <1>1, <1>2, <2>1 DEF Quotient
  <2>2. CASE w < 0
    <3>1. (-w) \div 5 \in Nat
      BY <1>2, <2>2
    <3> QED
      BY <1>1, <1>2, <2>2, <3>1 DEF Quotient
  <2> QED
    BY <1>2, <2>1, <2>2
<1>4. RefreshAt(v) = v.nb + Quotient(w, 5)
  BY DEF RefreshAt, w
<1> QED
  BY <1>1, <1>3, <1>4

\* Every sleep takes time, and ends early enough for a call to renew the
\* document, or is the shortest one.
LEMMA DelayBound ==
    ASSUME NEW v \in Issued, NEW t \in Int, NEW again \in BOOLEAN
    PROVE  /\ Delay(t, v, again) \in Nat \ {0}
           /\ Delay(t, v, again) = Floor \/ t + Delay(t, v, again) + Latency < v.na
<1>1. v.na \in Int /\ RefreshAt(v) \in Int /\ RefreshAt(v) + Latency < v.na
  BY RefreshAtBound DEF Issued, Windows
<1>2. CASE ~again /\ t < RefreshAt(v)
  BY <1>1, <1>2 DEF Delay
<1>3. CASE ~(~again /\ t < RefreshAt(v))
  <2> DEFINE half == Quotient(v.na - t, 2)
  <2>1. half \in Int /\ (half > 0 => 2 * half <= v.na - t)
    BY <1>1 DEF Quotient
  <2>2. Delay(t, v, again) = IF half < Floor THEN Floor ELSE IF half > Ceiling THEN Ceiling ELSE half
    BY <1>3 DEF Delay, RetryDelay
  <2> HIDE DEF half
  <2> QED
    BY <1>1, <2>1, <2>2, TimingAssumption
<1> QED
  BY <1>2, <1>3
-----------------------------------------------------------------------------
(* The inductive invariant *)

\* All windows are windows of certificates, and the host has accepted its own.
WindowsInv ==
    /\ cert \in Issued
    /\ doc # None => doc \in Issued /\ doc.nb <= now
    /\ reply # None => reply \in Issued

\* The task and what it remembers.
TaskInv ==
    /\ loop # "call" => reply = None
    /\ loop = "loaded" => calm = None
    /\ loop = "off" => doc = None
    /\ loop \in {"sleep", "call"} => doc # None /\ known = doc
    /\ since <= now

\* A sleep is never overslept, and planned as DelayBound says.
SleepInv ==
    loop = "sleep" =>
        /\ now <= wake
        /\ wake = since + Floor \/ wake + Latency < doc.na

\* While all is well: the certificates are in order, calls are answered, and
\* so are the answers to calls made since.
WellInv ==
    calm # None =>
        /\ calm <= now /\ Fresh(cert, now)
        /\ loop = "call" => now <= Later(since, calm) + Latency
        /\ loop = "call" /\ reply # None /\ since > calm =>
                reply.nb <= now /\ reply.na > since + Margin

\* While all is well the next answer comes before the document ends, or soon
\* after all has become well.
InTimeInv ==
    calm # None =>
        /\ loop = "sleep" => wake + Latency < doc.na \/ wake <= calm + Latency + Floor
        /\ loop = "call" => Later(since, calm) + Latency < doc.na
                            \/ Later(since, calm) <= calm + Latency + Floor

AInv == TypeOK /\ WindowsInv /\ TaskInv /\ SleepInv /\ WellInv /\ InTimeInv

LEMMA InitInv == Init => AInv
<1> SUFFICES ASSUME Init PROVE AInv
  OBVIOUS
<1>1. ASSUME NEW life \in Lives, NEW age \in 0..(life - 1)
      PROVE  Window(-age, life) \in Issued /\ Window(-age, life).nb <= 0
  BY TimingAssumption DEF Window, Issued, Windows
<1>2. cert \in Issued /\ (doc # None => doc \in Issued /\ doc.nb <= now)
  BY <1>1 DEF Init
<1>3. cert \in Windows /\ doc \in Windows \cup {None}
  BY <1>2 DEF Issued
<1>4. TypeOK
  <2>1. /\ now = 0 /\ since = 0 /\ wake = 0 /\ loop = "loaded"
        /\ known = None /\ reply = None /\ calm = None
    BY DEF Init
  <2>2. retry \in BOOLEAN
    BY DEF Init
  <2> QED
    BY <1>3, <2>1, <2>2, TimingAssumption DEF TypeOK
<1>5. WindowsInv /\ TaskInv
  BY <1>2 DEF Init, WindowsInv, TaskInv
<1>6. SleepInv /\ WellInv /\ InTimeInv
  BY DEF Init, SleepInv, WellInv, InTimeInv
<1> QED
  BY <1>4, <1>5, <1>6 DEF AInv

\* What the task does whenever it goes to sleep with the window of the document.
LEMMA SleepStep ==
    ASSUME AInv, NEW again \in BOOLEAN, doc' \in Issued, Sleep(doc', again)
    PROVE  /\ loop' = "sleep" /\ known' = doc' /\ retry' \in BOOLEAN /\ since' = now
           /\ wake' \in Int /\ now <= wake'
           /\ wake' = now + Floor \/ wake' + Latency < doc'.na
<1>1. now \in Int
  BY DEF AInv, TypeOK
<1>2. /\ Delay(now, doc', again) \in Nat \ {0}
      /\ Delay(now, doc', again) = Floor \/ now + Delay(now, doc', again) + Latency < doc'.na
  BY <1>1, DelayBound
<1> QED
  BY <1>1, <1>2 DEF Sleep

LEMMA StartStep == ASSUME AInv, StartRefresh PROVE AInv'
<1>1. CASE doc = None
  BY <1>1 DEF StartRefresh, AInv, TypeOK, WindowsInv, TaskInv, SleepInv, WellInv, InTimeInv
<1>2. CASE doc # None
  <2>1. doc' = doc /\ doc' \in Issued /\ Sleep(doc', FALSE)
    BY <1>2 DEF StartRefresh, AInv, WindowsInv, Sleep
  <2>2. /\ loop' = "sleep" /\ known' = doc' /\ retry' \in BOOLEAN /\ since' = now
        /\ wake' \in Int /\ now <= wake'
        /\ wake' = now + Floor \/ wake' + Latency < doc'.na
    BY <2>1, SleepStep
  <2>3. /\ calm = None /\ reply = None /\ UNCHANGED <<now, cert, doc, reply, calm>>
    BY DEF StartRefresh, AInv, TaskInv
  <2>4. doc' \in Windows
    BY <2>1 DEF Issued
  <2> QED
    BY <1>2, <2>2, <2>3, <2>4
       DEF AInv, TypeOK, WindowsInv, TaskInv, SleepInv, WellInv, InTimeInv
<1> QED
  BY <1>1, <1>2

\* The end of a call, whatever its outcome: the task sleeps with a document
\* that lasts at least as long, and longer than what Margin leaves if the call
\* was made while all was well.
LEMMA CallEnds ==
    ASSUME AInv, loop = "call", NEW again \in BOOLEAN,
           doc' \in Issued, doc'.nb <= now, Sleep(doc', again), reply' = None,
           UNCHANGED <<now, cert, calm>>,
           calm # None /\ since > calm => doc'.na > since + Margin
    PROVE  AInv'
<1>1. /\ loop' = "sleep" /\ known' = doc' /\ retry' \in BOOLEAN /\ since' = now
      /\ wake' \in Int /\ now <= wake'
      /\ wake' = now + Floor \/ wake' + Latency < doc'.na
  BY SleepStep
<1>2. now \in Int /\ since \in Int /\ since <= now /\ (calm # None => calm \in Int)
      /\ doc' \in Windows /\ doc'.na \in Int /\ doc' # None
  BY TimingAssumption DEF AInv, TypeOK, TaskInv, Issued, Windows
<1>3. TypeOK'
  BY <1>1, <1>2 DEF AInv, TypeOK
<1>4. WindowsInv' /\ TaskInv' /\ SleepInv' /\ WellInv'
  BY <1>1, <1>2 DEF AInv, WindowsInv, TaskInv, SleepInv, WellInv
<1>5. ASSUME calm # None
      PROVE  wake' + Latency < doc'.na \/ wake' <= calm + Latency + Floor
  <2>1. now <= Later(since, calm) + Latency
    BY <1>5 DEF AInv, WellInv
  <2>2. CASE since > calm
    BY <1>1, <1>2, <1>5, <2>1, <2>2, TimingAssumption DEF Later
  <2>3. CASE ~(since > calm)
    BY <1>1, <1>2, <1>5, <2>1, <2>3, TimingAssumption DEF Later
  <2> QED
    BY <2>2, <2>3
<1>6. InTimeInv'
  BY <1>1, <1>5 DEF InTimeInv
<1> QED
  BY <1>3, <1>4, <1>6 DEF AInv

LEMMA ReceiveStep == ASSUME AInv, Receive PROVE AInv'
<1> USE DEF Receive
<1>1. /\ loop = "call" /\ reply \in Issued /\ reply' = None /\ UNCHANGED <<now, cert, calm>>
      /\ doc \in Issued /\ doc.nb <= now /\ known = doc
  BY DEF AInv, WindowsInv, TaskInv
<1>2. /\ reply.na \in Int /\ reply.nb \in Int /\ doc.na \in Int
      /\ now \in Int /\ since \in Int /\ Margin \in Int /\ Latency \in Int /\ Latency <= Margin
  BY <1>1, TimingAssumption DEF AInv, TypeOK, Issued, Windows
<1>3. calm # None /\ since > calm =>
          ValidAt(reply, now) /\ reply.na > since + Margin
  <2> SUFFICES ASSUME calm # None, since > calm
               PROVE  ValidAt(reply, now) /\ reply.na > since + Margin
    OBVIOUS
  <2>1. /\ reply.nb <= now /\ reply.na > since + Margin
        /\ now <= Later(since, calm) + Latency /\ calm \in Int
    BY <1>1, TimingAssumption DEF AInv, WellInv, WindowsInv, TypeOK
  <2> QED
    BY <1>2, <2>1 DEF Later, ValidAt
<1>4. CASE ValidAt(reply, now) /\ reply.na > doc.na /\ doc' = reply
           /\ Sleep(reply, reply.na <= known.na)
  <2>1. (reply.na <= known.na) = FALSE
    BY <1>1, <1>2, <1>4
  <2>2. Sleep(doc', FALSE)
    BY <1>4, <2>1
  <2> QED
    BY <1>1, <1>3, <1>4, <2>2, CallEnds DEF ValidAt
<1>5. CASE ValidAt(reply, now) /\ reply.na <= doc.na /\ doc' = doc
           /\ Sleep(doc, doc.na <= known.na)
  <2>1. (doc.na <= known.na) = TRUE
    BY <1>1, <1>2
  <2>2. Sleep(doc', TRUE)
    BY <1>5, <2>1
  <2>3. calm # None /\ since > calm => doc'.na > since + Margin
    BY <1>2, <1>3, <1>5, TimingAssumption
  <2> QED
    BY <1>1, <1>5, <2>2, <2>3, CallEnds
<1>6. CASE ~ValidAt(reply, now) /\ doc' = doc /\ Sleep(known, TRUE)
  BY <1>1, <1>3, <1>6, CallEnds
<1> QED
  BY <1>4, <1>5, <1>6

LEMMA FailStep == ASSUME AInv, CallFails PROVE AInv'
<1>1. loop = "call" /\ doc \in Issued /\ doc.nb <= now /\ known = doc
  BY DEF CallFails, AInv, WindowsInv, TaskInv
<1> QED
  BY <1>1, CallEnds DEF CallFails

LEMMA FireStep == ASSUME AInv, Fire PROVE AInv'
<1>1. now = wake /\ now \in Int /\ (calm # None => calm \in Int /\ calm <= now)
  BY DEF Fire, AInv, TypeOK, SleepInv, WellInv
<1>2. loop' = "call" /\ since' = now /\ loop = "sleep"
      /\ UNCHANGED <<now, cert, doc, known, retry, wake, reply, calm>>
  BY DEF Fire
<1>3. TypeOK' /\ WindowsInv' /\ TaskInv' /\ SleepInv'
  BY <1>1, <1>2 DEF AInv, TypeOK, WindowsInv, TaskInv, SleepInv
<1>4. WellInv'
  BY <1>1, <1>2, TimingAssumption DEF AInv, WellInv, TaskInv, Later, Fresh
<1>5. InTimeInv'
  BY <1>1, <1>2 DEF AInv, InTimeInv, Later
<1> QED
  BY <1>3, <1>4, <1>5 DEF AInv

LEMMA AttestStep == ASSUME AInv, Attest PROVE AInv'
<1>1. /\ loop = "call" /\ reply' = cert
      /\ UNCHANGED <<now, cert, doc, loop, known, retry, since, wake, calm>>
  BY DEF Attest
<1>2. TypeOK' /\ WindowsInv' /\ TaskInv' /\ SleepInv' /\ InTimeInv'
  BY <1>1 DEF AInv, TypeOK, WindowsInv, TaskInv, SleepInv, InTimeInv
<1>3. WellInv'
  BY <1>1, TimingAssumption DEF AInv, TypeOK, Windows, WellInv, TaskInv, Fresh
<1> QED
  BY <1>2, <1>3 DEF AInv

LEMMA EnvironmentStep ==
    ASSUME AInv, Renew \/ FaultsEnd \/ FaultsBegin \/ Tick \/ UNCHANGED vars
    PROVE  AInv'
<1> USE DEF AInv
<1>1. CASE Renew
  <2>1. PICK life \in Lives, ahead \in {0, 1} : cert' = Window(now + ahead, life)
    BY <1>1 DEF Renew
  <2>2. cert' \in Issued
    BY <2>1, TimingAssumption DEF Window, Issued, Windows, TypeOK
  <2>3. cert' \in Windows
    BY <2>2 DEF Issued
  <2> QED
    BY <1>1, <2>2, <2>3
       DEF Renew, TypeOK, WindowsInv, TaskInv, SleepInv, WellInv, InTimeInv
<1>2. CASE FaultsEnd
  <2>1. /\ calm' = now /\ now \in 0..Horizon /\ loop # "loaded" /\ Fresh(cert, now)
        /\ UNCHANGED <<now, cert, doc, loop, known, retry, since, wake, reply>>
    BY <1>2 DEF FaultsEnd, TypeOK
  <2>2. TypeOK' /\ WindowsInv' /\ TaskInv' /\ SleepInv'
    BY <2>1 DEF TypeOK, WindowsInv, TaskInv, SleepInv
  <2>3. since \in Int /\ since <= now /\ now \in Int /\ wake \in Int
    BY DEF TypeOK, TaskInv
  <2>4. WellInv'
    BY <2>1, <2>3, TimingAssumption DEF WellInv, Later, Fresh
  <2>5. InTimeInv'
    BY <2>1, <2>3, TimingAssumption DEF InTimeInv, SleepInv, Later
  <2> QED
    BY <2>2, <2>4, <2>5
<1>3. CASE FaultsBegin
  BY <1>3 DEF FaultsBegin, TypeOK, WindowsInv, TaskInv, SleepInv, WellInv, InTimeInv
<1>4. CASE Tick
  <2>1. /\ now' = now + 1 /\ now \in 0..Horizon /\ now < Horizon
        /\ UNCHANGED <<cert, doc, loop, known, retry, since, wake, reply, calm>>
        /\ loop = "sleep" => now < wake
        /\ calm # None => Fresh(cert, now + 1)
        /\ calm # None /\ loop = "call" => now < Later(since, calm) + Latency
        /\ wake \in Int /\ since \in Int /\ (calm # None => calm \in Int)
    BY <1>4 DEF Tick, TypeOK
  <2>2. TypeOK'
    BY <2>1, TimingAssumption DEF TypeOK
  <2>3. WindowsInv' /\ TaskInv' /\ SleepInv' /\ InTimeInv'
    BY <2>1 DEF WindowsInv, TaskInv, SleepInv, InTimeInv, Issued, Windows
  <2>4. WellInv'
    BY <2>1, TimingAssumption DEF WellInv, WindowsInv, Issued, Windows, Later
  <2> QED
    BY <2>2, <2>3, <2>4
<1>5. CASE UNCHANGED vars
  BY <1>5 DEF vars, TypeOK, WindowsInv, TaskInv, SleepInv, WellInv, InTimeInv
<1> QED
  BY <1>1, <1>2, <1>3, <1>4, <1>5

LEMMA StepInv == AInv /\ [Next]_vars => AInv'
BY StartStep, ReceiveStep, FailStep, FireStep, AttestStep, EnvironmentStep DEF Next
-----------------------------------------------------------------------------
(* The theorems *)

THEOREM Inductive == Spec => []AInv
<1> QED
  BY InitInv, StepInv, PTL DEF Spec

\* The variables keep their types, in every phase of the task.
THEOREM TypeCorrect == Spec => []TypeOK
<1>1. AInv => TypeOK
  BY DEF AInv
<1> QED
  BY <1>1, Inductive, PTL

\* The task plans with the window that PublicKey checks.
THEOREM InSync == Spec => []LoopInSync
<1>1. AInv => LoopInSync
  BY DEF AInv, TaskInv, LoopInSync
<1> QED
  BY <1>1, Inductive, PTL

\* The task knows the document's window and wakes before it ends, or after the
\* shortest delay.
THEOREM NeverOversleeps == Spec => []WakesInTime
<1>1. AInv => WakesInTime
  <2> SUFFICES ASSUME AInv, loop = "sleep"
               PROVE  known = doc /\ (wake < doc.na \/ wake = since + Floor)
    BY DEF WakesInTime
  <2>1. doc \in Issued /\ wake \in Int /\ Latency \in Nat
    BY TimingAssumption DEF AInv, TypeOK, TaskInv, WindowsInv
  <2>2. known = doc
    BY DEF AInv, TaskInv
  <2> QED
    BY <2>1, <2>2 DEF AInv, SleepInv, Issued, Windows
<1> QED
  BY <1>1, Inductive, PTL

\* A document never gives way to one that ends earlier.
THEOREM Monotone == Spec => NeverBack
<1>1. AInv /\ [Next]_vars => [doc # None => doc' # None /\ doc'.na >= doc.na]_vars
  <2> SUFFICES ASSUME AInv, Next, doc # None
               PROVE  doc' # None /\ doc'.na >= doc.na
    OBVIOUS
  <2>1. doc.na \in Int /\ (reply # None => reply.na \in Int)
    BY DEF AInv, WindowsInv, Issued, Windows
  <2>2. CASE Receive
    <3>1. doc' = doc \/ (reply # None /\ doc' = reply /\ reply.na > doc.na)
      BY <2>2, Zenon DEF Receive
    <3> QED
      BY <2>1, <3>1
  <2>3. CASE doc' = doc
    BY <2>1, <2>3
  <2> QED
    BY <2>2, <2>3 DEF Next, StartRefresh, Fire, Attest, CallFails, Renew,
                      FaultsEnd, FaultsBegin, Tick
<1> QED
  BY <1>1, Inductive, PTL DEF Spec, NeverBack

\* After any outage: Floor and two calls later PublicKey serves, and keeps on.
THEOREM AlwaysAvailable == Spec => []Available
<1>1. AInv => Available
  <2> SUFFICES ASSUME AInv, calm # None, now - calm > Floor + 2 * Latency, doc # None
               PROVE  ValidAt(doc, now)
    BY DEF Available, Serves
  <2>1. /\ doc \in Issued /\ doc.nb <= now /\ doc.na \in Int /\ doc.nb \in Int
        /\ now \in Int /\ calm \in Int /\ since \in Int /\ wake \in Int
        /\ Floor \in Int /\ Latency \in Int /\ Latency >= 0
    BY TimingAssumption DEF AInv, TypeOK, WindowsInv, Issued, Windows
  <2>2. loop \in {"sleep", "call"}
    BY DEF AInv, TypeOK, TaskInv
  <2>3. CASE loop = "sleep"
    BY <2>1, <2>3 DEF AInv, SleepInv, InTimeInv, ValidAt
  <2>4. CASE loop = "call"
    <3>1. /\ now <= Later(since, calm) + Latency
          /\ Later(since, calm) + Latency < doc.na \/ Later(since, calm) <= calm + Latency + Floor
      BY <2>4 DEF AInv, WellInv, InTimeInv
    <3>2. Later(since, calm) \in Int
      BY <2>1 DEF Later
    <3> QED
      BY <2>1, <3>1, <3>2 DEF ValidAt
  <2> QED
    BY <2>2, <2>3, <2>4
<1> QED
  BY <1>1, Inductive, PTL
=============================================================================
