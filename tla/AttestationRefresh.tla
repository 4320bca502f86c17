------------------------- MODULE AttestationRefresh -------------------------
(***************************************************************************)
(* The public-key attestation document of a serving host                   *)
(* (internal/app/service/signer/v1): the background task that renews it    *)
(* through GetPublicKey, and PublicKey, which refuses to serve an expired  *)
(* one.                                                                    *)
(*                                                                         *)
(* A document is the window in which all of its certificates are valid.    *)
(* The NSM makes documents with whatever certificates the hypervisor has   *)
(* given it, so that two calls may yield the same window.  Time passes in  *)
(* units that are long compared with the code between two blocking         *)
(* calls: timers fire and calls end within the unit they are due in.  The  *)
(* other reasons for a refresh to fail (another key, an empty document,    *)
(* one that does not parse) count as failed calls.                         *)
(***************************************************************************)
EXTENDS Integers

CONSTANTS Floor, Ceiling,   \* bounds of a retry's delay
          Half,             \* a Duration is an integer in -Half..(Half - 1)
          Lives,            \* life times of the documents
          RpcTimeout,       \* of GetPublicKey
          Latency,          \* of an enclave that is well
          Margin,           \* what certificates have left when renewed in time
          Horizon,          \* bound of the clock
          None

Windows == [nb : Int, na : Int]

Later(a, b) == IF a >= b THEN a ELSE b

ASSUME TimingAssumption ==
    /\ Floor \in Nat \ {0} /\ Ceiling \in Nat /\ Floor <= Ceiling
    /\ Half \in Nat \ {0} /\ Horizon \in Nat /\ Latency \in Nat /\ Margin \in Nat
    /\ RpcTimeout \in Nat /\ Latency <= RpcTimeout /\ Latency <= Floor
    /\ Margin >= Floor + 2 * Latency
    /\ Lives \subseteq (5 * Latency + 1)..(Half - 1)
    /\ None \notin Int /\ None \notin Windows

VARIABLES
    now,      \* the wall clock
    cert,     \* the window of a document the NSM would make now
    doc,      \* loadedKey.attestationValidity, None without attestation
    loop,     \* the background task: "loaded" before it starts, "off" if it
              \*   is not needed, "sleep" on its timer, "call" in GetPublicKey
    known,    \* its local copy of the window
    retry,
    since,    \* when the sleep or the call began
    wake,     \* when the timer fires
    reply,    \* the answer on its way back, or None
    calm      \* since when the enclave is well, or None

vars == <<now, cert, doc, loop, known, retry, since, wake, reply, calm>>

TypeOK ==
    /\ now \in 0..Horizon
    /\ cert \in Windows /\ doc \in Windows \cup {None}
    /\ loop \in {"loaded", "off", "sleep", "call"}
    /\ known \in IF loop \in {"sleep", "call"} THEN Windows ELSE {None}
    /\ retry \in BOOLEAN /\ since \in 0..Horizon /\ wake \in Int
    /\ reply \in Windows \cup {None}
    /\ calm \in 0..Horizon \cup {None}

Window(start, life) == [nb |-> start, na |-> start + life]

ValidAt(v, t) == v.nb <= t /\ t < v.na
-----------------------------------------------------------------------------
(* When to refresh *)

\* Go's division truncates, its Durations wrap around.
Quotient(x, d) == IF x >= 0 THEN x \div d ELSE -((-x) \div d)
Wrapped(x) == ((x + Half) % (2 * Half)) - Half

\* Four fifths of the life time.
RefreshAt(v) == v.nb + Quotient(Wrapped((v.na - v.nb) * 4), 5)

\* Seeded bug: sleeps for all that is left, not for half of it.
RetryDelayFull(t, v) ==
    LET left == v.na - t
    IN  IF left < Floor THEN Floor ELSE IF left > Ceiling THEN Ceiling ELSE left

\* Half of what is left, within bounds.
RetryDelay(t, v) ==
    LET half == Quotient(v.na - t, 2)
    IN  IF half < Floor THEN Floor ELSE IF half > Ceiling THEN Ceiling ELSE half

Delay(t, v, again) ==
    IF ~again /\ t < RefreshAt(v) THEN RefreshAt(v) - t ELSE RetryDelay(t, v)
-----------------------------------------------------------------------------
(* The host *)

\* newKeyState accepted the document of Initialize.
Init ==
    /\ now = 0
    /\ \E life \in Lives : \E age \in 0..(life - 1) : cert = Window(-age, life)
    /\ \/ doc = None
       \/ \E life \in Lives : \E age \in 0..(life - 1) : doc = Window(-age, life)
    /\ loop = "loaded" /\ known = None /\ retry = FALSE
    /\ since = 0 /\ wake = 0 /\ reply = None /\ calm = None

Sleep(v, again) ==
    /\ loop' = "sleep"
    /\ known' = v /\ retry' = again
    /\ since' = now
    /\ wake' = now + Delay(now, v, again)

\* The secret is stored and the background task begins.
StartRefresh ==
    /\ loop = "loaded"
    /\ \/ doc = None /\ loop' = "off" /\ UNCHANGED <<known, retry, since, wake>>
       \/ doc # None /\ Sleep(doc, FALSE)
    /\ UNCHANGED <<now, cert, doc, reply, calm>>

\* The timer fires and the task calls the enclave.
Fire ==
    /\ loop = "sleep" /\ now >= wake
    /\ loop' = "call"
    /\ since' = now
    /\ UNCHANGED <<now, cert, doc, known, retry, wake, reply, calm>>

\* The enclave attests its key.
Attest ==
    /\ loop = "call" /\ reply = None
    /\ reply' = cert
    /\ UNCHANGED <<now, cert, doc, loop, known, retry, since, wake, calm>>

\* Seeded bug: the document of the answer is stored whatever its window.
ReceiveAny ==
    /\ loop = "call" /\ reply # None
    /\ reply' = None
    /\ doc' = reply /\ Sleep(reply, reply.na <= known.na)
    /\ UNCHANGED <<now, cert, calm>>

\* Seeded bug: the task goes on with the window it had.
ReceiveForgets ==
    /\ loop = "call" /\ reply # None
    /\ reply' = None
    /\ \/ ValidAt(reply, now) /\ reply.na > doc.na
          /\ doc' = reply /\ Sleep(known, FALSE)
       \/ ~(ValidAt(reply, now) /\ reply.na > doc.na)
          /\ UNCHANGED doc /\ Sleep(known, TRUE)
    /\ UNCHANGED <<now, cert, calm>>

\* A newer window replaces the old one; the same or an older one, or one that
\* is not valid now, has the task retry.
Receive ==
    /\ loop = "call" /\ reply # None
    /\ reply' = None
    /\ \/ ValidAt(reply, now) /\ reply.na > doc.na
          /\ doc' = reply /\ Sleep(reply, reply.na <= known.na)
       \/ ValidAt(reply, now) /\ reply.na <= doc.na
          /\ UNCHANGED doc /\ Sleep(doc, doc.na <= known.na)
       \/ ~ValidAt(reply, now)
          /\ UNCHANGED doc /\ Sleep(known, TRUE)
    /\ UNCHANGED <<now, cert, calm>>

\* Seeded bug: an error ends the task.
CallFailsEnds ==
    /\ loop = "call" /\ calm = None
    /\ loop' = "off" /\ reply' = None
    /\ UNCHANGED <<now, cert, doc, known, retry, since, wake, calm>>

\* An error, or the time is up.
CallFails ==
    /\ loop = "call" /\ calm = None
    /\ reply' = None
    /\ Sleep(known, TRUE)
    /\ UNCHANGED <<now, cert, doc, calm>>
-----------------------------------------------------------------------------
(* The environment *)

\* The certificates are in order at time t.
Fresh(v, t) == v.nb <= t /\ v.na - t > Margin

\* The hypervisor renews the certificates, with a clock that may be ahead.
Renew ==
    \E life \in Lives, ahead \in {0, 1} :
        /\ cert' = Window(now + ahead, life)
        /\ cert' # cert
        /\ calm # None => Fresh(cert', now)
        /\ UNCHANGED <<now, doc, loop, known, retry, since, wake, reply, calm>>

\* From here on calls are answered within Latency and certificates renewed in
\* time.
FaultsEnd ==
    /\ calm = None /\ loop # "loaded" /\ Fresh(cert, now)
    /\ calm' = now
    /\ UNCHANGED <<now, cert, doc, loop, known, retry, since, wake, reply>>

FaultsBegin ==
    /\ calm # None
    /\ calm' = None
    /\ UNCHANGED <<now, cert, doc, loop, known, retry, since, wake, reply>>

Tick ==
    /\ now < Horizon
    /\ loop = "sleep" => now < wake
    /\ loop = "call" => now < since + RpcTimeout
    /\ calm # None => /\ Fresh(cert, now + 1)
                      /\ loop = "call" => now < Later(since, calm) + Latency
    /\ now' = now + 1
    /\ UNCHANGED <<cert, doc, loop, known, retry, since, wake, reply, calm>>

Next ==
    \/ StartRefresh \/ Fire \/ Attest \/ Receive \/ CallFails
    \/ Renew \/ FaultsEnd \/ FaultsBegin \/ Tick

Spec == Init /\ [][Next]_vars
-----------------------------------------------------------------------------
(* Properties *)

\* What PublicKey looks at before it answers.
Serves == doc # None => ValidAt(doc, now)

\* However long the enclave, or the renewal of its certificates, failed: once
\* it has been well for longer than Floor and the time of two calls, PublicKey serves, and
\* it does not stop until something fails again.
Available == calm # None /\ now - calm > Floor + 2 * Latency => Serves

\* The task plans with the window that PublicKey checks.
LoopInSync == loop \in {"sleep", "call"} => known = doc

\* The task plans with the window that PublicKey checks, and never sleeps past
\* its end but for the one minimal delay that follows a document that ends sooner
\* than that.
WakesInTime == loop = "sleep" => known = doc /\ (wake < doc.na \/ wake = since + Floor)

\* A document never gives way to one that ends earlier.
NeverBack == [][doc # None => doc' # None /\ doc'.na >= doc.na]_vars

\* docs/architecture.md:1234: "A background task calls NSM again before the
\* certificate for the public-key attestation expires."  Stated of the first
\* call for each document.
CallsBeforeExpiry == loop = "sleep" /\ ~retry => wake < doc.na
=============================================================================
