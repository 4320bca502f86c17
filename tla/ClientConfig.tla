---------------------------- MODULE ClientConfig ----------------------------
(***************************************************************************)
(* How long the host's gRPC client waits for an RPC of the enclave and how *)
(* often it tries (common/grpc/client/client.go), given the configuration  *)
(* and what the enclave provider makes of it                               *)
(* (app/provider/enclave/enclave.go).  A key of the Methods map is a pair, *)
(* the method and how it is spelled.                                       *)
(***************************************************************************)
EXTENDS Integers, Sequences

CONSTANTS StartupDefault,   \* defaultStartupTimeoutMS
          SignDefault       \* defaultSignMessageTimeoutMS

ASSUME ClientAssumption == StartupDefault \in Nat \ {0} /\ SignDefault \in Nat \ {0}

RpcMethods == {"Initialize", "GenerateKey", "GetPublicKey", "SignMessage"}

\* The spellings lookupMethodConfig tries, in order.  Other ones, /svc/INITIALIZE
\* for instance, only EqualFold recognises.
Spellings == <<"/svc/Method", "/svc/method", "Method", "method">>
AllSpellings == {Spellings[i] : i \in DOMAIN Spellings} \cup {"/svc/METHOD"}

Unset == [timeout |-> 0, attempts |-> 0]

\* NewProviderConfig and DefaultMethodTimeouts: what is not configured.
DefaultConfig ==
    [methods |->
        [k \in RpcMethods \X {"method"} |->
            [timeout |-> IF k[1] = "SignMessage" THEN SignDefault ELSE StartupDefault,
             attempts |-> IF k[1] = "GetPublicKey" THEN 0 ELSE 1]],
     requestTimeout |-> SignDefault, maxAttempts |-> 1]

\* Seeded bug: only the key `initialize` is pinned.
PinOneSpelling(cfg) ==
    LET key == <<"Initialize", "method">> IN
    [cfg EXCEPT !.methods =
        [k \in DOMAIN cfg.methods \cup {key} |->
            IF k # key THEN cfg.methods[k]
            ELSE [timeout |-> IF key \in DOMAIN cfg.methods THEN cfg.methods[key].timeout
                              ELSE StartupDefault,
                  attempts |-> 1]]]

PinInitializeTransportAttempts(cfg) ==
    LET key == <<"Initialize", "method">>
        Pinned(k) == IF k[1] = "Initialize" THEN [cfg.methods[k] EXCEPT !.attempts = 1]
                     ELSE cfg.methods[k]
    IN  [cfg EXCEPT !.methods =
            [k \in DOMAIN cfg.methods \cup {key} |->
                IF k \in DOMAIN cfg.methods THEN Pinned(k)
                ELSE [timeout |-> StartupDefault, attempts |-> 1]]]

LookupMethodConfig(cfg, method) ==
    LET found == {i \in DOMAIN Spellings : <<method, Spellings[i]>> \in DOMAIN cfg.methods}
    IN  IF found = {} THEN Unset
        ELSE cfg.methods[<<method, Spellings[CHOOSE i \in found : \A j \in found : i <= j]>>]

\* 0: none.
ResolveMethodTimeout(cfg, method) ==
    LET own == LookupMethodConfig(cfg, method).timeout IN
    CASE own < 0 -> 0
      [] own > 0 -> own
      [] OTHER -> IF cfg.requestTimeout > 0 THEN cfg.requestTimeout ELSE 0

\* The interceptors are chained only if something is configured for them.
TimeoutOf(cfg, method) ==
    IF cfg.requestTimeout > 0 \/ DOMAIN cfg.methods # {} THEN ResolveMethodTimeout(cfg, method) ELSE 0

HasMethodMaxAttempts(methods) == \E k \in DOMAIN methods : methods[k].attempts > 0

\* What the innermost option, if there is one, says to the retry interceptor.
WithMax(cfg, method) ==
    LET own == LookupMethodConfig(cfg, method).attempts IN
    IF own > 0 THEN own ELSE cfg.maxAttempts

\* How often the retry interceptor calls at most: WithMax(0) means once.
AttemptsOf(cfg, method) ==
    IF /\ cfg.maxAttempts > 0 \/ HasMethodMaxAttempts(cfg.methods)
       /\ WithMax(cfg, method) > 0
    THEN WithMax(cfg, method) ELSE 1
=============================================================================
