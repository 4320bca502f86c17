-------------------------- MODULE ConversionProofs --------------------------
(***************************************************************************)
(* What Conversions' runs check on bounded inputs, for all of them.        *)
(***************************************************************************)
EXTENDS Conversions, FiniteSets, FiniteSetTheorems, WellFoundedInduction, TLAPS

-----------------------------------------------------------------------------
(* Induction *)

\* A set that holds 0, and with a number the next one, holds all numbers.
LEMMA NaturalInduction ==
    ASSUME NEW S, 0 \in S, \A n \in Nat : n \in S => n + 1 \in S
    PROVE  Nat \subseteq S
<1> SUFFICES ASSUME NEW b \in Nat, b \notin S PROVE FALSE
  OBVIOUS
<1> DEFINE T == {1 .. k : k \in {n \in Nat : n \notin S}}
<1>1. T \subseteq FiniteSubsetsOf(Nat) /\ T # {}
  <2>1. \A k \in Nat : IsFiniteSet(1 .. k)
    BY FS_Interval
  <2> QED BY <2>1 DEF FiniteSubsetsOf
<1>2. IsWellFoundedOn(StrictSubsetOrdering(Nat), FiniteSubsetsOf(Nat))
  BY FS_StrictSubsetOrderingWellFounded
<1> HIDE DEF T
<1>3. PICK x \in T : \A y \in T : ~(<<y, x>> \in StrictSubsetOrdering(Nat))
  BY <1>1, <1>2, WFMin
<1>4. PICK k \in Nat : k \notin S /\ x = 1 .. k
  BY DEF T
<1>5. k # 0 /\ k - 1 \in Nat /\ k - 1 \notin S
  BY <1>4
<1>6. 1 .. (k - 1) \in T
  BY <1>5 DEF T
<1>7. <<1 .. (k-1), 1 .. k>> \in StrictSubsetOrdering(Nat)
  BY <1>5, <1>4 DEF StrictSubsetOrdering
<1> QED BY <1>3, <1>4, <1>6, <1>7

\* A set of numbers that is not empty has a least element.
LEMMA LeastNumber ==
    ASSUME NEW T, T \subseteq Nat, T # {}
    PROVE  \E i \in T : \A j \in T : i <= j
<1> SUFFICES ASSUME \A i \in T : \E j \in T : j < i PROVE FALSE
  OBVIOUS
<1> DEFINE S == {n \in Nat : \A i \in T : n <= i}
<1>1. 0 \in S
  OBVIOUS
<1>2. ASSUME NEW n \in Nat, n \in S PROVE n + 1 \in S
  BY <1>2
<1>3. Nat \subseteq S
  <2> HIDE DEF S
  <2> QED BY <1>1, <1>2, NaturalInduction
<1>4. PICK t \in T : TRUE
  OBVIOUS
<1> QED BY <1>3, <1>4

\* The elements of a sequence.
LEMMA SeqElements ==
    ASSUME NEW T, NEW s \in Seq(T)
    PROVE  Len(s) \in Nat /\ DOMAIN s = 1 .. Len(s) /\ \A i \in 1 .. Len(s) : s[i] \in T
  OBVIOUS
-----------------------------------------------------------------------------
(* Routes *)

\* What Routed does is what RouteAgrees says.
LEMMA RoutedAgrees ==
    ASSUME NEW in \in RouteInput, input.in = in, output = Routed(in)
    PROVE  RouteAgrees
<1> SUFFICES ASSUME NEW i \in DOMAIN Routed(in)
             PROVE  LET region == in.arns[i].region
                        step == Routed(in)[i]
                    IN  /\ step.client.dials.port = ServicePort(in.basePort, "kms")
                        /\ step.client.verifies \in {None, KmsHost(region)}
                        /\ step.to = IF in.hostLocalstack THEN TcpLocalstackEndpoint
                                     ELSE IF \E j \in DOMAIN in.hostArns :
                                                in.hostArns[j].region = region
                                     THEN [host |-> KmsHost(region), port |-> 443] ELSE None
  BY DEF RouteAgrees
<1> DEFINE clients == Clients(in.arns, in.endpoint, in.localstack)
           region == in.arns[i].region
<1>1. /\ ValidateAwsproxyConfig(in.endpoint, in.basePort)
      /\ ValidateRegions(in.credentials, in.arns)
      /\ i \in DOMAIN in.arns
      /\ Routed(in)[i] = [client |-> clients[i],
                          to |-> Resolve(Resolver(in.hostArns, in.hostLocalstack), clients[i].route)]
  BY DEF Routed, Clients
<1>2. ExtractRegion(in.arns[i]) = region
  BY <1>1 DEF ValidateRegions, ExtractRegion
<1>3. /\ clients[i].dials = in.endpoint
      /\ clients[i].route = [service |-> "kms", region |-> region]
      /\ clients[i].verifies \in {None, KmsHost(region)}
  BY <1>1, <1>2 DEF Clients, HTTPClient
<1>4. ServicePort(in.basePort, "kms") = in.basePort
  BY DEF ServicePort, AWSServiceNames, RouteInput
<1>5. in.endpoint.port = in.basePort
  BY <1>1 DEF ValidateAwsproxyConfig
<1>6. Resolve(Resolver(in.hostArns, in.hostLocalstack), clients[i].route)
        = IF in.hostLocalstack THEN TcpLocalstackEndpoint
          ELSE IF \E j \in DOMAIN in.hostArns : in.hostArns[j].region = region
          THEN [host |-> KmsHost(region), port |-> 443] ELSE None
  BY <1>3 DEF Resolve, Resolver, EndpointTemplate, KmsHost, RouteInput
<1> QED BY <1>1, <1>3, <1>4, <1>5, <1>6
-----------------------------------------------------------------------------
(* Client *)

\* An input as ClientInputAssumption says it is.
ClientInput(in) ==
    /\ in.method \in RpcMethods
    /\ DOMAIN in.cfg.methods \subseteq RpcMethods \X AllSpellings
    /\ in.cfg \in [methods : [DOMAIN in.cfg.methods -> MethodConfig],
                   requestTimeout : Int, maxAttempts : Nat]

\* The spellings under which a method is found.
Found(cfg, method) == {i \in DOMAIN Spellings : <<method, Spellings[i]>> \in DOMAIN cfg.methods}
FirstFound(cfg, method) == CHOOSE i \in Found(cfg, method) : \A j \in Found(cfg, method) : i <= j
Own(cfg, method) == cfg.methods[<<method, Spellings[FirstFound(cfg, method)]>>]

\* The first spelling under which a method is found is one of the four.
LEMMA FirstFoundExists ==
    ASSUME NEW cfg, NEW method, Found(cfg, method) # {}
    PROVE  /\ FirstFound(cfg, method) \in Found(cfg, method)
           /\ \A j \in Found(cfg, method) : FirstFound(cfg, method) <= j
<1>1. Found(cfg, method) \subseteq Nat
  BY DEF Found, Spellings
<1>2. \E i \in Found(cfg, method) : \A j \in Found(cfg, method) : i <= j
  BY <1>1, LeastNumber, SMTT(40)
<1> HIDE DEF Found
<1> QED BY <1>2 DEF FirstFound

\* What Limits does is what ClientLimits says.
LEMMA LimitsAgree ==
    ASSUME NEW in, ClientInput(in), input.in = in, output = Limits(in)
    PROVE  ClientLimits
<1> DEFINE cfg == PinInitializeTransportAttempts(in.cfg)
           key == <<"Initialize", "method">>
           given == Found(in.cfg, in.method)
           found == Found(cfg, in.method)
           own == Own(in.cfg, in.method)
           pinned == Own(cfg, in.method)
           global == [timeout |-> IF in.cfg.requestTimeout < 0 THEN 0 ELSE in.cfg.requestTimeout,
                      attempts |-> IF in.cfg.maxAttempts = 0 THEN 1 ELSE in.cfg.maxAttempts]
<1>1. /\ cfg.requestTimeout = in.cfg.requestTimeout
      /\ cfg.maxAttempts = in.cfg.maxAttempts
      /\ DOMAIN cfg.methods = DOMAIN in.cfg.methods \cup {key}
      /\ \A k \in DOMAIN cfg.methods :
            /\ cfg.methods[k].timeout = IF k \in DOMAIN in.cfg.methods THEN in.cfg.methods[k].timeout
                                        ELSE StartupDefault
            /\ cfg.methods[k].attempts = IF k[1] = "Initialize" THEN 1 ELSE in.cfg.methods[k].attempts
  <2> DEFINE methods == [k \in DOMAIN in.cfg.methods \cup {key} |->
                IF k \in DOMAIN in.cfg.methods
                THEN IF k[1] = "Initialize" THEN [in.cfg.methods[k] EXCEPT !.attempts = 1]
                     ELSE in.cfg.methods[k]
                ELSE [timeout |-> StartupDefault, attempts |-> 1]]
  <2>1. cfg = [in.cfg EXCEPT !.methods = methods]
    BY DEF PinInitializeTransportAttempts
  <2>2. \A k \in DOMAIN in.cfg.methods : in.cfg.methods[k] \in MethodConfig
    BY DEF ClientInput
  <2>3. \A k \in DOMAIN methods :
            /\ methods[k].timeout = IF k \in DOMAIN in.cfg.methods THEN in.cfg.methods[k].timeout
                                    ELSE StartupDefault
            /\ methods[k].attempts = IF k[1] = "Initialize" THEN 1 ELSE in.cfg.methods[k].attempts
    BY <2>2 DEF MethodConfig
  <2>4. DOMAIN methods = DOMAIN in.cfg.methods \cup {key}
    OBVIOUS
  <2> HIDE DEF methods, cfg
  <2> QED BY <2>1, <2>3, <2>4
<1> HIDE DEF cfg
<1>2. found = IF in.method = "Initialize" THEN given \cup {4} ELSE given
  BY <1>1 DEF Found, Spellings
<1>3. /\ LookupMethodConfig(cfg, in.method) = IF found = {} THEN Unset ELSE pinned
      /\ found # {} => pinned \in {cfg.methods[k] : k \in DOMAIN cfg.methods}
  BY FirstFoundExists DEF LookupMethodConfig, Found, FirstFound, Own
<1>4. given # {} => /\ FirstFound(cfg, in.method) = FirstFound(in.cfg, in.method)
                    /\ <<in.method, Spellings[FirstFound(in.cfg, in.method)]>> \in DOMAIN in.cfg.methods
  <2> SUFFICES ASSUME given # {}
               PROVE  /\ FirstFound(cfg, in.method) = FirstFound(in.cfg, in.method)
                      /\ FirstFound(in.cfg, in.method) \in given
    BY DEF Found
  <2> DEFINE f == FirstFound(in.cfg, in.method)
             g == FirstFound(cfg, in.method)
  <2>1. f \in given /\ \A j \in given : f <= j
    BY FirstFoundExists
  <2>2. g \in found /\ \A j \in found : g <= j
    BY <1>2, FirstFoundExists
  <2>3. given \subseteq 1 .. 4
    BY DEF Found, Spellings
  <2> HIDE DEF f, g, given, found
  <2>4. f = g
    BY <1>2, <2>1, <2>2, <2>3
  <2> QED BY <2>1, <2>4 DEF f, g
<1>5. given = {} /\ in.method = "Initialize" =>
        pinned = cfg.methods[key] /\ key \notin DOMAIN in.cfg.methods
  <2> SUFFICES ASSUME given = {}, in.method = "Initialize"
               PROVE  pinned = cfg.methods[key] /\ key \notin DOMAIN in.cfg.methods
    OBVIOUS
  <2>1. FirstFound(cfg, in.method) = 4
    <3>1. found = {4}
      BY <1>2
    <3>2. FirstFound(cfg, in.method) \in found
      BY <3>1, FirstFoundExists
    <3> QED BY <3>1, <3>2
  <2>2. Spellings[4] = "method" /\ 4 \in DOMAIN Spellings
    BY DEF Spellings
  <2> QED BY <2>1, <2>2 DEF Own, Found
<1>6. given # {} => /\ own \in MethodConfig
                    /\ pinned.timeout = own.timeout
                    /\ pinned.attempts = IF in.method = "Initialize" THEN 1 ELSE own.attempts
  BY <1>1, <1>4 DEF Own, ClientInput
<1>7. TimeoutOf(cfg, in.method) =
        IF found = {} \/ pinned.timeout = 0 THEN global.timeout
        ELSE IF pinned.timeout < 0 THEN 0 ELSE pinned.timeout
  <2>1. DOMAIN cfg.methods # {}
    BY <1>1
  <2>2. found # {} => pinned.timeout \in Int
    BY <1>1, <1>3, ClientAssumption DEF ClientInput, MethodConfig
  <2> HIDE DEF found, pinned
  <2> QED BY <1>1, <1>3, <2>1, <2>2 DEF TimeoutOf, ResolveMethodTimeout, Unset, ClientInput
<1>8. AttemptsOf(cfg, in.method) =
        IF found = {} \/ pinned.attempts = 0 THEN global.attempts ELSE pinned.attempts
  <2>1. HasMethodMaxAttempts(cfg.methods)
    <3>1. key \in DOMAIN cfg.methods /\ cfg.methods[key].attempts = 1
      BY <1>1
    <3> QED BY <3>1 DEF HasMethodMaxAttempts
  <2>2. found # {} => pinned.attempts \in Nat
    BY <1>1, <1>3 DEF ClientInput, MethodConfig
  <2> HIDE DEF found, pinned
  <2> QED BY <1>1, <1>3, <2>1, <2>2 DEF AttemptsOf, WithMax, Unset, ClientInput
<1>9. output.timeout = TimeoutOf(cfg, in.method) /\ output.attempts = AttemptsOf(cfg, in.method)
      /\ output = [timeout |-> output.timeout, attempts |-> output.attempts]
  BY DEF Limits, cfg
<1>10. in.method = "Initialize" => output.attempts = 1
  <2> HIDE DEF found, given, pinned, own
  <2> QED BY <1>1, <1>2, <1>5, <1>6, <1>8, <1>9
<1>11. in.method # "Initialize" =>
          output.attempts = IF given = {} \/ own.attempts = 0 THEN global.attempts ELSE own.attempts
  <2> HIDE DEF found, given, pinned, own, global
  <2> QED BY <1>1, <1>2, <1>6, <1>8, <1>9
<1>12. output.timeout =
          CASE given = {} /\ in.method = "Initialize" -> StartupDefault
            [] given = {} /\ in.method # "Initialize" -> global.timeout
            [] given # {} /\ own.timeout = 0 -> global.timeout
            [] given # {} /\ own.timeout < 0 -> 0
            [] given # {} /\ own.timeout > 0 -> own.timeout
  <2>1. given = {} /\ in.method = "Initialize" => pinned.timeout = StartupDefault
    BY <1>1, <1>5
  <2>2. given # {} => own.timeout \in Int
    BY <1>6 DEF MethodConfig
  <2> HIDE DEF found, given, pinned, own, global
  <2> QED BY <1>2, <1>6, <1>7, <1>9, <2>1, <2>2, ClientAssumption
<1>13. in.cfg = DefaultConfig =>
          output = [timeout |-> IF in.method = "SignMessage" THEN SignDefault ELSE StartupDefault,
                    attempts |-> 1]
  <2> SUFFICES ASSUME in.cfg = DefaultConfig
               PROVE  /\ output.timeout = IF in.method = "SignMessage" THEN SignDefault
                                          ELSE StartupDefault
                      /\ output.attempts = 1
    BY <1>9
  <2>1. DOMAIN in.cfg.methods = RpcMethods \X {"method"} /\ in.cfg.maxAttempts = 1
    BY DEF DefaultConfig
  <2>2. given = {4}
    BY <2>1 DEF Found, Spellings, ClientInput
  <2>3. FirstFound(in.cfg, in.method) = 4
    BY <2>2, FirstFoundExists
  <2>4. own = in.cfg.methods[<<in.method, "method">>]
    BY <2>3 DEF Own, Spellings
  <2>5. own = [timeout |-> IF in.method = "SignMessage" THEN SignDefault ELSE StartupDefault,
               attempts |-> IF in.method = "GetPublicKey" THEN 0 ELSE 1]
    BY <2>4 DEF DefaultConfig, ClientInput
  <2> HIDE DEF given, own
  <2> QED BY <1>10, <1>11, <1>12, <2>1, <2>2, <2>5, ClientAssumption
<1> HIDE DEF cfg
<1> QED BY <1>10, <1>11, <1>12, <1>13
        DEF ClientLimits, Own, Found, FirstFound
-----------------------------------------------------------------------------
(* Attestation documents *)

\* One step of the loop over the chain.
Narrow(v, c) ==
    [notBefore |-> IF v.notBefore = 0 \/ c.notBefore > v.notBefore
                   THEN c.notBefore ELSE v.notBefore,
     notAfter |-> IF v.notAfter = 0 \/ c.notAfter < v.notAfter
                  THEN c.notAfter ELSE v.notAfter]

\* Whether w holds what the loop has after each certificate, up to the k-th.
Narrows(w, k, chain) ==
    w = [i \in 0 .. k |-> IF i = 0 THEN [notBefore |-> 0, notAfter |-> 0]
                          ELSE Narrow(w[i - 1], chain[i])]

\* The loop can be run to its end.
LEMMA NarrowsExists ==
    ASSUME NEW chain, NEW n \in Nat
    PROVE  \E w : Narrows(w, n, chain)
<1> DEFINE S == {k \in Nat : \E w : Narrows(w, k, chain)}
<1>1. 0 \in S
  <2> DEFINE w == [i \in 0 .. 0 |-> [notBefore |-> 0, notAfter |-> 0]]
  <2>1. Narrows(w, 0, chain)
    BY DEF Narrows
  <2> QED BY <2>1
<1>2. ASSUME NEW k \in Nat, k \in S PROVE k + 1 \in S
  <2>1. PICK w : Narrows(w, k, chain)
    BY <1>2
  <2> DEFINE x == [i \in 0 .. k + 1 |-> IF i <= k THEN w[i] ELSE Narrow(w[k], chain[k + 1])]
  <2>2. \A i \in 0 .. k + 1 : x[i] = IF i = 0 THEN [notBefore |-> 0, notAfter |-> 0]
                                     ELSE Narrow(x[i - 1], chain[i])
    <3> SUFFICES ASSUME NEW i \in 0 .. k + 1
                 PROVE  x[i] = IF i = 0 THEN [notBefore |-> 0, notAfter |-> 0]
                               ELSE Narrow(x[i - 1], chain[i])
      OBVIOUS
    <3>1. CASE i <= k
      BY <2>1, <3>1 DEF Narrows
    <3>2. CASE i = k + 1
      BY <3>2
    <3> QED BY <3>1, <3>2
  <2>3. Narrows(x, k + 1, chain)
    BY <2>2 DEF Narrows
  <2> QED BY <2>3
<1> HIDE DEF S
<1>3. Nat \subseteq S
  BY <1>1, <1>2, NaturalInduction
<1> QED BY <1>3 DEF S

\* What the loop has at its end.
LEMMA ParseNarrows ==
    ASSUME NEW document, WellFormed(document), Len(document.chain) \in Nat
    PROVE  \E w : /\ Narrows(w, Len(document.chain), document.chain)
                  /\ ParseAttestationValidity(document) = w[Len(document.chain)]
<1> DEFINE chain == document.chain
           IsLoop(w) == w = [i \in 0 .. Len(chain) |->
                            IF i = 0 THEN [notBefore |-> 0, notAfter |-> 0]
                            ELSE [notBefore |-> IF \/ w[i - 1].notBefore = 0
                                                   \/ chain[i].notBefore > w[i - 1].notBefore
                                                THEN chain[i].notBefore ELSE w[i - 1].notBefore,
                                  notAfter |-> IF \/ w[i - 1].notAfter = 0
                                                  \/ chain[i].notAfter < w[i - 1].notAfter
                                               THEN chain[i].notAfter ELSE w[i - 1].notAfter]]
           loop == CHOOSE w : IsLoop(w)
<1>1. ParseAttestationValidity(document) = loop[Len(chain)]
  BY DEF ParseAttestationValidity
<1>2. \E w : Narrows(w, Len(chain), chain)
  BY NarrowsExists
<1>3. \A w : Narrows(w, Len(chain), chain) <=> IsLoop(w)
  BY DEF Narrows, Narrow
<1> HIDE DEF IsLoop
<1>4. IsLoop(loop)
  BY <1>2, <1>3
<1> QED BY <1>1, <1>3, <1>4
\* After each certificate, the window is that of all certificates so far.
LEMMA LoopIsWindow ==
    ASSUME NEW chain \in Seq([parses : BOOLEAN, notBefore : Nat \ {0}, notAfter : Nat \ {0}]),
           NEW w, Narrows(w, Len(chain), chain), NEW now \in Nat, NEW k \in 1 .. Len(chain)
    PROVE  /\ w[k].notBefore \in Nat \ {0} /\ w[k].notAfter \in Nat \ {0}
           /\ w[k].notBefore <= now <=> \A i \in 1 .. k : chain[i].notBefore <= now
           /\ now < w[k].notAfter <=> \A i \in 1 .. k : now < chain[i].notAfter
<1>0. /\ Len(chain) \in Nat
      /\ \A i \in 1 .. Len(chain) : /\ chain[i].notBefore \in Nat /\ chain[i].notBefore # 0
                                    /\ chain[i].notAfter \in Nat /\ chain[i].notAfter # 0
  <2>1. /\ Len(chain) \in Nat
        /\ \A i \in 1 .. Len(chain) :
              chain[i] \in [parses : BOOLEAN, notBefore : Nat \ {0}, notAfter : Nat \ {0}]
    BY SeqElements
  <2> QED BY <2>1
<1> DEFINE IsWindow(m) ==
             /\ w[m].notBefore \in Nat \ {0} /\ w[m].notAfter \in Nat \ {0}
             /\ w[m].notBefore <= now <=> \A i \in 1 .. m : chain[i].notBefore <= now
             /\ now < w[m].notAfter <=> \A i \in 1 .. m : now < chain[i].notAfter
           S == {m \in Nat : m \in 1 .. Len(chain) => IsWindow(m)}
<1>1. 0 \in S
  OBVIOUS
<1>2. ASSUME NEW m \in Nat, m \in S PROVE m + 1 \in S
  <2>a. m \in 1 .. Len(chain) => IsWindow(m)
    BY <1>2
  <2> HIDE DEF IsWindow
  <2> SUFFICES ASSUME m + 1 \in 1 .. Len(chain) PROVE IsWindow(m + 1)
    OBVIOUS
  <2> USE DEF IsWindow
  <2> DEFINE c == chain[m + 1]
  <2>1. /\ c.notBefore \in Nat /\ c.notBefore # 0
        /\ c.notAfter \in Nat /\ c.notAfter # 0
    BY <1>0
  <2>2. w[m + 1] = Narrow(w[m], c) /\ w[0] = [notBefore |-> 0, notAfter |-> 0]
    BY DEF Narrows
  <2>3. CASE m = 0
    <3>1. w[1].notBefore = c.notBefore /\ w[1].notAfter = c.notAfter
      BY <2>2, <2>3 DEF Narrow
    <3>2. \A i \in 1 .. 1 : chain[i] = c
      BY <2>3
    <3> QED BY <2>1, <2>3, <3>1, <3>2
  <2>4. CASE m # 0
    <3>1. IsWindow(m)
      BY <1>0, <2>a, <2>4
    <3>2. /\ w[m + 1].notBefore = IF c.notBefore > w[m].notBefore THEN c.notBefore ELSE w[m].notBefore
          /\ w[m + 1].notAfter = IF c.notAfter < w[m].notAfter THEN c.notAfter ELSE w[m].notAfter
      BY <2>2, <3>1 DEF Narrow
    <3>3. 1 .. m + 1 = (1 .. m) \cup {m + 1}
      OBVIOUS
    <3> HIDE DEF c, IsWindow
    <3>4. /\ (\A i \in 1 .. m + 1 : chain[i].notBefore <= now) <=>
               (\A i \in 1 .. m : chain[i].notBefore <= now) /\ c.notBefore <= now
          /\ (\A i \in 1 .. m + 1 : now < chain[i].notAfter) <=>
               (\A i \in 1 .. m : now < chain[i].notAfter) /\ now < c.notAfter
      BY <3>3 DEF c
    <3>5. /\ w[m].notBefore \in Nat /\ w[m].notBefore # 0
          /\ w[m].notAfter \in Nat /\ w[m].notAfter # 0
      BY <3>1 DEF IsWindow
    <3>6. /\ w[m + 1].notBefore \in Nat \ {0}
          /\ w[m + 1].notBefore <= now <=> (w[m].notBefore <= now /\ c.notBefore <= now)
      BY <2>1, <3>2, <3>5, SMTT(40)
    <3>7. /\ w[m + 1].notAfter \in Nat \ {0}
          /\ now < w[m + 1].notAfter <=> (now < w[m].notAfter /\ now < c.notAfter)
      BY <2>1, <3>2, <3>5
    <3> QED BY <3>1, <3>4, <3>6, <3>7 DEF IsWindow
  <2> QED BY <2>3, <2>4
<1> HIDE DEF S
<1>3. Nat \subseteq S
  BY <1>1, <1>2, NaturalInduction
<1> HIDE DEF IsWindow
<1>4. k \in Nat
  BY <1>0
<1>5. IsWindow(k)
  BY <1>3, <1>4 DEF S
<1> QED BY <1>5 DEF IsWindow

\* What the host makes of a document is what WindowExact says.
LEMMA WindowAgrees ==
    ASSUME NEW in \in DocumentInput, input.in = in,
           output = ValidateAt(ParseAttestationValidity(in.document), in.now)
    PROVE  WindowExact
<1> DEFINE document == in.document
           chain == document.chain
           n == Len(chain)
<1>0. /\ chain \in Seq([parses : BOOLEAN, notBefore : Nat \ {0}, notAfter : Nat \ {0}])
      /\ n \in Nat /\ DOMAIN chain = 1 .. n /\ in.now \in Nat
  BY DEF DocumentInput
<1>1. CASE ~WellFormed(document)
  <2>1. ~output
    <3>1. ParseAttestationValidity(document) = Refused
      BY <1>1 DEF ParseAttestationValidity
    <3>2. ~ValidateAt(Refused, in.now)
      BY <1>0 DEF Refused, ValidateAt
    <3> QED BY <3>1, <3>2
  <2> QED BY <1>1, <2>1 DEF WellFormed, WindowExact
<1>2. CASE WellFormed(document)
  <2>1. PICK w : Narrows(w, n, chain) /\ ParseAttestationValidity(document) = w[n]
    BY <1>0, <1>2, ParseNarrows
  <2>2. n \in 1 .. n
    BY <1>0, <1>2 DEF WellFormed
  <2> HIDE DEF n, chain
  <2>3. output <=> /\ \A i \in 1 .. n : chain[i].notBefore <= in.now
                   /\ \A i \in 1 .. n : in.now < chain[i].notAfter
    BY <1>0, <2>1, <2>2, LoopIsWindow DEF ValidateAt, n
  <2> QED BY <1>0, <1>2, <2>3 DEF WellFormed, WindowExact, chain
<1> QED BY <1>1, <1>2
-----------------------------------------------------------------------------
(* CMS *)

\* A part of a sequence, and the part after it, are the two together.
LEMMA SubSeqs ==
    ASSUME NEW T, NEW s \in Seq(T), NEW a \in 0 .. Len(s), NEW b \in a .. Len(s)
    PROVE  SubSeq(s, 1, a) \o SubSeq(s, a + 1, b) = SubSeq(s, 1, b)
  OBVIOUS

\* All of a sequence, and none of it, as parts of it.
LEMMA WholeSeq ==
    ASSUME NEW T, NEW s \in Seq(T)
    PROVE  SubSeq(s, 1, Len(s)) = s /\ SubSeq(s, 1, 0) = <<>> /\ <<>> \o s = s
  OBVIOUS

LEMMA Concat ==
    ASSUME NEW T, NEW s \in Seq(T), NEW t \in Seq(T)
    PROVE  /\ s \o t \in Seq(T) /\ Len(s \o t) = Len(s) + Len(t)
           /\ \A i \in 1 .. Len(s) : (s \o t)[i] = s[i]
           /\ \A i \in 1 .. Len(t) : (s \o t)[Len(s) + i] = t[i]
           /\ SubSeq(s \o t, 1, Len(s)) = s
  OBVIOUS

\* Sequences that agree everywhere.
LEMMA SameSeq ==
    ASSUME NEW T, NEW s \in Seq(T), NEW t \in Seq(T), Len(s) = Len(t),
           \A i \in 1 .. Len(s) : s[i] = t[i]
    PROVE  s = t
  OBVIOUS

\* A part of a sequence is one.
LEMMA SubSeqType ==
    ASSUME NEW T, NEW s \in Seq(T), NEW k \in 0 .. Len(s)
    PROVE  /\ SubSeq(s, 1, k) \in Seq(T) /\ Len(SubSeq(s, 1, k)) = k
           /\ \A i \in 1 .. k : SubSeq(s, 1, k)[i] = s[i]
  OBVIOUS

\* Division with remainder, and that there is only one.
LEMMA Division ==
    ASSUME NEW a \in Nat, NEW b \in Nat \ {0}
    PROVE  a % b \in 0 .. b - 1 /\ a \div b \in Nat /\ a = b * (a \div b) + (a % b)
  OBVIOUS

LEMMA Remainder ==
    ASSUME NEW b \in Nat \ {0}, NEW q \in Nat, NEW r \in 0 .. b - 1
    PROVE  (b * q + r) % b = r
  OBVIOUS

\* Padding fills the last block.
LEMMA FullBlocks ==
    ASSUME NEW a \in Nat, NEW b \in Nat \ {0}
    PROVE  b - (a % b) \in 1 .. b /\ (a + (b - (a % b))) % b = 0
<1>1. a % b \in 0 .. b - 1 /\ a \div b \in Nat /\ a = b * (a \div b) + (a % b)
  BY Division
<1> DEFINE q == a \div b
           r == a % b
<1> HIDE DEF q, r
<1>2. a + (b - r) = b * (q + 1) + 0
  BY <1>1 DEF q, r
<1>3. (b * (q + 1) + 0) % b = 0
  BY <1>1, Remainder DEF q
<1>4. (a + (b - r)) % b = 0
  BY <1>2, <1>3
<1> QED BY <1>1, <1>4 DEF r

\* The padding of what is left when n bytes are taken from full blocks is n long.
LEMMA LastBlock ==
    ASSUME NEW a \in Nat, NEW b \in Nat \ {0}, a % b = 0, NEW n \in 1 .. b, n <= a
    PROVE  b - ((a - n) % b) = n
<1> DEFINE q == a \div b
<1>1. q \in Nat /\ a = b * q
  BY Division
<1> HIDE DEF q
<1>2. q > 0
  BY <1>1
<1>3. a - n = b * (q - 1) + (b - n)
  BY <1>1
<1>4. CASE n = b
  <2>1. a - n = b * (q - 1) + 0
    BY <1>3, <1>4
  <2>2. (b * (q - 1) + 0) % b = 0
    BY <1>1, <1>2, Remainder
  <2> QED BY <1>4, <2>1, <2>2
<1>5. CASE n # b
  <2> DEFINE p == q - 1
             r == b - n
  <2>1. p \in Nat /\ r \in 0 .. b - 1
    BY <1>1, <1>2, <1>5
  <2>2. a - n = b * p + r
    BY <1>3
  <2>3. b - r = n
    OBVIOUS
  <2> HIDE DEF p, r
  <2>4. (b * p + r) % b = r
    BY <2>1, Remainder
  <2> QED BY <2>2, <2>3, <2>4
<1> QED BY <1>4, <1>5
-----------------------------------------------------------------------------
(* The bytes of a message *)

\* One more fragment.
Joined(bytes, fragment) == bytes \o fragment.bytes

\* Whether w holds what the first fragments are together, up to the n-th.
Joins(w, fragments, n) ==
    w = [i \in 0 .. n |-> IF i = 0 THEN <<>> ELSE Joined(w[i - 1], fragments[i])]

\* The fragments can be joined to the end.
LEMMA JoinsExists ==
    ASSUME NEW fragments, NEW n \in Nat
    PROVE  \E w : Joins(w, fragments, n)
<1> DEFINE S == {k \in Nat : \E w : Joins(w, fragments, k)}
<1>1. 0 \in S
  <2> DEFINE w == [i \in 0 .. 0 |-> <<>>]
  <2>1. Joins(w, fragments, 0)
    BY DEF Joins
  <2> QED BY <2>1
<1>2. ASSUME NEW k \in Nat, k \in S PROVE k + 1 \in S
  <2>1. PICK w : Joins(w, fragments, k)
    BY <1>2
  <2> DEFINE x == [i \in 0 .. k + 1 |-> IF i <= k THEN w[i] ELSE Joined(w[k], fragments[k + 1])]
  <2>2. \A i \in 0 .. k + 1 : x[i] = IF i = 0 THEN <<>> ELSE Joined(x[i - 1], fragments[i])
    <3> SUFFICES ASSUME NEW i \in 0 .. k + 1
                 PROVE  x[i] = IF i = 0 THEN <<>> ELSE Joined(x[i - 1], fragments[i])
      OBVIOUS
    <3>1. CASE i <= k
      BY <2>1, <3>1 DEF Joins
    <3>2. CASE i = k + 1
      BY <3>2
    <3> QED BY <3>1, <3>2
  <2>3. Joins(x, fragments, k + 1)
    BY <2>2 DEF Joins
  <2> QED BY <2>3
<1> HIDE DEF S
<1>3. Nat \subseteq S
  BY <1>1, <1>2, NaturalInduction
<1> QED BY <1>3 DEF S

\* What a body is decoded to that is made of OCTET STRINGs.
LEMMA DecodeJoins ==
    ASSUME NEW body, body.tag = "context0", Len(body.fragments) \in Nat,
           body.compound => \A i \in DOMAIN body.fragments : body.fragments[i].octetString
    PROVE  \E w : /\ Joins(w, body.fragments, Len(body.fragments))
                  /\ DecodeEncryptedContent(body) = [ok |-> TRUE, bytes |-> w[Len(body.fragments)]]
<1> DEFINE IsJoin(w) == w = [i \in 0 .. Len(body.fragments) |->
                                IF i = 0 THEN <<>> ELSE w[i - 1] \o body.fragments[i].bytes]
           joined == CHOOSE w : IsJoin(w)
<1>1. DecodeEncryptedContent(body) = [ok |-> TRUE, bytes |-> joined[Len(body.fragments)]]
  BY DEF DecodeEncryptedContent
<1>2. \E w : Joins(w, body.fragments, Len(body.fragments))
  BY JoinsExists
<1>3. \A w : Joins(w, body.fragments, Len(body.fragments)) <=> IsJoin(w)
  BY DEF Joins, Joined
<1> HIDE DEF IsJoin
<1>4. IsJoin(joined)
  BY <1>2, <1>3
<1> QED BY <1>1, <1>3, <1>4

\* Where the i-th fragment of a body ends.
CutOf(bytes, cuts, i) ==
    IF i = 0 THEN 0
    ELSE IF i > Len(cuts) THEN Len(bytes)
    ELSE IF cuts[i] < Len(bytes) THEN cuts[i] ELSE Len(bytes)

\* A fragment does not end before the one before it.
LEMMA CutsGrow ==
    ASSUME NEW T, NEW bytes \in Seq(T), NEW style \in Styles, NEW i \in 0 .. Len(style.cuts)
    PROVE  /\ CutOf(bytes, style.cuts, i) \in 0 .. Len(bytes)
           /\ CutOf(bytes, style.cuts, i + 1) \in CutOf(bytes, style.cuts, i) .. Len(bytes)
<1> DEFINE cuts == style.cuts
           n == Len(bytes)
           m == Len(cuts)
<1>1. /\ cuts \in Seq(Nat)
      /\ \A j, k \in DOMAIN cuts : j < k => cuts[j] <= cuts[k]
  BY DEF Styles
<1>2. /\ n \in Nat /\ m \in Nat /\ DOMAIN cuts = 1 .. m
      /\ \A j \in 1 .. m : cuts[j] \in Nat
  <2> HIDE DEF cuts
  <2> QED BY <1>1, SeqElements
<1> HIDE DEF cuts, m
<1>3. i \in 1 .. m /\ i + 1 \in 1 .. m => cuts[i] <= cuts[i + 1]
  BY <1>1, <1>2, SMTT(40)
<1> USE DEF m
<1> QED BY <1>2, <1>3 DEF CutOf, cuts

\* However a body is written, its bytes are the ones it was made of.
LEMMA BodyDecodes ==
    ASSUME NEW T, NEW bytes \in Seq(T), NEW style \in Styles
    PROVE  DecodeEncryptedContent(Body(bytes, style)) = [ok |-> TRUE, bytes |-> bytes]
<1> DEFINE body == Body(bytes, style)
           fragments == body.fragments
           cuts == style.cuts
           m == Len(cuts)
           cut(i) == CutOf(bytes, cuts, i)
<1>0. m \in Nat
  <2>1. cuts \in Seq(Nat)
    BY DEF Styles
  <2> HIDE DEF cuts
  <2> QED BY <2>1
<1>1. CASE ~style.compound
  <2>1. body.tag = "context0" /\ ~body.compound /\ fragments = <<[octetString |-> TRUE, bytes |-> bytes]>>
    BY <1>1 DEF Body
  <2> HIDE DEF body
  <2>2. Len(fragments) = 1 /\ fragments[1].bytes = bytes
    BY <2>1
  <2>3. PICK w : Joins(w, fragments, 1) /\ DecodeEncryptedContent(body) = [ok |-> TRUE, bytes |-> w[1]]
    BY <2>1, <2>2, DecodeJoins
  <2>4. w[0] = <<>> /\ w[1] = w[0] \o bytes
    BY <2>2, <2>3 DEF Joins, Joined
  <2>5. <<>> \o bytes = bytes
    BY WholeSeq
  <2> QED BY <2>3, <2>4, <2>5 DEF body
<1>2. CASE style.compound
  <2>1. /\ body.tag = "context0"
        /\ fragments = [i \in 1 .. m + 1 |->
              [octetString |-> TRUE, bytes |-> SubSeq(bytes, cut(i - 1) + 1, cut(i))]]
    BY <1>2 DEF Body, CutOf
  <2> HIDE DEF body, cut, m
  <2>2. Len(fragments) = m + 1 /\ DOMAIN fragments = 1 .. m + 1
    <3> HIDE DEF fragments
    <3> QED BY <1>0, <2>1
  <2>3. \A i \in 1 .. m + 1 : /\ fragments[i].octetString
                              /\ fragments[i].bytes = SubSeq(bytes, cut(i - 1) + 1, cut(i))
    <3> HIDE DEF fragments
    <3> QED BY <2>1
  <2>4. PICK w : /\ Joins(w, fragments, m + 1)
                 /\ DecodeEncryptedContent(body) = [ok |-> TRUE, bytes |-> w[m + 1]]
    <3>1. m + 1 \in Nat
      BY <1>0
    <3>2. \A i \in DOMAIN body.fragments : body.fragments[i].octetString
      BY <2>2, <2>3
    <3>3. Len(body.fragments) \in Nat
      BY <2>2, <3>1
    <3>4. \E w : /\ Joins(w, body.fragments, Len(body.fragments))
                 /\ DecodeEncryptedContent(body) = [ok |-> TRUE, bytes |-> w[Len(body.fragments)]]
      BY <2>1, <3>2, <3>3, DecodeJoins
    <3> QED BY <2>2, <3>4
  <2> DEFINE S == {i \in Nat : i <= m + 1 => w[i] = SubSeq(bytes, 1, cut(i))}
  <2>5. 0 \in S
    <3>1. cut(0) = 0
      BY DEF cut, CutOf
    <3>2. w[0] = <<>>
      BY <1>0, <2>4 DEF Joins
    <3> QED BY <3>1, <3>2, WholeSeq
  <2>6. ASSUME NEW i \in Nat, i \in S PROVE i + 1 \in S
    <3> SUFFICES ASSUME i + 1 <= m + 1 PROVE w[i + 1] = SubSeq(bytes, 1, cut(i + 1))
      OBVIOUS
    <3>1. w[i] = SubSeq(bytes, 1, cut(i))
      BY <2>6, <1>0
    <3>2. w[i + 1] = w[i] \o fragments[i + 1].bytes
      <4>1. i + 1 \in 0 .. m + 1 /\ i + 1 # 0 /\ (i + 1) - 1 = i
        BY <1>0
      <4>2. w[i + 1] = Joined(w[i], fragments[i + 1])
        BY <2>4, <4>1 DEF Joins
      <4> QED BY <4>2 DEF Joined
    <3>3. fragments[i + 1].bytes = SubSeq(bytes, cut(i) + 1, cut(i + 1))
      BY <1>0, <2>3
    <3>4. cut(i) \in 0 .. Len(bytes) /\ cut(i + 1) \in cut(i) .. Len(bytes)
      <4>1. i \in 0 .. m
        BY <1>0
      <4> QED BY <4>1, CutsGrow DEF cut, m
    <3> QED BY <3>1, <3>2, <3>3, <3>4, SubSeqs
  <2> HIDE DEF S
  <2>7. Nat \subseteq S
    BY <2>5, <2>6, NaturalInduction
  <2>8. w[m + 1] = SubSeq(bytes, 1, cut(m + 1))
    BY <1>0, <2>7 DEF S
  <2>9. cut(m + 1) = Len(bytes)
    BY <1>0 DEF cut, CutOf, m
  <2> QED BY <2>4, <2>8, <2>9, WholeSeq DEF body
<1> QED BY <1>1, <1>2
-----------------------------------------------------------------------------
(* Padding and ciphers *)

\* Padding fills whole blocks, and unpadding takes the same away.
LEMMA UnpadPads ==
    ASSUME NEW data \in Seq(Nat)
    PROVE  /\ PadPKCS7(data) \in Seq(Nat)
           /\ Len(PadPKCS7(data)) \in Nat \ {0} /\ Len(PadPKCS7(data)) % BlockSize = 0
           /\ UnpadPKCS7(PadPKCS7(data)) = data
<1> DEFINE n == BlockSize - (Len(data) % BlockSize)
           padding == [i \in 1 .. n |-> n]
           padded == data \o padding
<1>0. PadPKCS7(data) = padded
  BY DEF PadPKCS7
<1>1. n \in 1 .. BlockSize /\ (Len(data) + n) % BlockSize = 0
  BY FullBlocks, CipherAssumption
<1> HIDE DEF n
<1>2. padding \in Seq(Nat) /\ Len(padding) = n /\ \A i \in 1 .. n : padding[i] = n
  BY <1>1
<1> HIDE DEF padding
<1>3. /\ padded \in Seq(Nat) /\ Len(padded) = Len(data) + n
      /\ \A i \in 1 .. n : padded[Len(data) + i] = n
      /\ SubSeq(padded, 1, Len(data)) = data
  <2>1. /\ padded \in Seq(Nat) /\ Len(padded) = Len(data) + Len(padding)
        /\ \A i \in 1 .. Len(padding) : padded[Len(data) + i] = padding[i]
        /\ SubSeq(padded, 1, Len(data)) = data
    <3>1. padding \in Seq(Nat)
      BY <1>2
    <3> QED BY <3>1, Concat
  <2> HIDE DEF padded
  <2> QED BY <1>2, <2>1
<1> HIDE DEF padded
<1>4. Len(data) \in Nat /\ padded # <<>>
  BY <1>1, <1>3
<1>5. padded[Len(padded)] = n
  <2>1. n \in 1 .. n
    BY <1>1
  <2> QED BY <1>3, <2>1
<1>6. \A i \in 0 .. BlockSize - 1 : i + 1 <= n => padded[Len(padded) - i] = n
  <2> SUFFICES ASSUME NEW i \in 0 .. BlockSize - 1, i + 1 <= n
               PROVE  padded[Len(padded) - i] = n
    OBVIOUS
  <2>1. n - i \in 1 .. n /\ Len(padded) - i = Len(data) + (n - i)
    BY <1>1, <1>3, <1>4
  <2> QED BY <1>3, <2>1
<1>7. Len(padded) - n = Len(data)
  BY <1>1, <1>3, <1>4
<1>8. UnpadPKCS7(padded) = data
  BY <1>1, <1>3, <1>4, <1>5, <1>6, <1>7 DEF UnpadPKCS7
<1> QED BY <1>0, <1>1, <1>3, <1>4, <1>8

\* What is unpadded had been padded.
LEMMA PadUnpads ==
    ASSUME NEW data \in Seq(Nat), UnpadPKCS7(data) # ErrDecrypt
    PROVE  \E k \in 0 .. Len(data) : PadPKCS7(SubSeq(data, 1, k)) = data
<1> DEFINE n == data[Len(data)]
           k == Len(data) - n
           start == SubSeq(data, 1, k)
           padding == [i \in 1 .. n |-> n]
<1>1. /\ data # <<>> /\ Len(data) % BlockSize = 0 /\ n \in 1 .. BlockSize
      /\ \A i \in 0 .. BlockSize - 1 : i + 1 <= n => data[Len(data) - i] = n
  BY DEF UnpadPKCS7
<1>2. Len(data) \in Nat /\ Len(data) # 0 /\ BlockSize \in Nat \ {0}
  BY <1>1, CipherAssumption
<1> HIDE DEF n
<1>3. n <= Len(data)
  <2>1. CASE BlockSize <= Len(data)
    BY <1>1, <1>2, <2>1
  <2>2. CASE BlockSize > Len(data)
    <3>1. Len(data) % BlockSize = Len(data)
      <4>1. (BlockSize * 0 + Len(data)) % BlockSize = Len(data)
        BY <1>2, <2>2, Remainder
      <4> QED BY <1>2, <4>1
    <3> QED BY <1>1, <1>2, <3>1
  <2> QED BY <1>2, <2>1, <2>2
<1>4. k \in 0 .. Len(data)
  BY <1>1, <1>2, <1>3
<1>5. start \in Seq(Nat) /\ Len(start) = k
  BY <1>4, SubSeqType
<1>6. BlockSize - (Len(start) % BlockSize) = n
  BY <1>1, <1>2, <1>3, <1>5, LastBlock
<1>7. PadPKCS7(start) = start \o padding
  BY <1>6 DEF PadPKCS7
<1>8. SubSeq(data, k + 1, Len(data)) = padding
  <2>1. \A i \in 1 .. n : data[k + i] = n
    <3> SUFFICES ASSUME NEW i \in 1 .. n PROVE data[k + i] = n
      OBVIOUS
    <3>1. /\ n - i \in 0 .. BlockSize - 1 /\ (n - i) + 1 <= n
          /\ Len(data) - (n - i) = k + i
      BY <1>1, <1>2
    <3> QED BY <1>1, <3>1
  <2>2. /\ SubSeq(data, k + 1, Len(data)) \in Seq(Nat)
        /\ Len(SubSeq(data, k + 1, Len(data))) = n
        /\ \A i \in 1 .. n : SubSeq(data, k + 1, Len(data))[i] = data[k + i]
    BY <1>1, <1>2, <1>4
  <2>3. padding \in Seq(Nat) /\ Len(padding) = n /\ \A i \in 1 .. n : padding[i] = n
    BY <1>1
  <2> DEFINE rest == SubSeq(data, k + 1, Len(data))
  <2> HIDE DEF padding, rest
  <2>4. rest \in Seq(Nat) /\ Len(rest) = n /\ \A i \in 1 .. n : rest[i] = n
    BY <2>1, <2>2 DEF rest
  <2>5. rest = padding
    BY <2>3, <2>4, SameSeq
  <2> QED BY <2>5 DEF rest
<1> HIDE DEF k
<1>9. start \o SubSeq(data, k + 1, Len(data)) = data
  <2>1. Len(data) \in k .. Len(data)
    BY <1>2, <1>4
  <2> QED BY <1>4, <2>1, SubSeqs, WholeSeq
<1> QED BY <1>4, <1>7, <1>8, <1>9

\* unpadPKCS7 is what RecipientExact says.
LEMMA UnpadExact ==
    ASSUME NEW data \in Seq(Nat)
    PROVE  LET padded == {k \in 0 .. Len(data) : PadPKCS7(SubSeq(data, 1, k)) = data}
           IN  UnpadPKCS7(data) = IF padded = {} THEN ErrDecrypt
                                  ELSE SubSeq(data, 1, CHOOSE k \in padded : TRUE)
<1> DEFINE padded == {k \in 0 .. Len(data) : PadPKCS7(SubSeq(data, 1, k)) = data}
<1>1. CASE padded = {}
  BY <1>1, PadUnpads
<1>2. CASE padded # {}
  <2> DEFINE k == CHOOSE k \in padded : TRUE
  <2>1. k \in padded
    BY <1>2
  <2> HIDE DEF k
  <2>2. SubSeq(data, 1, k) \in Seq(Nat)
    BY <2>1, SubSeqType
  <2>3. UnpadPKCS7(PadPKCS7(SubSeq(data, 1, k))) = SubSeq(data, 1, k)
    BY <2>2, UnpadPads
  <2> QED BY <1>2, <2>1, <2>3 DEF k
<1> QED BY <1>1, <1>2

\* What was encrypted with a key and an IV is decrypted with them.
LEMMA OpenSeals ==
    ASSUME NEW T, NEW data \in Seq(T), NEW key, NEW iv
    PROVE  Open(key, iv, Seal(key, iv, data)) = data /\ DOMAIN Seal(key, iv, data) = DOMAIN data
<1>1. DOMAIN Seal(key, iv, data) = DOMAIN data
  BY DEF Seal
<1>2. \A i \in DOMAIN data : Seal(key, iv, data)[i] = [key |-> key, iv |-> iv, byte |-> data[i]]
  BY DEF Seal
<1>3. Open(key, iv, Seal(key, iv, data)) = [i \in DOMAIN data |-> data[i]]
  BY <1>1, <1>2 DEF Open
<1>4. data = [i \in DOMAIN data |-> data[i]]
  OBVIOUS
<1> QED BY <1>1, <1>3, <1>4

LEMMA SealType ==
    ASSUME NEW K, NEW key \in K, NEW V, NEW iv \in V, NEW data \in Seq(Nat)
    PROVE  /\ Seal(key, iv, data) \in Seq([key : K, iv : V, byte : Nat])
           /\ Len(Seal(key, iv, data)) = Len(data)
<1> DEFINE Byte == [key : K, iv : V, byte : Nat]
<1>1. Len(data) \in Nat /\ DOMAIN data = 1 .. Len(data) /\ \A i \in 1 .. Len(data) : data[i] \in Nat
  BY SeqElements
<1>2. \A i \in 1 .. Len(data) : [key |-> key, iv |-> iv, byte |-> data[i]] \in Byte
  BY <1>1
<1>3. Seal(key, iv, data) = [i \in 1 .. Len(data) |-> [key |-> key, iv |-> iv, byte |-> data[i]]]
  BY <1>1 DEF Seal
<1> HIDE DEF Byte
<1>4. Seal(key, iv, data) \in Seq(Byte) /\ Len(Seal(key, iv, data)) = Len(data)
  BY <1>1, <1>2, <1>3
<1> QED BY <1>4 DEF Byte

LEMMA IVType == IV \in Seq(Nat) /\ Len(IV) = BlockSize
  BY CipherAssumption DEF IV

-----------------------------------------------------------------------------
(* Messages *)

\* The encrypted content of a message, and its parts.
Content(data) == Seal("cek", IV, PadPKCS7(data))
OAEP(style) ==
    [extra |-> FALSE, hash |-> SHA256(style.parameters),
     mgf |-> [oid |-> "mgf1", extra |-> FALSE, parameters |-> SHA256(style.parameters)],
     source |-> IF style.label = Absent THEN NoAlgorithm
                ELSE [oid |-> "pSpecified", parameters |-> <<>>, extra |-> FALSE]]
Recipient(key, style) ==
    [extra |-> FALSE, version |-> 2, identifier |-> "ski",
     algorithm |-> [oid |-> "rsaes-oaep", extra |-> FALSE, parameters |-> OAEP(style)],
     key |-> [empty |-> FALSE, for |-> key, hash |-> "sha256", key |-> "cek", size |-> KeySize]]
Encrypted(body) ==
    [extra |-> FALSE, type |-> "data",
     algorithm |-> [oid |-> "aes256-CBC", extra |-> FALSE,
                    parameters |-> [octetString |-> TRUE, bytes |-> IV]],
     body |-> body]
MessageOf(recipients, content) ==
    [extra |-> FALSE, type |-> "envelopedData", version |-> 2,
     recipients |-> recipients, content |-> content]

LEMMA MessageParts ==
    ASSUME NEW key, NEW data, NEW style
    PROVE  CiphertextForRecipient(key, data, style)
             = MessageOf(<<Recipient(key, style)>>, Encrypted(Body(Content(data), style)))
  BY DEF CiphertextForRecipient, MessageOf, Recipient, OAEP, Encrypted, Content

\* The content is whole blocks, is read as it was written, and is deciphered.
LEMMA ContentReads ==
    ASSUME NEW data \in Seq(Nat), NEW style \in Styles
    PROVE  /\ DecodeEncryptedContent(Body(Content(data), style)) = [ok |-> TRUE, bytes |-> Content(data)]
           /\ Content(data) \in Seq([key : {"cek"}, iv : Seq(Nat), byte : Nat])
           /\ Len(Content(data)) \in Nat \ {0} /\ Len(Content(data)) % BlockSize = 0
           /\ Open("cek", IV, Content(data)) = PadPKCS7(data)
<1>1. /\ PadPKCS7(data) \in Seq(Nat) /\ Len(PadPKCS7(data)) \in Nat \ {0}
      /\ Len(PadPKCS7(data)) % BlockSize = 0
  BY UnpadPads
<1>2. IV \in Seq(Nat)
  BY IVType
<1>3. /\ Content(data) \in Seq([key : {"cek"}, iv : Seq(Nat), byte : Nat])
      /\ Len(Content(data)) = Len(PadPKCS7(data))
  <2> DEFINE K == {"cek"}
             k == "cek"
  <2>1. k \in K
    OBVIOUS
  <2> HIDE DEF K, k
  <2>2. /\ Seal(k, IV, PadPKCS7(data)) \in Seq([key : K, iv : Seq(Nat), byte : Nat])
        /\ Len(Seal(k, IV, PadPKCS7(data))) = Len(PadPKCS7(data))
    BY <1>1, <1>2, <2>1, SealType
  <2> QED BY <2>2 DEF Content, K, k
<1>4. DecodeEncryptedContent(Body(Content(data), style)) = [ok |-> TRUE, bytes |-> Content(data)]
  BY <1>3, BodyDecodes
<1>5. Open("cek", IV, Content(data)) = PadPKCS7(data)
  BY <1>1, OpenSeals DEF Content
<1> QED BY <1>1, <1>3, <1>4, <1>5

\* How KMS wraps the content key is accepted.
LEMMA OAEPValid ==
    ASSUME NEW style \in Styles
    PROVE  /\ OAEP(style) \in RsaOAEPParameters
           /\ ValidOAEP([oid |-> "rsaes-oaep", extra |-> FALSE, parameters |-> OAEP(style)])
<1>1. style.parameters \in {Absent, "null"} /\ style.label \in {Absent, "pSpecified"}
  BY DEF Styles
<1>2. SHA256(style.parameters) \in AlgorithmIdentifier({"null", "other"})
  <2> DEFINE P == {"null", "other"}
             O == ObjectIdentifiers
  <2>1. "sha256" \in O /\ style.parameters \in P \cup {Absent}
    BY <1>1 DEF ObjectIdentifiers
  <2> HIDE DEF P, O
  <2>2. [oid |-> "sha256", parameters |-> style.parameters, extra |-> FALSE]
          \in [oid : O \cup {Absent}, parameters : P \cup {Absent}, extra : BOOLEAN]
    BY <2>1
  <2> QED BY <2>2 DEF SHA256, AlgorithmIdentifier, P, O
<1>3. <<>> \in Seq(Nat)
  OBVIOUS
<1>4. OAEP(style) \in RsaOAEPParameters
  <2> DEFINE P == {"null", "other"}
             Inner == AlgorithmIdentifier(P)
             O == ObjectIdentifiers
             source == IF style.label = Absent THEN NoAlgorithm
                       ELSE [oid |-> "pSpecified", parameters |-> <<>>, extra |-> FALSE]
             mgf == [oid |-> "mgf1", extra |-> FALSE, parameters |-> SHA256(style.parameters)]
  <2>1. "mgf1" \in O /\ "pSpecified" \in O
    BY DEF ObjectIdentifiers
  <2>2. SHA256(style.parameters) \in Inner
    BY <1>2
  <2> HIDE DEF O, Inner
  <2>3. mgf \in AlgorithmIdentifier(Inner)
    BY <2>1, <2>2 DEF AlgorithmIdentifier, O
  <2>4. source \in AlgorithmIdentifier(Seq(Nat))
    <3> DEFINE B == Seq(Nat)
               none == <<>>
    <3>1. none \in B
      BY <1>3
    <3> HIDE DEF B, none
    <3>2. /\ [oid |-> "pSpecified", parameters |-> none, extra |-> FALSE]
               \in [oid : O \cup {Absent}, parameters : B \cup {Absent}, extra : BOOLEAN]
          /\ [oid |-> Absent, parameters |-> Absent, extra |-> FALSE]
               \in [oid : O \cup {Absent}, parameters : B \cup {Absent}, extra : BOOLEAN]
      BY <2>1, <3>1
    <3> QED BY <3>2 DEF AlgorithmIdentifier, NoAlgorithm, O, B, none
  <2> HIDE DEF source, mgf
  <2> DEFINE M == AlgorithmIdentifier(Inner)
             L == AlgorithmIdentifier(Seq(Nat))
             hash == SHA256(style.parameters)
  <2> HIDE DEF M, L, hash
  <2>5. [extra |-> FALSE, hash |-> hash, mgf |-> mgf, source |-> source]
          \in [hash : Inner, mgf : M, source : L, extra : BOOLEAN]
    BY <2>2, <2>3, <2>4 DEF M, L, hash
  <2> QED BY <2>5 DEF OAEP, RsaOAEPParameters, M, L, hash, mgf, source, Inner
<1>5. OAEP(style) # Absent /\ SHA256(style.parameters) # Absent
  BY <1>2, <1>4, AbsentAssumption
<1>6. IsSHA256(SHA256(style.parameters))
  BY <1>1 DEF IsSHA256, SHA256
<1>7. ValidOAEP([oid |-> "rsaes-oaep", extra |-> FALSE, parameters |-> OAEP(style)])
  BY <1>1, <1>5, <1>6 DEF ValidOAEP, OAEP, NoAlgorithm
<1> QED BY <1>4, <1>7

\* What KMS writes for a key is opened with it to what was put in.
LEMMA MessageOpens ==
    ASSUME NEW key, NEW data \in Seq(Nat), NEW style \in Styles
    PROVE  Decrypt(key, CiphertextForRecipient(key, data, style)) = data
<1> DEFINE recipient == Recipient(key, style)
           content == Encrypted(Body(Content(data), style))
           message == MessageOf(<<recipient>>, content)
<1>1. /\ message.recipients[1] = recipient /\ Len(message.recipients) = 1
      /\ message.content = content /\ ~message.extra
      /\ message.type = "envelopedData" /\ message.version = 2
  BY DEF MessageOf
<1>2. /\ ~recipient.extra /\ recipient.version = 2 /\ recipient.identifier # "empty"
      /\ recipient.algorithm = [oid |-> "rsaes-oaep", extra |-> FALSE, parameters |-> OAEP(style)]
      /\ recipient.key = [empty |-> FALSE, for |-> key, hash |-> "sha256", key |-> "cek",
                          size |-> KeySize]
  BY DEF Recipient
<1>3. /\ ~content.extra /\ content.type = "data" /\ ~content.algorithm.extra
      /\ content.algorithm.oid = "aes256-CBC" /\ content.algorithm.parameters.octetString
      /\ content.algorithm.parameters.bytes = IV
      /\ content.body = Body(Content(data), style)
  BY DEF Encrypted
<1> HIDE DEF recipient, content, message
<1>4. Parses(message)
  BY <1>1, <1>2, <1>3, ContentReads, OAEPValid, IVType, SMTT(40) DEF Parses
<1>5. DecryptContent(key, message) = UnpadPKCS7(PadPKCS7(data))
  BY <1>1, <1>2, <1>3, ContentReads DEF DecryptContent
<1>6. Decrypt(key, message) = data
  BY <1>4, <1>5, UnpadPads DEF Decrypt
<1> QED BY <1>6, MessageParts DEF message, recipient, content
-----------------------------------------------------------------------------
(* Other messages *)

\* What is refused because of its recipient.
LEMMA RecipientRefused ==
    ASSUME NEW x, NEW y, x.recipients = <<y>>,
           \/ y.extra \/ y.version # 2 \/ y.identifier = "empty" \/ y.key.empty
           \/ ~ValidOAEP(y.algorithm)
           \/ y.key.for # "rsa1" \/ y.key.hash # "sha256" \/ y.key.size # KeySize
    PROVE  Decrypt("rsa1", x) = ErrDecrypt
<1>1. x.recipients[1] = y
  OBVIOUS
<1>2. CASE y.extra \/ y.version # 2 \/ y.identifier = "empty" \/ y.key.empty \/ ~ValidOAEP(y.algorithm)
  <2>1. ~Parses(x)
    BY <1>1, <1>2 DEF Parses
  <2> QED BY <2>1 DEF Decrypt
<1>3. CASE y.key.for # "rsa1" \/ y.key.hash # "sha256" \/ y.key.size # KeySize
  <2>1. DecryptContent("rsa1", x) = ErrDecrypt
    BY <1>1, <1>3 DEF DecryptContent
  <2> QED BY <2>1 DEF Decrypt
<1> QED BY <1>2, <1>3

\* What is refused because of how its key is wrapped.
LEMMA OAEPRefused ==
    ASSUME NEW a, NEW p, a.parameters = p,
           \/ p.extra \/ ~IsSHA256(p.hash) \/ p.mgf.extra \/ p.mgf.oid # "mgf1"
           \/ p.mgf.parameters = Absent \/ ~IsSHA256(p.mgf.parameters)
           \/ /\ p.source.oid # Absent
              /\ p.source.extra \/ p.source.oid # "pSpecified" \/ p.source.parameters # <<>>
    PROVE  ~ValidOAEP(a)
  BY DEF ValidOAEP

\* What is refused because of its content.
LEMMA BodyRefused ==
    ASSUME NEW x, NEW b, x.content.body = b,
           LET body == DecodeEncryptedContent(b)
           IN  ~body.ok \/ ~(Len(body.bytes) > 0) \/ Len(body.bytes) % BlockSize # 0
    PROVE  Decrypt("rsa1", x) = ErrDecrypt
<1>1. ~Parses(x)
  BY DEF Parses
<1> QED BY <1>1 DEF Decrypt

\* The parts of the hash algorithm are the ones that IsSHA256 looks at.
LEMMA OtherHash ==
    ASSUME NEW style \in Styles
    PROVE  LET h == SHA256(style.parameters) IN
           /\ ~IsSHA256([h EXCEPT !.oid = "other"]) /\ ~IsSHA256([h EXCEPT !.extra = TRUE])
           /\ ~IsSHA256([h EXCEPT !.parameters = "other"]) /\ ~IsSHA256(NoAlgorithm)
<1>1. Absent # "other" /\ Absent # "sha256"
  BY AbsentAssumption DEF ObjectIdentifiers
<1> QED BY <1>1 DEF IsSHA256, SHA256, NoAlgorithm

\* No other OAEP parameters are accepted.
LEMMA OtherOAEP ==
    ASSUME NEW style \in Styles,
           NEW x \in OtherOAEPs(OAEP(style)),
           NEW a, a.parameters = x
    PROVE  ~ValidOAEP(a)
<1> DEFINE hash == SHA256(style.parameters)
           mgf == [oid |-> "mgf1", extra |-> FALSE, parameters |-> hash]
           source == IF style.label = Absent THEN NoAlgorithm
                     ELSE [oid |-> "pSpecified", parameters |-> <<>>, extra |-> FALSE]
           p == OAEP(style)
<1>0. /\ p = [extra |-> FALSE, hash |-> hash, mgf |-> mgf, source |-> source]
      /\ mgf = [oid |-> "mgf1", extra |-> FALSE, parameters |-> hash]
  BY DEF OAEP
<1>a. source = NoAlgorithm \/ source = [oid |-> "pSpecified", parameters |-> <<>>, extra |-> FALSE]
  OBVIOUS
<1>b. /\ Absent # "other" /\ Absent # "pSpecified" /\ Absent # "mgf1" /\ Absent # <<>> /\ <<1>> # <<>>
  <2>1. <<>> \in Seq(Nat)
    OBVIOUS
  <2> QED BY <2>1, AbsentAssumption DEF ObjectIdentifiers
<1>c. /\ ~IsSHA256([hash EXCEPT !.oid = "other"]) /\ ~IsSHA256([hash EXCEPT !.extra = TRUE])
      /\ ~IsSHA256([hash EXCEPT !.parameters = "other"]) /\ ~IsSHA256(NoAlgorithm)
  BY OtherHash
<1> HIDE DEF hash, mgf, source, p
<1>1. CASE \/ x = [p EXCEPT !.extra = TRUE] \/ x = [p EXCEPT !.hash = NoAlgorithm]
           \/ x = [p EXCEPT !.hash.oid = "other"] \/ x = [p EXCEPT !.hash.extra = TRUE]
           \/ x = [p EXCEPT !.hash.parameters = "other"]
  <2>1. x.extra \/ ~IsSHA256(x.hash)
    BY <1>0, <1>c, <1>1
  <2> QED BY <2>1, OAEPRefused
<1>2. CASE \/ x = [p EXCEPT !.mgf = NoAlgorithm] \/ x = [p EXCEPT !.mgf.parameters = Absent]
           \/ x = [p EXCEPT !.mgf.parameters.oid = "other"] \/ x = [p EXCEPT !.mgf.extra = TRUE]
  <2>1. \/ x.mgf.extra \/ x.mgf.oid # "mgf1" \/ x.mgf.parameters = Absent
        \/ ~IsSHA256(x.mgf.parameters)
    BY <1>0, <1>b, <1>c, <1>2 DEF NoAlgorithm
  <2> QED BY <2>1, OAEPRefused
<1>3. CASE \/ x = [p EXCEPT !.source.oid = "other"]
           \/ x = [p EXCEPT !.source = [oid |-> "pSpecified", parameters |-> <<>>, extra |-> TRUE]]
           \/ x = [p EXCEPT !.source = [oid |-> "pSpecified", parameters |-> <<1>>, extra |-> FALSE]]
           \/ x = [p EXCEPT !.source = [oid |-> "pSpecified", parameters |-> Absent, extra |-> FALSE]]
  <2>1. /\ x.source.oid # Absent
        /\ x.source.extra \/ x.source.oid # "pSpecified" \/ x.source.parameters # <<>>
    BY <1>0, <1>a, <1>b, <1>3 DEF NoAlgorithm
  <2> QED BY <2>1, OAEPRefused
<1> QED BY <1>1, <1>2, <1>3 DEF p, OtherOAEPs
\* What Body writes.
LEMMA BodyShape ==
    ASSUME NEW T, NEW bytes \in Seq(T), NEW style \in Styles
    PROVE  \E fragments :
              /\ Body(bytes, style) = [tag |-> "context0", compound |-> style.compound,
                                       fragments |-> fragments]
              /\ \E n \in Nat : fragments \in [1 .. n -> [octetString : {TRUE}, bytes : Seq(T)]]
<1> DEFINE Fragment == [octetString : {TRUE}, bytes : Seq(T)]
           cuts == style.cuts
           m == Len(cuts)
           cut(i) == CutOf(bytes, cuts, i)
           parts == [i \in 1 .. m + 1 |->
                        [octetString |-> TRUE, bytes |-> SubSeq(bytes, cut(i - 1) + 1, cut(i))]]
           whole == <<[octetString |-> TRUE, bytes |-> bytes]>>
<1>0. m \in Nat
  <2>1. cuts \in Seq(Nat)
    BY DEF Styles
  <2> HIDE DEF cuts
  <2> QED BY <2>1
<1>1. Body(bytes, style) = [tag |-> "context0", compound |-> style.compound,
                            fragments |-> IF ~style.compound THEN whole ELSE parts]
  BY DEF Body, CutOf
<1>2. whole \in [1 .. 1 -> Fragment]
  <2> DEFINE f == [octetString |-> TRUE, bytes |-> bytes]
  <2>1. f \in Fragment
    OBVIOUS
  <2> HIDE DEF f, Fragment
  <2>2. <<f>> = [i \in 1 .. 1 |-> f]
    OBVIOUS
  <2> QED BY <2>1, <2>2 DEF f
<1>3. \A i \in 1 .. m + 1 : SubSeq(bytes, cut(i - 1) + 1, cut(i)) \in Seq(T)
  <2> SUFFICES ASSUME NEW i \in 1 .. m + 1
               PROVE  SubSeq(bytes, cut(i - 1) + 1, cut(i)) \in Seq(T)
    OBVIOUS
  <2>1. i - 1 \in 0 .. m /\ (i - 1) + 1 = i
    BY <1>0
  <2>2. cut(i - 1) \in 0 .. Len(bytes) /\ cut((i - 1) + 1) \in cut(i - 1) .. Len(bytes)
    BY <2>1, CutsGrow
  <2> HIDE DEF cut
  <2> QED BY <2>1, <2>2
<1> HIDE DEF cut
<1>4. parts \in [1 .. m + 1 -> Fragment]
  BY <1>3
<1>5. m + 1 \in Nat /\ 1 \in Nat
  BY <1>0
<1> HIDE DEF parts, whole, Fragment, m
<1>6. CASE style.compound
  <2>1. Body(bytes, style) = [tag |-> "context0", compound |-> style.compound, fragments |-> parts]
    BY <1>1, <1>6
  <2> QED BY <1>4, <1>5, <2>1 DEF Fragment
<1>7. CASE ~style.compound
  <2>1. Body(bytes, style) = [tag |-> "context0", compound |-> style.compound, fragments |-> whole]
    BY <1>1, <1>7
  <2> QED BY <1>2, <1>5, <2>1 DEF Fragment
<1> QED BY <1>6, <1>7

\* No other body is accepted: with another tag, without bytes, with a byte
\* missing, or with a fragment that is no OCTET STRING.
LEMMA OtherBody ==
    ASSUME NEW in \in [data : Seq(Nat), style : Styles], NEW x,
           x.content.body \in OtherBodies(in, Body(Content(in.data), in.style))
    PROVE  Decrypt("rsa1", x) = ErrDecrypt
<1> DEFINE Byte == [key : {"cek"}, iv : Seq(Nat), byte : Nat]
           data == in.data
           style == in.style
           bytes == Content(data)
           b == Body(bytes, style)
           y == x.content.body
<1>0. data \in Seq(Nat) /\ style \in Styles
  OBVIOUS
<1> HIDE DEF data, style
<1>1. bytes \in Seq(Byte) /\ Len(bytes) \in Nat \ {0} /\ Len(bytes) % BlockSize = 0
  BY <1>0, ContentReads
<1> HIDE DEF Byte, bytes
<1>2. PICK fragments :
        /\ b = [tag |-> "context0", compound |-> style.compound, fragments |-> fragments]
        /\ \E n \in Nat : fragments \in [1 .. n -> [octetString : {TRUE}, bytes : Seq(Byte)]]
  BY <1>0, <1>1, BodyShape
<1>3. CASE y = [b EXCEPT !.tag = "other"]
  <2>1. y.tag # "context0"
    BY <1>2, <1>3
  <2>2. ~DecodeEncryptedContent(y).ok
    BY <2>1 DEF DecodeEncryptedContent
  <2> QED BY <2>2, BodyRefused
<1>4. CASE y = [b EXCEPT !.fragments = <<>>]
  <2> DEFINE z == [b EXCEPT !.fragments = <<>>]
  <2>1. z.tag = "context0" /\ z.fragments = <<>>
    BY <1>2
  <2> HIDE DEF z
  <2>2. Len(z.fragments) = 0 /\ \A i \in DOMAIN z.fragments : z.fragments[i].octetString
    BY <2>1
  <2>3. PICK w : /\ Joins(w, z.fragments, Len(z.fragments))
                 /\ DecodeEncryptedContent(z) = [ok |-> TRUE, bytes |-> w[Len(z.fragments)]]
    BY <2>1, <2>2, DecodeJoins
  <2>4. w[0] = <<>>
    BY <2>2, <2>3 DEF Joins
  <2>5. Len(DecodeEncryptedContent(z).bytes) = 0
    BY <2>2, <2>3, <2>4
  <2> QED BY <1>4, <2>5, BodyRefused DEF z
<1>5. CASE y = Body(Tail(bytes), style)
  <2>1. Tail(bytes) \in Seq(Byte) /\ Len(Tail(bytes)) = Len(bytes) - 1
    BY <1>1
  <2>2. DecodeEncryptedContent(y) = [ok |-> TRUE, bytes |-> Tail(bytes)]
    BY <1>0, <1>5, <2>1, BodyDecodes
  <2>3. BlockSize - ((Len(bytes) - 1) % BlockSize) = 1
    <3> DEFINE n == Len(bytes)
               one == 1
    <3>1. n \in Nat /\ n % BlockSize = 0 /\ one <= n /\ BlockSize \in Nat \ {0} /\ one \in 1 .. BlockSize
      BY <1>1, CipherAssumption
    <3> HIDE DEF n, one
    <3>2. BlockSize - ((n - one) % BlockSize) = one
      BY <3>1, LastBlock
    <3> QED BY <3>2 DEF n, one
  <2>4. Len(Tail(bytes)) % BlockSize # 0
    <3> DEFINE r == (Len(bytes) - 1) % BlockSize
    <3>1. r \in 0 .. BlockSize - 1 /\ BlockSize - r = 1 /\ BlockSize > 1 /\ BlockSize \in Nat
      BY <1>1, <2>3, Division, CipherAssumption, SMTT(40)
    <3> HIDE DEF r
    <3>2. r # 0
      BY <3>1
    <3> QED BY <2>1, <3>2 DEF r
  <2>5. Len(DecodeEncryptedContent(y).bytes) % BlockSize # 0
    BY <2>2, <2>4
  <2> QED BY <2>5, BodyRefused
<1>6. ASSUME b.compound, NEW i \in DOMAIN b.fragments, y = [b EXCEPT !.fragments[i].octetString = FALSE]
      PROVE  Decrypt("rsa1", x) = ErrDecrypt
  <2>1. i \in DOMAIN fragments /\ "octetString" \in DOMAIN fragments[i]
    <3>1. PICK n \in Nat : fragments \in [1 .. n -> [octetString : {TRUE}, bytes : Seq(Byte)]]
      BY <1>2
    <3>2. b.fragments = fragments
      BY <1>2
    <3> HIDE DEF b
    <3>3. i \in DOMAIN fragments /\ fragments[i] \in [octetString : {TRUE}, bytes : Seq(Byte)]
      BY <1>6, <3>1, <3>2
    <3> QED BY <3>3
  <2>2. y.compound /\ i \in DOMAIN y.fragments /\ ~y.fragments[i].octetString
    BY <1>2, <1>6, <2>1
  <2>3. ~DecodeEncryptedContent(y).ok
    BY <2>2 DEF DecodeEncryptedContent
  <2> QED BY <2>3, BodyRefused
<1> QED BY <1>3, <1>4, <1>5, <1>6 DEF bytes, data, style, Content, OtherBodies

\* What is refused because of the rest.
LEMMA EnvelopeRefused ==
    ASSUME NEW x,
           \/ x.extra \/ x.type # "envelopedData" \/ x.version # 2 \/ Len(x.recipients) # 1
           \/ x.content.extra \/ x.content.type # "data"
           \/ x.content.algorithm.extra \/ x.content.algorithm.oid # "aes256-CBC"
           \/ ~x.content.algorithm.parameters.octetString
           \/ Len(x.content.algorithm.parameters.bytes) # BlockSize
    PROVE  Decrypt("rsa1", x) = ErrDecrypt
<1>1. ~Parses(x)
  BY DEF Parses
<1> QED BY <1>1 DEF Decrypt

\* No deviation is opened.
LEMMA DeviationRefused ==
    ASSUME NEW in \in [data : Seq(Nat), style : Styles], NEW x \in Deviations(in)
    PROVE  Decrypt("rsa1", x) = ErrDecrypt
<1> DEFINE p == OAEP(in.style)
           r == Recipient("rsa1", in.style)
           b == Body(Content(in.data), in.style)
           c == Encrypted(b)
           m == MessageOf(<<r>>, c)
<1>0. in.data \in Seq(Nat) /\ in.style \in Styles
  OBVIOUS
<1>1. /\ m = [extra |-> FALSE, type |-> "envelopedData", version |-> 2,
              recipients |-> <<r>>, content |-> c]
      /\ m.recipients[1] = r /\ m.content.body = b /\ r.algorithm.parameters = p
      /\ Message(in) = m
  BY MessageParts DEF Message, MessageOf, Encrypted, Recipient
<1>2. c = [extra |-> FALSE, type |-> "data",
           algorithm |-> [oid |-> "aes256-CBC", extra |-> FALSE,
                          parameters |-> [octetString |-> TRUE, bytes |-> IV]],
           body |-> b]
  BY DEF Encrypted
<1>3. r = [extra |-> FALSE, version |-> 2, identifier |-> "ski",
           algorithm |-> [oid |-> "rsaes-oaep", extra |-> FALSE, parameters |-> p],
           key |-> [empty |-> FALSE, for |-> "rsa1", hash |-> "sha256", key |-> "cek",
                    size |-> KeySize]]
  BY DEF Recipient
<1> HIDE DEF p, r, b, c, m
<1>4. \/ x \in OtherEnvelopes(m)
      \/ \E y \in OtherRecipients(r) : x = [m EXCEPT !.recipients = <<y>>]
      \/ \E y \in OtherOAEPs(p) : x = [m EXCEPT !.recipients = <<[r EXCEPT !.algorithm.parameters = y]>>]
      \/ \E y \in OtherBodies(in, b) : x = [m EXCEPT !.content.body = y]
  BY <1>1 DEF Deviations
<1>5. CASE x \in OtherEnvelopes(m)
  <2> DEFINE two == <<r>> \o <<r>>
             none == <<>>
  <2>1. Len(two) = 2 /\ Len(none) = 0
    OBVIOUS
  <2>2. CASE \/ x = [m EXCEPT !.extra = TRUE] \/ x = [m EXCEPT !.type = "other"]
             \/ x = [m EXCEPT !.version = 0]
             \/ x = [m EXCEPT !.recipients = <<>>] \/ x = [m EXCEPT !.recipients = @ \o @]
    <3>1. \/ x.extra \/ x.type # "envelopedData" \/ x.version # 2
          \/ x.recipients = none \/ x.recipients = two
      BY <1>1, <2>2
    <3> HIDE DEF two, none
    <3>2. ASSUME x.recipients = none PROVE Len(x.recipients) # 1
      BY <2>1, <3>2
    <3>3. ASSUME x.recipients = two PROVE Len(x.recipients) # 1
      BY <2>1, <3>3
    <3> QED BY <3>1, <3>2, <3>3, EnvelopeRefused, Zenon
  <2>3. CASE \/ x = [m EXCEPT !.content.extra = TRUE]
             \/ x = [m EXCEPT !.content.type = "envelopedData"]
             \/ x = [m EXCEPT !.content.algorithm.extra = TRUE]
             \/ x = [m EXCEPT !.content.algorithm.oid = "other"]
    <3>1. \/ x.content.extra \/ x.content.type # "data"
          \/ x.content.algorithm.extra \/ x.content.algorithm.oid # "aes256-CBC"
      BY <1>1, <1>2, <2>3
    <3> QED BY <3>1, EnvelopeRefused
  <2>4. CASE x = [m EXCEPT !.content.algorithm.parameters.octetString = FALSE]
    <3>1. ~x.content.algorithm.parameters.octetString
      BY <1>1, <1>2, <2>4
    <3> QED BY <3>1, EnvelopeRefused
  <2>5. CASE x = [m EXCEPT !.content.algorithm.parameters.bytes = Append(IV, 0)]
    <3> DEFINE iv == Append(IV, 0)
    <3>1. Len(iv) = BlockSize + 1 /\ BlockSize \in Nat
      BY IVType, CipherAssumption
    <3> HIDE DEF iv
    <3>2. x.content.algorithm.parameters.bytes = iv
      BY <1>1, <1>2, <2>5 DEF iv
    <3> QED BY <3>1, <3>2, EnvelopeRefused
  <2> QED BY <1>5, <2>2, <2>3, <2>4, <2>5 DEF OtherEnvelopes
<1>6. ASSUME NEW y \in OtherRecipients(r), x = [m EXCEPT !.recipients = <<y>>]
      PROVE  Decrypt("rsa1", x) = ErrDecrypt
  <2>1. x.recipients = <<y>>
    BY <1>1, <1>6
  <2>2. KeySize - 1 # KeySize
    BY CipherAssumption
  <2>3. \/ y.extra \/ y.version # 2 \/ y.identifier = "empty" \/ y.key.empty
        \/ y.algorithm.extra \/ y.algorithm.oid # "rsaes-oaep" \/ y.algorithm.parameters = Absent
        \/ y.key.for # "rsa1" \/ y.key.hash # "sha256" \/ y.key.size # KeySize
    BY <1>3, <1>6, <2>2 DEF OtherRecipients
  <2>4. \/ y.extra \/ y.version # 2 \/ y.identifier = "empty" \/ y.key.empty
        \/ ~ValidOAEP(y.algorithm)
        \/ y.key.for # "rsa1" \/ y.key.hash # "sha256" \/ y.key.size # KeySize
    BY <2>3 DEF ValidOAEP
  <2> QED BY <2>1, <2>4, RecipientRefused
<1>7. ASSUME NEW y \in OtherOAEPs(p),
             x = [m EXCEPT !.recipients = <<[r EXCEPT !.algorithm.parameters = y]>>]
      PROVE  Decrypt("rsa1", x) = ErrDecrypt
  <2> DEFINE other == [r EXCEPT !.algorithm.parameters = y]
  <2>1. other.algorithm.parameters = y
    BY <1>3
  <2> HIDE DEF other
  <2>2. x.recipients = <<other>>
    BY <1>1, <1>7 DEF other
  <2>3. ~ValidOAEP(other.algorithm)
    BY <1>0, <1>7, <2>1, OtherOAEP DEF p
  <2> QED BY <2>2, <2>3, RecipientRefused
<1>8. ASSUME NEW y \in OtherBodies(in, b), x = [m EXCEPT !.content.body = y]
      PROVE  Decrypt("rsa1", x) = ErrDecrypt
  <2>1. x.content.body = y
    BY <1>1, <1>2, <1>8
  <2> QED BY <1>8, <2>1, OtherBody DEF b
<1> QED BY <1>4, <1>5, <1>6, <1>7, <1>8

\* What becomes of a message, of a deviation and of padded bytes is what
\* RecipientExact says.
LEMMA RecipientAgrees ==
    ASSUME \/ \E in \in [data : Seq(Nat), style : Styles] :
                input = [of |-> "message", in |-> in] /\ output = Decrypt("rsa1", Message(in))
           \/ \E in \in [data : Seq(Nat), style : Styles] : \E m \in Deviations(in) :
                input = [of |-> "deviation", in |-> m] /\ output = Decrypt("rsa1", m)
           \/ \E data \in Seq(Nat) :
                input = [of |-> "padded", in |-> data] /\ output = UnpadPKCS7(data)
    PROVE  RecipientExact
<1>1. ASSUME NEW in \in [data : Seq(Nat), style : Styles],
             input = [of |-> "message", in |-> in], output = Decrypt("rsa1", Message(in))
      PROVE  RecipientExact
  <2>1. in.data \in Seq(Nat) /\ in.style \in Styles
    OBVIOUS
  <2>2. output = in.data
    BY <1>1, <2>1, MessageOpens DEF Message
  <2> QED BY <1>1, <2>2 DEF RecipientExact
<1>2. ASSUME NEW in \in [data : Seq(Nat), style : Styles], NEW m \in Deviations(in),
             input = [of |-> "deviation", in |-> m], output = Decrypt("rsa1", m)
      PROVE  RecipientExact
  <2>1. output = ErrDecrypt
    BY <1>2, DeviationRefused
  <2> QED BY <1>2, <2>1 DEF RecipientExact
<1>3. ASSUME NEW data \in Seq(Nat), input = [of |-> "padded", in |-> data],
             output = UnpadPKCS7(data)
      PROVE  RecipientExact
  <2>1. input.of = "padded" /\ input.in = data
    BY <1>3
  <2> QED BY <1>3, <2>1, UnpadExact DEF RecipientExact
<1> QED BY <1>1, <1>2, <1>3
-----------------------------------------------------------------------------
(* Envelopes *)

\* What KMS writes for an enclave.
LEMMA MessageType ==
    ASSUME NEW key \in STRING, NEW data \in Seq(Nat), NEW style \in Styles
    PROVE  CiphertextForRecipient(key, data, style) \in ContentInfo
<1> DEFINE Byte == [key : {"cek"}, iv : Seq(Nat), byte : Nat]
           r == Recipient(key, style)
           b == Body(Content(data), style)
           c == Encrypted(b)
           O == ObjectIdentifiers
<1>1. /\ "envelopedData" \in O /\ "data" \in O /\ "aes256-CBC" \in O /\ "rsaes-oaep" \in O
  BY DEF ObjectIdentifiers
<1>2. r \in KeyTransRecipientInfo
  <2> DEFINE P == RsaOAEPParameters
             A == AlgorithmIdentifier(P)
             K == [empty : BOOLEAN, for : STRING, hash : {"sha256", "other"}, key : {"cek"}, size : Nat]
             algorithm == [oid |-> "rsaes-oaep", extra |-> FALSE, parameters |-> OAEP(style)]
             wrapped == [empty |-> FALSE, for |-> key, hash |-> "sha256", key |-> "cek",
                         size |-> KeySize]
  <2>1. OAEP(style) \in P
    BY OAEPValid
  <2> HIDE DEF P, O
  <2>2. algorithm \in A
    BY <1>1, <2>1 DEF AlgorithmIdentifier, O
  <2>3. wrapped \in K
    BY CipherAssumption
  <2> HIDE DEF A, K, algorithm, wrapped
  <2>4. [extra |-> FALSE, version |-> 2, identifier |-> "ski", algorithm |-> algorithm,
         key |-> wrapped]
          \in [version : Int, identifier : {"ski", "empty"}, algorithm : A, key : K,
               extra : BOOLEAN]
    BY <2>2, <2>3
  <2> QED BY <2>4 DEF Recipient, KeyTransRecipientInfo, A, K, P, algorithm, wrapped
<1>3. Content(data) \in Seq(Byte)
  BY ContentReads
<1> DEFINE Fragment == [octetString : BOOLEAN, bytes : Seq(Byte)]
           B == [tag : {"context0", "other"}, compound : BOOLEAN, fragments : Seq(Fragment)]
<1>4. b \in B
  <2> HIDE DEF Byte
  <2>1. PICK fragments :
          /\ b = [tag |-> "context0", compound |-> style.compound, fragments |-> fragments]
          /\ \E n \in Nat : fragments \in [1 .. n -> [octetString : {TRUE}, bytes : Seq(Byte)]]
    BY <1>3, BodyShape
  <2>2. fragments \in Seq(Fragment)
    <3>1. PICK n \in Nat : fragments \in [1 .. n -> [octetString : {TRUE}, bytes : Seq(Byte)]]
      BY <2>1
    <3>2. [octetString : {TRUE}, bytes : Seq(Byte)] \subseteq Fragment
      OBVIOUS
    <3> HIDE DEF Fragment
    <3>3. fragments \in [1 .. n -> Fragment]
      BY <3>1, <3>2
    <3> QED BY <3>3
  <2>3. style.compound \in BOOLEAN
    BY DEF Styles
  <2> HIDE DEF b, Fragment
  <2> QED BY <2>1, <2>2, <2>3
<1>5. c \in EncryptedContentInfo
  <2> DEFINE iv == [octetString |-> TRUE, bytes |-> IV]
             V == [octetString : BOOLEAN, bytes : Seq(Nat)]
  <2>1. iv \in V
    BY IVType
  <2> HIDE DEF b, B, iv, V, O
  <2>2. [extra |-> FALSE, type |-> "data",
         algorithm |-> [oid |-> "aes256-CBC", extra |-> FALSE, parameters |-> iv], body |-> b]
          \in [type : O, algorithm : [oid : O, parameters : V, extra : BOOLEAN], body : B,
               extra : BOOLEAN]
    BY <1>1, <1>4, <2>1
  <2> QED BY <2>2 DEF Encrypted, EncryptedContentInfo, iv, V, O, B
<1> HIDE DEF r, c
<1>6. <<r>> \in Seq(KeyTransRecipientInfo)
  BY <1>2
<1> HIDE DEF O
<1>7. MessageOf(<<r>>, c) \in ContentInfo
  <2> DEFINE rs == <<r>>
  <2> HIDE DEF rs
  <2>1. MessageOf(rs, c) \in ContentInfo
    BY <1>1, <1>5, <1>6 DEF MessageOf, ContentInfo, O, rs
  <2> QED BY <2>1 DEF rs
<1> QED BY <1>7, MessageParts DEF r, c
\* When a provider is made, and of what.
LEMMA ProviderMade ==
    ASSUME NEW enclave \in Enclaves, NEW arns \in Seq(KeyArns)
    PROVE  NewAWSKMS(enclave, arns)
             = IF enclave.nsm = "document" /\ arns # <<>>
               THEN [arns |-> arns,
                     recipient |-> IF enclave.nitro THEN [publicKey |-> enclave.key] ELSE Failed]
               ELSE Failed
<1>1. enclave.key \in STRING /\ (~enclave.nitro => enclave.nsm = "document")
  BY DEF Enclaves
<1>2. [publicKey |-> enclave.key] \in AttestationDocuments
  BY <1>1 DEF AttestationDocuments
<1>3. [publicKey |-> enclave.key] # Failed
  BY <1>2, FailedAssumption
<1> QED BY <1>1, <1>3 DEF NewAWSKMS, NewWithAttestation, NewForDevelopment, NewProvider,
                          AttestKMSRecipient, RequestAttestation

LEMMA ProviderType ==
    ASSUME NEW enclave \in Enclaves, NEW arns \in Seq(KeyArns), enclave.nsm = "document", arns # <<>>
    PROVE  NewAWSKMS(enclave, arns) # Failed
<1> DEFINE recipient == IF enclave.nitro THEN [publicKey |-> enclave.key] ELSE Failed
<1>1. enclave.key \in STRING
  BY DEF Enclaves
<1>2. recipient \in AttestationDocuments \cup {Failed}
  BY <1>1 DEF AttestationDocuments
<1> HIDE DEF recipient
<1>3. [arns |-> arns, recipient |-> recipient] \in Providers
  BY <1>2 DEF Providers
<1> QED BY <1>3, ProviderMade, FailedAssumption DEF recipient

\* The enclave finds the data key in what KMS answers to it.
LEMMA AnswerHoldsKey ==
    ASSUME NEW enclave \in Enclaves, NEW dataKey \in Seq(Nat), Len(dataKey) = KeySize,
           NEW blob \in Blobs, NEW style \in Styles,
           NEW recipient,
           recipient = IF enclave.nitro THEN [publicKey |-> enclave.key] ELSE Failed
    PROVE  /\ Response(recipient, dataKey, blob, style) # Failed
           /\ Response(recipient, dataKey, blob, style).blob = blob
           /\ DataKey(enclave, Response(recipient, dataKey, blob, style)) = dataKey
           /\ dataKey # Failed
<1> DEFINE response == Response(recipient, dataKey, blob, style)
           message == CiphertextForRecipient(enclave.key, dataKey, style)
<1>1. enclave.key \in STRING /\ enclave.nitro \in BOOLEAN
  BY DEF Enclaves
<1>2. message \in ContentInfo
  BY <1>1, MessageType
<1>3. message # Failed
  BY <1>2, FailedAssumption
<1>4. Decrypt(enclave.key, message) = dataKey
  BY MessageOpens
<1>5. [publicKey |-> enclave.key] # Failed
  BY <1>1, FailedAssumption DEF AttestationDocuments
<1>6. dataKey # Failed /\ dataKey # ErrDecrypt
  BY FailedAssumption, CipherAssumption
<1>7. CASE enclave.nitro
  <2>1. response = [plaintext |-> <<>>, blob |-> blob, forRecipient |-> message]
    BY <1>5, <1>7 DEF Response
  <2>2. <<>> \in Seq(Nat)
    OBVIOUS
  <2> HIDE DEF message
  <2>3. response \in Responses
    <3> DEFINE none == <<>>
               Bytes == Seq(Nat)
    <3> HIDE DEF none, Bytes
    <3>1. [plaintext |-> none, blob |-> blob, forRecipient |-> message]
            \in [plaintext : Bytes, blob : Blobs, forRecipient : ContentInfo \cup {Failed}]
      BY <1>2, <2>2 DEF none, Bytes
    <3> QED BY <2>1, <3>1 DEF Responses, none, Bytes
  <2>4. response # Failed
    BY <2>3, FailedAssumption
  <2> HIDE DEF response
  <2>5. DataKey(enclave, response) = dataKey
    BY <1>3, <1>4, <1>6, <1>7, <2>1 DEF DataKey, DecryptKMSEnvelopedKey
  <2> QED BY <1>6, <2>1, <2>4, <2>5 DEF response
<1>8. CASE ~enclave.nitro
  <2>1. response = [plaintext |-> dataKey, blob |-> blob, forRecipient |-> Failed]
    BY <1>8 DEF Response
  <2>2. response \in Responses
    BY <2>1 DEF Responses
  <2>3. response # Failed
    BY <2>2, FailedAssumption
  <2> HIDE DEF response
  <2>4. DataKey(enclave, response) = dataKey
    BY <1>6, <1>8, <2>1 DEF DataKey
  <2> QED BY <1>6, <2>1, <2>3, <2>4 DEF response
<1> QED BY <1>1, <1>7, <1>8

\* The first place in a set of places.
FirstOf(S) == CHOOSE i \in S : \A j \in S : i <= j

LEMMA FirstIsIn ==
    ASSUME NEW S, S \subseteq Nat, S # {}
    PROVE  FirstOf(S) \in S
  BY LeastNumber DEF FirstOf

\* Call gives the first answer there is.
LEMMA CallAnswers ==
    ASSUME NEW pvd, NEW fn, NEW S, S \subseteq DOMAIN pvd.arns,
           \A i \in DOMAIN pvd.arns : fn[pvd.arns[i]] # Failed <=> i \in S
    PROVE  Call(pvd, fn) = IF S = {} THEN Failed ELSE fn[pvd.arns[FirstOf(S)]]
<1>1. S = {i \in DOMAIN pvd.arns : fn[pvd.arns[i]] # Failed}
  OBVIOUS
<1> QED BY <1>1 DEF Call, FirstOf
LEMMA DataKeyType ==
    ASSUME NEW in \in EnvelopeInput
    PROVE  /\ in.dataKey \in Seq(Nat) /\ Len(in.dataKey) = KeySize
           /\ in.secret \in Seq(Nat) /\ in.style1 \in Styles /\ in.style2 \in Styles
           /\ in.first \in Enclaves /\ in.second \in Enclaves
           /\ in.firstArns \in Seq(KeyArns) /\ in.secondArns \in Seq(KeyArns)
           /\ DOMAIN in.firstArns \subseteq Nat /\ DOMAIN in.secondArns \subseteq Nat
           /\ \A i \in DOMAIN in.firstArns : in.firstArns[i] \in KeyArns
           /\ \A i \in DOMAIN in.secondArns : in.secondArns[i] \in KeyArns
<1>1. /\ in.dataKey \in [1 .. KeySize -> Nat] /\ in.secret \in Seq(Nat)
      /\ in.style1 \in Styles /\ in.style2 \in Styles
      /\ in.first \in Enclaves /\ in.second \in Enclaves
      /\ in.firstArns \in Seq(KeyArns) /\ in.secondArns \in Seq(KeyArns)
  BY DEF EnvelopeInput
<1>2. in.dataKey \in Seq(Nat) /\ Len(in.dataKey) = KeySize
  BY <1>1, CipherAssumption
<1>3. ASSUME NEW s \in Seq(KeyArns)
      PROVE  DOMAIN s \subseteq Nat /\ \A i \in DOMAIN s : s[i] \in KeyArns
  BY SeqElements
<1> QED BY <1>1, <1>2, <1>3

\* The places of the keys whose regions answer.
ReachedAt(arns, up) == {i \in DOMAIN arns : arns[i] \in up}

MaterialOf(shared, arn) == IF arn \in shared THEN "shared" ELSE arn

\* What is generated, and when nothing is.
LEMMA Generated ==
    ASSUME NEW in \in EnvelopeInput
    PROVE  LET sources == ReachedAt(in.firstArns, in.up1)
               source == in.firstArns[FirstOf(sources)]
               envelope == GenerateEnvelopeCandidate(in.first, NewAWSKMS(in.first, in.firstArns),
                              Kms(in.up1, in.shared), in.algorithm, in.dataKey, in.secret, in.style1)
           IN  IF in.algorithm \in Algorithms /\ in.first.nsm = "document" /\ sources # {}
               THEN /\ envelope = [algorithm |-> in.algorithm,
                                   kmsEncryptedDataKey |-> [material |-> MaterialOf(in.shared, source),
                                                            dataKey |-> in.dataKey],
                                   encryptedPrivateKey |-> Seal(in.dataKey, "nonce", in.secret),
                                   nonce |-> "nonce"]
                    /\ envelope # Failed
               ELSE envelope = Failed
<1> DEFINE pvd == NewAWSKMS(in.first, in.firstArns)
           kms == Kms(in.up1, in.shared)
           sources == ReachedAt(in.firstArns, in.up1)
           source == in.firstArns[FirstOf(sources)]
           blob(a) == [material |-> MaterialOf(in.shared, a), dataKey |-> in.dataKey]
           recipient == IF in.first.nitro THEN [publicKey |-> in.first.key] ELSE Failed
           answer(a) == Response(recipient, in.dataKey, blob(a), in.style1)
           fn == [a \in KeyArns |-> IF a \notin in.up1 THEN Failed ELSE answer(a)]
           envelope == GenerateEnvelopeCandidate(in.first, pvd, kms, in.algorithm, in.dataKey,
                                                 in.secret, in.style1)
<1> SUFFICES IF in.algorithm \in Algorithms /\ in.first.nsm = "document" /\ sources # {}
             THEN /\ envelope = [algorithm |-> in.algorithm,
                                kmsEncryptedDataKey |-> [material |-> MaterialOf(in.shared, source),
                                                         dataKey |-> in.dataKey],
                                encryptedPrivateKey |-> Seal(in.dataKey, "nonce", in.secret),
                                nonce |-> "nonce"]
                  /\ envelope # Failed
             ELSE envelope = Failed
  OBVIOUS
<1>0. /\ in.dataKey \in Seq(Nat) /\ Len(in.dataKey) = KeySize
      /\ in.secret \in Seq(Nat) /\ in.style1 \in Styles
      /\ in.first \in Enclaves /\ in.firstArns \in Seq(KeyArns)
      /\ DOMAIN in.firstArns \subseteq Nat
      /\ \A i \in DOMAIN in.firstArns : in.firstArns[i] \in KeyArns
  BY DataKeyType
<1>1. CASE in.algorithm \notin Algorithms \/ in.first.nsm # "document"
  <2>1. envelope = Failed
    BY <1>0, <1>1, ProviderMade DEF GenerateEnvelopeCandidate
  <2> QED BY <1>1, <2>1
<1>2. CASE in.algorithm \in Algorithms /\ in.first.nsm = "document" /\ in.firstArns = <<>>
  <2>1. envelope = Failed
    BY <1>0, <1>2, ProviderMade DEF GenerateEnvelopeCandidate
  <2>2. sources = {}
    BY <1>2 DEF ReachedAt
  <2> QED BY <2>1, <2>2
<1>3. CASE in.algorithm \in Algorithms /\ in.first.nsm = "document" /\ in.firstArns # <<>>
  <2>1. pvd # Failed /\ pvd.arns = in.firstArns /\ pvd.recipient = recipient
    BY <1>0, <1>3, ProviderMade, ProviderType
  <2>2. \A a \in KeyArns : /\ blob(a) \in Blobs /\ answer(a) # Failed /\ answer(a).blob = blob(a)
                           /\ DataKey(in.first, answer(a)) = in.dataKey /\ in.dataKey # Failed
    <3> SUFFICES ASSUME NEW a \in KeyArns
                 PROVE  /\ blob(a) \in Blobs /\ answer(a) # Failed /\ answer(a).blob = blob(a)
                        /\ DataKey(in.first, answer(a)) = in.dataKey /\ in.dataKey # Failed
      OBVIOUS
    <3>1. blob(a) \in Blobs
      BY <1>0 DEF Blobs, MaterialOf
    <3> DEFINE b == blob(a)
               r == recipient
    <3>2. r = IF in.first.nitro THEN [publicKey |-> in.first.key] ELSE Failed
      OBVIOUS
    <3> HIDE DEF b, r
    <3>3. /\ Response(r, in.dataKey, b, in.style1) # Failed
          /\ Response(r, in.dataKey, b, in.style1).blob = b
          /\ DataKey(in.first, Response(r, in.dataKey, b, in.style1)) = in.dataKey
          /\ in.dataKey # Failed
      <4>1. b \in Blobs
        BY <3>1 DEF b
      <4> QED BY <1>0, <3>2, <4>1, AnswerHoldsKey
    <3> QED BY <3>1, <3>3 DEF b, r
  <2> HIDE DEF recipient
  <2>3. GenerateDataKey(pvd, kms, in.dataKey, in.style1) = Call(pvd, fn)
    <3>1. /\ DOMAIN kms = KeyArns
          /\ \A a \in KeyArns : /\ kms[a].healthy <=> a \in in.up1
                                /\ kms[a].material = MaterialOf(in.shared, a)
      BY DEF Kms, MaterialOf
    <3> HIDE DEF kms
    <3>2. [a \in DOMAIN kms |->
              IF ~kms[a].healthy THEN Failed
              ELSE Response(recipient, in.dataKey,
                            [material |-> kms[a].material, dataKey |-> in.dataKey], in.style1)] = fn
      BY <3>1
    <3> HIDE DEF pvd
    <3> QED BY <2>1, <3>2 DEF GenerateDataKey
  <2> HIDE DEF blob, answer, pvd, kms
  <2>4. \A i \in DOMAIN pvd.arns : fn[pvd.arns[i]] # Failed <=> i \in sources
    BY <1>0, <2>1, <2>2 DEF ReachedAt
  <2>5. sources \subseteq DOMAIN pvd.arns /\ sources \subseteq Nat
    BY <1>0, <2>1 DEF ReachedAt
  <2> HIDE DEF fn
  <2>6. Call(pvd, fn) = IF sources = {} THEN Failed ELSE fn[source]
    BY <2>1, <2>4, <2>5, CallAnswers
  <2>7. CASE sources = {}
    <3>1. envelope = Failed
      BY <1>3, <2>1, <2>3, <2>6, <2>7 DEF GenerateEnvelopeCandidate
    <3> QED BY <2>7, <3>1
  <2>8. CASE sources # {}
    <3>1. FirstOf(sources) \in sources
      BY <2>5, <2>8, FirstIsIn
    <3>2. source \in KeyArns /\ source \in in.up1
      BY <1>0, <3>1 DEF ReachedAt
    <3> HIDE DEF source, sources
    <3>3. fn[source] = answer(source)
      BY <3>2 DEF fn
    <3>4. envelope = [algorithm |-> in.algorithm, kmsEncryptedDataKey |-> blob(source),
                      encryptedPrivateKey |-> Seal(in.dataKey, "nonce", in.secret),
                      nonce |-> "nonce"]
      BY <1>3, <2>1, <2>2, <2>3, <2>6, <2>8, <3>2, <3>3 DEF GenerateEnvelopeCandidate
    <3> DEFINE N == {"nonce"}
               n == "nonce"
               sealed == Seal(in.dataKey, n, in.secret)
               e == [algorithm |-> in.algorithm, kmsEncryptedDataKey |-> blob(source),
                     encryptedPrivateKey |-> sealed, nonce |-> n]
    <3>5. n \in N
      OBVIOUS
    <3> HIDE DEF N, n
    <3>6. sealed \in Seq([key : Seq(Nat), iv : N, byte : Nat])
      BY <1>0, <3>5, SealType
    <3> HIDE DEF sealed
    <3>7. e \in [algorithm : Algorithms, kmsEncryptedDataKey : Blobs, nonce : N,
                 encryptedPrivateKey : Seq([key : Seq(Nat), iv : N, byte : Nat])]
      BY <1>3, <2>2, <3>2, <3>5, <3>6
    <3>8. e \in SecretEnvelopes
      BY <3>7 DEF SecretEnvelopes, N
    <3> HIDE DEF envelope
    <3>9. envelope = e /\ e # Failed
      BY <3>4, <3>8, FailedAssumption DEF sealed, n
    <3>10. /\ in.algorithm \in Algorithms /\ in.first.nsm = "document" /\ sources # {}
           /\ envelope = [algorithm |-> in.algorithm,
                          kmsEncryptedDataKey |-> [material |-> MaterialOf(in.shared, source),
                                                   dataKey |-> in.dataKey],
                          encryptedPrivateKey |-> Seal(in.dataKey, "nonce", in.secret),
                          nonce |-> "nonce"]
           /\ envelope # Failed
      BY <1>3, <2>8, <3>4, <3>9 DEF blob, envelope
    <3> QED BY <3>10 DEF envelope, source, sources
  <2> QED BY <2>7, <2>8
<1> QED BY <1>1, <1>2, <1>3
\* What is recovered of an envelope, and when nothing is.
LEMMA Loaded ==
    ASSUME NEW in \in EnvelopeInput, in.algorithm \in Algorithms,
           NEW material \in KeyArns \cup {"shared"}, NEW envelope,
           envelope = [algorithm |-> in.algorithm,
                       kmsEncryptedDataKey |-> [material |-> material, dataKey |-> in.dataKey],
                       encryptedPrivateKey |-> Seal(in.dataKey, "nonce", in.secret),
                       nonce |-> "nonce"]
    PROVE  LoadKeyCandidate(in.second, NewAWSKMS(in.second, in.secondArns), Kms(in.up2, in.shared),
                            envelope, in.style2)
             = IF /\ in.second.nsm = "document"
                  /\ \E i \in ReachedAt(in.secondArns, in.up2) :
                        MaterialOf(in.shared, in.secondArns[i]) = material
               THEN [algorithm |-> in.algorithm, secret |-> in.secret]
               ELSE Failed
<1> DEFINE pvd == NewAWSKMS(in.second, in.secondArns)
           kms == Kms(in.up2, in.shared)
           places == {i \in ReachedAt(in.secondArns, in.up2) :
                         MaterialOf(in.shared, in.secondArns[i]) = material}
           place == in.secondArns[FirstOf(places)]
           blob == [material |-> material, dataKey |-> in.dataKey]
           recipient == IF in.second.nitro THEN [publicKey |-> in.second.key] ELSE Failed
           answer == Response(recipient, in.dataKey, blob, in.style2)
           fn == [a \in KeyArns |-> IF a \notin in.up2 \/ MaterialOf(in.shared, a) # material
                                    THEN Failed ELSE answer]
           sealed == Seal(in.dataKey, "nonce", in.secret)
           secret == Open(in.dataKey, "nonce", sealed)
           loaded == LoadKeyCandidate(in.second, pvd, kms, envelope, in.style2)
<1>0. /\ in.dataKey \in Seq(Nat) /\ Len(in.dataKey) = KeySize
      /\ in.secret \in Seq(Nat) /\ in.style2 \in Styles
      /\ in.second \in Enclaves /\ in.secondArns \in Seq(KeyArns)
      /\ DOMAIN in.secondArns \subseteq Nat
      /\ \A i \in DOMAIN in.secondArns : in.secondArns[i] \in KeyArns
  BY DataKeyType
<1>a. /\ envelope.algorithm = in.algorithm /\ envelope.kmsEncryptedDataKey = blob
      /\ envelope.encryptedPrivateKey = sealed /\ envelope.nonce = "nonce"
      /\ blob.material = material /\ blob.dataKey = in.dataKey /\ blob \in Blobs
  BY <1>0 DEF Blobs
<1>b. secret = in.secret
  BY <1>0, OpenSeals
<1>c. ~ \E i \in DOMAIN in.secret : in.secret[i] = Garbage
  BY <1>0, CipherAssumption
<1>1. CASE in.second.nsm # "document" \/ in.secondArns = <<>>
  <2>1. pvd = Failed
    BY <1>0, <1>1, ProviderMade
  <2>2. loaded = Failed
    BY <2>1 DEF LoadKeyCandidate
  <2>3. in.secondArns = <<>> => ReachedAt(in.secondArns, in.up2) = {}
    BY DEF ReachedAt
  <2> HIDE DEF loaded
  <2> QED BY <1>1, <2>2, <2>3 DEF loaded
<1>2. CASE in.second.nsm = "document" /\ in.secondArns # <<>>
  <2>1. pvd # Failed /\ pvd.arns = in.secondArns /\ pvd.recipient = recipient
    BY <1>0, <1>2, ProviderMade, ProviderType
  <2>2. /\ answer # Failed /\ answer.blob = blob
        /\ DataKey(in.second, answer) = in.dataKey /\ in.dataKey # Failed
    <3> DEFINE r == recipient
               b == blob
    <3>1. r = IF in.second.nitro THEN [publicKey |-> in.second.key] ELSE Failed
      OBVIOUS
    <3> HIDE DEF b, r
    <3>2. b \in Blobs
      BY <1>a DEF b
    <3>3. /\ Response(r, in.dataKey, b, in.style2) # Failed
          /\ Response(r, in.dataKey, b, in.style2).blob = b
          /\ DataKey(in.second, Response(r, in.dataKey, b, in.style2)) = in.dataKey
          /\ in.dataKey # Failed
      BY <1>0, <3>1, <3>2, AnswerHoldsKey
    <3> QED BY <3>3 DEF b, r
  <2> HIDE DEF recipient, blob
  <2>3. DecryptDataKeyBlob(pvd, kms, blob, in.style2) = Call(pvd, fn)
    <3>1. /\ DOMAIN kms = KeyArns
          /\ \A a \in KeyArns : /\ kms[a].healthy <=> a \in in.up2
                                /\ kms[a].material = MaterialOf(in.shared, a)
      BY DEF Kms, MaterialOf
    <3> HIDE DEF kms
    <3>2. [a \in DOMAIN kms |->
              IF ~kms[a].healthy \/ kms[a].material # blob.material THEN Failed
              ELSE Response(recipient, blob.dataKey, blob, in.style2)] = fn
      BY <1>a, <3>1
    <3> HIDE DEF pvd
    <3> QED BY <2>1, <3>2 DEF DecryptDataKeyBlob
  <2> HIDE DEF answer, pvd, kms, sealed, secret
  <2>4. \A i \in DOMAIN pvd.arns : fn[pvd.arns[i]] # Failed <=> i \in places
    BY <1>0, <2>1, <2>2 DEF ReachedAt
  <2>5. places \subseteq DOMAIN pvd.arns /\ places \subseteq Nat
    BY <1>0, <2>1 DEF ReachedAt
  <2> HIDE DEF fn
  <2>6. Call(pvd, fn) = IF places = {} THEN Failed ELSE fn[place]
    <3> HIDE DEF places
    <3> QED BY <2>1, <2>4, <2>5, CallAnswers
  <2>7. CASE places = {}
    <3>1. loaded = Failed
      BY <1>a, <2>1, <2>3, <2>6, <2>7 DEF LoadKeyCandidate
    <3>2. ~ \E i \in ReachedAt(in.secondArns, in.up2) :
                MaterialOf(in.shared, in.secondArns[i]) = material
      BY <2>7
    <3> HIDE DEF loaded
    <3> QED BY <3>1, <3>2 DEF loaded, pvd, kms
  <2>8. CASE places # {}
    <3>1. FirstOf(places) \in places
      BY <2>5, <2>8, FirstIsIn
    <3>2. place \in KeyArns /\ place \in in.up2 /\ MaterialOf(in.shared, place) = material
      BY <1>0, <3>1 DEF ReachedAt
    <3> HIDE DEF place
    <3>3. fn[place] = answer
      BY <3>2 DEF fn
    <3>4. loaded = [algorithm |-> in.algorithm, secret |-> in.secret]
      <4>1. Open(in.dataKey, envelope.nonce, envelope.encryptedPrivateKey) = in.secret
        BY <1>a, <1>b DEF secret
      <4>2. DecryptDataKeyBlob(pvd, kms, envelope.kmsEncryptedDataKey, in.style2) = answer
        BY <1>a, <2>3, <2>6, <2>8, <3>3
      <4> QED BY <1>a, <1>c, <2>1, <2>2, <4>1, <4>2 DEF LoadKeyCandidate
    <3>5. \E i \in ReachedAt(in.secondArns, in.up2) :
              MaterialOf(in.shared, in.secondArns[i]) = material
      BY <2>8
    <3> HIDE DEF loaded
    <3> QED BY <1>2, <3>4, <3>5 DEF loaded, pvd, kms
  <2> QED BY <2>7, <2>8
<1> QED BY <1>0, <1>1, <1>2
\* What is made of an envelope's input is what EnvelopeRecovers says.
LEMMA RecoveredAgrees ==
    ASSUME NEW in \in EnvelopeInput, input = [of |-> "envelope", in |-> in], output = Recovered(in)
    PROVE  EnvelopeRecovers
<1> DEFINE material(up, a) == Kms(up, in.shared)[a].material
           sources == ReachedAt(in.firstArns, in.up1)
           source == in.firstArns[FirstOf(sources)]
           replica == MaterialOf(in.shared, source)
           envelope == GenerateEnvelopeCandidate(in.first, NewAWSKMS(in.first, in.firstArns),
                          Kms(in.up1, in.shared), in.algorithm, in.dataKey, in.secret, in.style1)
           loaded == LoadKeyCandidate(in.second, NewAWSKMS(in.second, in.secondArns),
                        Kms(in.up2, in.shared), envelope, in.style2)
           given == in.algorithm \in Algorithms /\ in.first.nsm = "document" /\ sources # {}
           held == \E i \in ReachedAt(in.secondArns, in.up2) :
                      MaterialOf(in.shared, in.secondArns[i]) = replica
<1>0. /\ DOMAIN in.firstArns \subseteq Nat
      /\ \A i \in DOMAIN in.firstArns : in.firstArns[i] \in KeyArns
      /\ \A i \in DOMAIN in.secondArns : in.secondArns[i] \in KeyArns
  BY DataKeyType
<1>1. \A up : \A a \in KeyArns : material(up, a) = MaterialOf(in.shared, a)
  BY DEF Kms, MaterialOf
<1>2. given => source \in KeyArns
  <2> SUFFICES ASSUME sources # {} PROVE source \in KeyArns
    OBVIOUS
  <2>1. sources \subseteq Nat
    BY <1>0 DEF ReachedAt
  <2>2. FirstOf(sources) \in sources
    BY <2>1, FirstIsIn
  <2> QED BY <1>0, <2>2 DEF ReachedAt
<1>3. output = IF given /\ in.second.nsm = "document" /\ held
               THEN [algorithm |-> in.algorithm, secret |-> in.secret] ELSE Failed
  <2>1. CASE ~given
    <3>1. envelope = Failed
      BY <2>1, Generated
    <3> HIDE DEF envelope, given, held
    <3>2. output = IF envelope = Failed THEN Failed ELSE loaded
      BY DEF Recovered, envelope
    <3> QED BY <2>1, <3>1, <3>2
  <2>2. CASE given
    <3>1. /\ envelope = [algorithm |-> in.algorithm,
                         kmsEncryptedDataKey |-> [material |-> replica, dataKey |-> in.dataKey],
                         encryptedPrivateKey |-> Seal(in.dataKey, "nonce", in.secret),
                         nonce |-> "nonce"]
          /\ envelope # Failed
      BY <2>2, Generated
    <3>2. replica \in KeyArns \cup {"shared"}
      BY <1>2, <2>2 DEF MaterialOf
    <3>3. in.algorithm \in Algorithms
      BY <2>2
    <3> DEFINE e == envelope
               r == replica
    <3> HIDE DEF e, r
    <3>4. LoadKeyCandidate(in.second, NewAWSKMS(in.second, in.secondArns), Kms(in.up2, in.shared),
                           e, in.style2)
            = IF /\ in.second.nsm = "document"
                 /\ \E i \in ReachedAt(in.secondArns, in.up2) :
                       MaterialOf(in.shared, in.secondArns[i]) = r
              THEN [algorithm |-> in.algorithm, secret |-> in.secret]
              ELSE Failed
      <4>1. /\ e = [algorithm |-> in.algorithm,
                    kmsEncryptedDataKey |-> [material |-> r, dataKey |-> in.dataKey],
                    encryptedPrivateKey |-> Seal(in.dataKey, "nonce", in.secret),
                    nonce |-> "nonce"]
            /\ r \in KeyArns \cup {"shared"}
        BY <3>1, <3>2 DEF e, r
      <4> QED BY <3>3, <4>1, Loaded
    <3>5. output = IF e = Failed THEN Failed
                   ELSE LoadKeyCandidate(in.second, NewAWSKMS(in.second, in.secondArns),
                                         Kms(in.up2, in.shared), e, in.style2)
      BY DEF Recovered, e
    <3>6. e # Failed
      BY <3>1 DEF e
    <3> HIDE DEF given
    <3> QED BY <2>2, <3>4, <3>5, <3>6 DEF r
  <2> QED BY <2>1, <2>2
<1>4. given => (held <=> \E i \in ReachedAt(in.secondArns, in.up2) :
                            material(in.up2, in.secondArns[i]) = material(in.up1, source))
  <2>1. \A i \in ReachedAt(in.secondArns, in.up2) : in.secondArns[i] \in KeyArns
    BY <1>0 DEF ReachedAt
  <2> HIDE DEF material, source, given
  <2> QED BY <1>1, <1>2, <2>1
<1>5. input.of = "envelope" /\ input.in = in
  OBVIOUS
<1> QED BY <1>3, <1>4, <1>5, ZenonT(60) DEF EnvelopeRecovers, ReachedAt, FirstOf
-----------------------------------------------------------------------------
(* BER.  The reader is shown to read exactly the grammar, in two parts.    *)
(* Wherever an object of the grammar is, the reader reads it, up to its    *)
(* end, as the DER of the same value, if it is not too deep or too long    *)
(* (ObjectReads, ContentsRead: by the way objects are made).  And whatever *)
(* the reader reads from a place up to another one is an object of the     *)
(* grammar (ObjectsAt: by level, the contents of an object from their end  *)
(* back).  So a string has an object if it is converted, and is converted  *)
(* to the DER of any object that it has.                                   *)

(* BER: lengths *)

Byte == 0 .. 255

\* A byte is a number below 256.
LEMMA BytesAreNumbers ==
    ASSUME NEW b \in Byte
    PROVE  b \in Nat /\ b < 256
  BY DEF Byte

\* What a byte string is at a position of another one.
At(in, p, s) == p + Len(s) <= Len(in) + 1 /\ \A i \in 1 .. Len(s) : in[p + i - 1] = s[i]

\* A number below 256^3, and its three digits.
Small(n) == n \in Nat /\ n < 256 * 65536

\* The digits of a number of at most three bytes, and what they add up to.
LEMMA ThreeDigits ==
    ASSUME NEW n \in Nat, n < 256 * 65536
    PROVE  /\ n \div 256 \in Nat /\ n \div 65536 \in 0 .. 255
           /\ (n \div 256) \div 256 = n \div 65536
           /\ n % 256 \in Byte /\ (n \div 256) % 256 \in Byte
           /\ n < 65536 => n \div 256 \in Byte
           /\ n = 65536 * (n \div 65536) + 256 * ((n \div 256) % 256) + (n % 256)
           /\ n = 256 * (n \div 256) + (n % 256)
           /\ n > 255 => n \div 256 > 0
           /\ n > 65535 => n \div 65536 > 0
  BY DEF Byte

\* One more digit.
Digit(w, k) == Append(w[k \div 256], k % 256)

\* Whether w holds the digits of the numbers up to n.
IsDigits(w, n) == w = [k \in 0 .. n |-> IF k = 0 THEN <<>> ELSE Digit(w, k)]

\* There is a function of the digits of all numbers up to n.
LEMMA DigitsExist ==
    ASSUME NEW n \in Nat
    PROVE  \E w : IsDigits(w, n)
<1> DEFINE S == {k \in Nat : \E w : IsDigits(w, k)}
<1>1. 0 \in S
  <2> DEFINE w == [i \in 0 .. 0 |-> <<>>]
  <2>1. IsDigits(w, 0)
    BY DEF IsDigits
  <2> QED BY <2>1
<1>2. ASSUME NEW k \in Nat, k \in S PROVE k + 1 \in S
  <2>1. PICK w : IsDigits(w, k)
    BY <1>2
  <2> DEFINE x == [i \in 0 .. k + 1 |-> IF i <= k THEN w[i] ELSE Digit(w, k + 1)]
  <2>2. \A i \in 0 .. k + 1 : x[i] = IF i = 0 THEN <<>> ELSE Digit(x, i)
    <3> SUFFICES ASSUME NEW i \in 0 .. k + 1
                 PROVE  x[i] = IF i = 0 THEN <<>> ELSE Digit(x, i)
      OBVIOUS
    <3>0. i > 0 => i \div 256 \in 0 .. i - 1
      OBVIOUS
    <3>1. i > 0 => Digit(x, i) = Digit(w, i)
      BY <3>0 DEF Digit
    <3>2. CASE i <= k
      BY <2>1, <3>1, <3>2 DEF IsDigits
    <3>3. CASE i = k + 1
      BY <3>1, <3>3
    <3> QED BY <3>2, <3>3
  <2>3. IsDigits(x, k + 1)
    BY <2>2 DEF IsDigits
  <2> QED BY <2>3
<1> HIDE DEF S
<1>3. Nat \subseteq S
  BY <1>1, <1>2, NaturalInduction
<1> QED BY <1>3 DEF S

\* The sequence with these elements is the one to which one is appended, or two
\* that are joined.
LEMMA AppendTo ==
    ASSUME NEW T, NEW s \in Seq(T), NEW x \in T, NEW t \in Seq(T), Len(t) = Len(s) + 1,
           t[Len(t)] = x, \A i \in 1 .. Len(s) : t[i] = s[i]
    PROVE  Append(s, x) = t
  OBVIOUS

\* Two sequences, one after the other, are the sequence that has their elements.
LEMMA ConcatTo ==
    ASSUME NEW T, NEW d \in Seq(T), NEW s \in Seq(T), NEW t \in Seq(T), Len(t) = Len(d) + Len(s),
           \A i \in 1 .. Len(d) : t[i] = d[i], \A i \in 1 .. Len(s) : t[Len(d) + i] = s[i]
    PROVE  d \o s = t
  OBVIOUS

\* Up to four bytes, one by one.
LEMMA AppendSecond ==
    ASSUME NEW a \in Nat, NEW b \in Nat
    PROVE  Append(<<a>>, b) = <<a, b>>
<1> DEFINE s == <<a>>
           t == <<a, b>>
<1>1. s \in Seq(Nat) /\ Len(s) = 1
  OBVIOUS
<1>2. t \in Seq(Nat) /\ Len(t) = Len(s) + 1 /\ t[Len(t)] = b
  OBVIOUS
<1>3. \A i \in 1 .. Len(s) : t[i] = s[i]
  OBVIOUS
<1> HIDE DEF s, t
<1>4. Append(s, b) = t
  BY <1>1, <1>2, <1>3, AppendTo
<1> QED BY <1>4 DEF s, t

\* Three digits, built one at a time.
LEMMA AppendThird ==
    ASSUME NEW a \in Nat, NEW b \in Nat, NEW c \in Nat
    PROVE  Append(<<a, b>>, c) = <<a, b, c>>
<1> DEFINE s == <<a, b>>
           t == <<a, b, c>>
<1>1. s \in Seq(Nat) /\ Len(s) = 2
  OBVIOUS
<1>2. t \in Seq(Nat) /\ Len(t) = Len(s) + 1 /\ t[Len(t)] = c
  OBVIOUS
<1>3. \A i \in 1 .. Len(s) : t[i] = s[i]
  OBVIOUS
<1> HIDE DEF s, t
<1>4. Append(s, c) = t
  BY <1>1, <1>2, <1>3, AppendTo
<1> QED BY <1>4 DEF s, t

\* A length in one byte, after the byte that says so.
LEMMA PrefixOne ==
    ASSUME NEW d \in Nat, NEW a \in Nat
    PROVE  <<d>> \o <<a>> = <<d, a>>
<1> DEFINE D == <<d>>
           s == <<a>>
           t == <<d, a>>
<1>1. D \in Seq(Nat) /\ s \in Seq(Nat) /\ t \in Seq(Nat)
  OBVIOUS
<1>2. Len(t) = Len(D) + Len(s)
  OBVIOUS
<1>3. \A i \in 1 .. Len(D) : t[i] = D[i]
  OBVIOUS
<1>4. \A i \in 1 .. Len(s) : t[Len(D) + i] = s[i]
  OBVIOUS
<1> HIDE DEF D, s, t
<1>5. D \o s = t
  BY <1>1, <1>2, <1>3, <1>4, ConcatTo
<1> QED BY <1>5 DEF D, s, t

\* In two bytes.
LEMMA PrefixTwo ==
    ASSUME NEW d \in Nat, NEW a \in Nat, NEW b \in Nat
    PROVE  <<d>> \o <<a, b>> = <<d, a, b>>
<1> DEFINE D == <<d>>
           s == <<a, b>>
           t == <<d, a, b>>
<1>1. D \in Seq(Nat) /\ s \in Seq(Nat) /\ t \in Seq(Nat)
  OBVIOUS
<1>2. Len(t) = Len(D) + Len(s)
  OBVIOUS
<1>3. \A i \in 1 .. Len(D) : t[i] = D[i]
  OBVIOUS
<1>4. \A i \in 1 .. Len(s) : t[Len(D) + i] = s[i]
  OBVIOUS
<1> HIDE DEF D, s, t
<1>5. D \o s = t
  BY <1>1, <1>2, <1>3, <1>4, ConcatTo
<1> QED BY <1>5 DEF D, s, t

\* In three bytes.
LEMMA PrefixThree ==
    ASSUME NEW d \in Nat, NEW a \in Nat, NEW b \in Nat, NEW c \in Nat
    PROVE  <<d>> \o <<a, b, c>> = <<d, a, b, c>>
<1> DEFINE D == <<d>>
           s == <<a, b, c>>
           t == <<d, a, b, c>>
<1>1. D \in Seq(Nat) /\ s \in Seq(Nat) /\ t \in Seq(Nat)
  OBVIOUS
<1>2. Len(t) = Len(D) + Len(s)
  OBVIOUS
<1>3. \A i \in 1 .. Len(D) : t[i] = D[i]
  OBVIOUS
<1>4. \A i \in 1 .. Len(s) : t[Len(D) + i] = s[i]
  OBVIOUS
<1> HIDE DEF D, s, t
<1>5. D \o s = t
  BY <1>1, <1>2, <1>3, <1>4, ConcatTo
<1> QED BY <1>5 DEF D, s, t

\* What Base256 computes.
LEMMA Base256Unfolds ==
    ASSUME NEW n \in Nat
    PROVE  \E w : IsDigits(w, n) /\ Base256(n) = w[n]
<1> DEFINE Same(w) == w = [k \in 0 .. n |-> IF k = 0 THEN <<>> ELSE Append(w[k \div 256], k % 256)]
           ds == CHOOSE w : Same(w)
<1>1. Base256(n) = ds[n]
  BY SMT DEF Base256
<1>2. \A w : IsDigits(w, n) <=> Same(w)
  BY SMT DEF IsDigits, Digit
<1> HIDE DEF Same
<1>3. Same(ds)
  BY <1>2, DigitsExist
<1> HIDE DEF ds
<1> QED BY <1>1, <1>2, <1>3

\* The bytes of a length that needs more than one are those of the grammar.
LEMMA Base256Is ==
    ASSUME NEW n \in Nat, n > 127, Small(n)
    PROVE  <<128 + Len(Base256(n))>> \o Base256(n) = DerLength(n)
<1>1. PICK digits : IsDigits(digits, n) /\ Base256(n) = digits[n]
  BY Base256Unfolds
<1>2. \A k \in 1 .. n : digits[k] = Digit(digits, k)
  BY <1>1 DEF IsDigits
<1>4. digits[0] = <<>>
  BY <1>1 DEF IsDigits
<1>5. ASSUME NEW k \in 1 .. n, k < 256 PROVE digits[k] = <<k>>
  <2>1. k \div 256 = 0 /\ k % 256 = k
    BY <1>5, SMT
  <2>2. Digit(digits, k) = Append(digits[k \div 256], k % 256)
    BY SMT DEF Digit
  <2>3. Append(<<>>, k) = <<k>>
    OBVIOUS
  <2> QED BY <1>2, <1>4, <2>1, <2>2, <2>3, SMT
<1>6. CASE n < 256
  <2>1. Base256(n) = <<n>>
    BY <1>1, <1>5, <1>6, SMT
  <2>2. DerLength(n) = <<129, n>>
    BY <1>6, SMT DEF DerLength
  <2>3. Len(<<n>>) = 1 /\ <<129>> \o <<n>> = <<129, n>>
    BY PrefixOne
  <2>4. 128 + 1 = 129
    OBVIOUS
  <2> QED BY <2>1, <2>2, <2>3, <2>4, SMT
<1>7. CASE n > 255 /\ n < 65536
  <2> DEFINE a == n \div 256
             b == n % 256
  <2>1. a \in 1 .. 255 /\ a < n /\ b \in Nat
    BY <1>7, SMT
  <2>2. digits[n] = Append(digits[a], b)
    BY <1>2, SMT DEF Digit
  <2>3. DerLength(n) = <<130, a, b>>
    BY <1>7, SMT DEF DerLength
  <2> HIDE DEF a, b
  <2>4. digits[a] = <<a>>
    BY <1>5, <2>1, SMT
  <2>5. Base256(n) = <<a, b>>
    BY <1>1, <2>1, <2>2, <2>4, AppendSecond, SMT
  <2>6. Len(<<a, b>>) = 2 /\ <<130>> \o <<a, b>> = <<130, a, b>>
    BY <2>1, PrefixTwo
  <2>7. 128 + 2 = 130
    OBVIOUS
  <2> QED BY <2>3, <2>5, <2>6, <2>7, SMT
<1>8. CASE n > 65535
  <2> DEFINE a == n \div 65536
             b == (n \div 256) % 256
             c == n % 256
             m == n \div 256
  <2>1. m \in 1 .. n /\ a \in 1 .. 255 /\ a < n /\ m \div 256 = a /\ m % 256 = b /\ b \in Nat /\ c \in Nat
    BY <1>8, SMT DEF Small
  <2>2. digits[n] = Append(digits[m], c)
    BY <1>2, SMT DEF Digit
  <2>3. DerLength(n) = <<131, a, b, c>>
    BY <1>8, SMT DEF DerLength
  <2> HIDE DEF a, b, c, m
  <2>4. digits[a] = <<a>>
    BY <1>5, <2>1, SMT
  <2>5. Digit(digits, m) = Append(digits[m \div 256], m % 256)
    BY SMT DEF Digit
  <2>6. digits[m] = <<a, b>>
    <3>1. digits[m] = Digit(digits, m)
      BY <1>2, <2>1
    <3>2. Append(<<a>>, b) = <<a, b>>
      BY <2>1, AppendSecond
    <3> QED BY <2>1, <2>4, <2>5, <3>1, <3>2, ZenonT(60)
  <2>7. Base256(n) = <<a, b, c>>
    BY <1>1, <2>1, <2>2, <2>6, AppendThird, SMT
  <2>8. Len(<<a, b, c>>) = 3 /\ <<131>> \o <<a, b, c>> = <<131, a, b, c>>
    BY <2>1, PrefixThree
  <2>9. 128 + 3 = 131
    OBVIOUS
  <2> QED BY <2>3, <2>7, <2>8, <2>9, SMT
<1> QED BY <1>6, <1>7, <1>8

\* A length takes one to four bytes.
LEMMA DerLengthType ==
    ASSUME NEW n \in Nat
    PROVE  /\ DerLength(n) \in Seq(Nat) /\ Len(DerLength(n)) \in 1 .. 4
           /\ Small(n) => DerLength(n) \in Seq(Byte)
<1>1. n \div 65536 \in Nat /\ n \div 256 \in Nat /\ (n \div 256) % 256 \in Byte /\ n % 256 \in Byte
  BY DEF Byte
<1>2. Small(n) => n \div 65536 \in Byte
  BY DEF Byte, Small
<1>3. n < 65536 => n \div 256 \in Byte
  BY DEF Byte
<1>4. n < 256 => n \in Byte
  BY DEF Byte
<1>5. {128, 129, 130, 131} \subseteq Byte
  BY DEF Byte
<1> DEFINE a == n \div 65536
           b == n \div 256
           c == (n \div 256) % 256
           d == n % 256
<1>6. CASE n < 128
  BY <1>4, <1>6 DEF DerLength
<1>7. CASE n > 127 /\ n < 256
  BY <1>4, <1>5, <1>7 DEF DerLength
<1>8. CASE n > 255 /\ n < 65536
  <2>1. DerLength(n) = <<130, b, d>>
    BY <1>8 DEF DerLength
  <2>2. b \in Nat /\ d \in Nat /\ b \in Byte /\ d \in Byte
    BY <1>1, <1>3, <1>8 DEF Byte
  <2> HIDE DEF b, d
  <2> QED BY <1>5, <2>1, <2>2
<1>9. CASE n > 65535
  <2>1. DerLength(n) = <<131, a, c, d>>
    BY <1>9 DEF DerLength
  <2>2. a \in Nat /\ c \in Nat /\ d \in Nat /\ (Small(n) => a \in Byte) /\ c \in Byte /\ d \in Byte
    BY <1>1, <1>2 DEF Byte
  <2> HIDE DEF a, c, d
  <2> QED BY <1>5, <2>1, <2>2
<1> QED BY <1>6, <1>7, <1>8, <1>9

\* An object is written as the grammar has it.
LEMMA EncodeIs ==
    ASSUME NEW tag, NEW content, Small(Len(content))
    PROVE  EncodeDERObject(tag, content) = tag \o DerLength(Len(content)) \o content
<1> DEFINE n == Len(content)
<1>0. n \in Nat
  BY DEF Small
<1>1. EncodeDERObject(tag, content)
        = (tag \o IF n < 128 THEN <<n>> ELSE <<128 + Len(Base256(n))>> \o Base256(n)) \o content
  BY SMT DEF EncodeDERObject, AppendDERLength
<1>2. n > 127 => <<128 + Len(Base256(n))>> \o Base256(n) = DerLength(n)
  BY <1>0, Base256Is
<1>3. n < 128 => DerLength(n) = <<n>>
  BY SMT DEF DerLength
<1> HIDE DEF n
<1>4. DerLength(n) = IF n < 128 THEN <<n>> ELSE <<128 + Len(Base256(n))>> \o Base256(n)
  BY <1>0, <1>2, <1>3, SMT
<1> QED BY <1>1, <1>4 DEF n
\* One more digit of a number that is read.
Next256(v, s, i) == 256 * v[i - 1] + s[i]

\* Whether v holds the numbers that the first digits are.
IsValue(v, s, n) == v = [i \in 0 .. n |-> IF i = 0 THEN 0 ELSE Next256(v, s, i)]

\* There is a function of the values of the first bytes of s.
LEMMA ValueExists ==
    ASSUME NEW s, NEW n \in Nat
    PROVE  \E v : IsValue(v, s, n)
<1> DEFINE S == {k \in Nat : \E v : IsValue(v, s, k)}
<1>1. 0 \in S
  <2> DEFINE w == [i \in 0 .. 0 |-> 0]
  <2>1. IsValue(w, s, 0)
    BY DEF IsValue
  <2> QED BY <2>1
<1>2. ASSUME NEW k \in Nat, k \in S PROVE k + 1 \in S
  <2>1. PICK w : IsValue(w, s, k)
    BY <1>2
  <2> DEFINE x == [i \in 0 .. k + 1 |-> IF i <= k THEN w[i] ELSE Next256(w, s, k + 1)]
  <2>2. \A i \in 0 .. k + 1 : x[i] = IF i = 0 THEN 0 ELSE Next256(x, s, i)
    <3> SUFFICES ASSUME NEW i \in 0 .. k + 1
                 PROVE  x[i] = IF i = 0 THEN 0 ELSE Next256(x, s, i)
      OBVIOUS
    <3>1. i > 0 => Next256(x, s, i) = Next256(w, s, i)
      BY DEF Next256
    <3>2. CASE i <= k
      BY <2>1, <3>1, <3>2 DEF IsValue
    <3>3. CASE i = k + 1
      BY <3>1, <3>3
    <3> QED BY <3>2, <3>3
  <2>3. IsValue(x, s, k + 1)
    BY <2>2 DEF IsValue
  <2> QED BY <2>3
<1> HIDE DEF S
<1>3. Nat \subseteq S
  BY <1>1, <1>2, NaturalInduction
<1> QED BY <1>3 DEF S

\* What ReadBERLongLength computes.
LEMMA LongLength ==
    ASSUME NEW in \in Seq(Byte), NEW o \in 1 .. Len(in), NEW c \in Nat, c = in[o] - 128
    PROVE  /\ c > 4 \/ o + c > Len(in) => ReadBERLongLength(in, o) = Invalid
           /\ ~(c > 4 \/ o + c > Len(in)) =>
                \E v : /\ IsValue(v, SubSeq(in, o + 1, o + c), c)
                      /\ ReadBERLongLength(in, o) =
                            IF in[o + 1] = 0 \/ v[c] < 128 THEN Invalid
                            ELSE [ok |-> TRUE, length |-> v[c], next |-> o + c + 1]
<1> DEFINE t == SubSeq(in, o + 1, o + (in[o] - 128))
           s == SubSeq(in, o + 1, o + c)
           Same(v) == v = [i \in 0 .. Len(t) |-> IF i = 0 THEN 0 ELSE 256 * v[i - 1] + t[i]]
           value == CHOOSE v : Same(v)
<1>1. ReadBERLongLength(in, o) =
        IF in[o] - 128 > 4 \/ o + (in[o] - 128) > Len(in) \/ in[o + 1] = 0 \/ value[Len(t)] < 128
        THEN Invalid
        ELSE [ok |-> TRUE, length |-> value[Len(t)], next |-> o + (in[o] - 128) + 1]
  BY SMT DEF ReadBERLongLength
<1>2. t = s
  OBVIOUS
<1>3. ~(c > 4 \/ o + c > Len(in)) => Len(s) = c
  BY SMT
<1>4. \A v : IsValue(v, t, Len(t)) <=> Same(v)
  BY SMT DEF IsValue, Next256
<1> HIDE DEF t, s, Same
<1>5. ~(c > 4 \/ o + c > Len(in)) => Same(value)
  BY <1>2, <1>3, <1>4, ValueExists
<1> HIDE DEF value
<1>6. ReadBERLongLength(in, o) =
        IF c > 4 \/ o + c > Len(in) \/ in[o + 1] = 0 \/ value[Len(t)] < 128
        THEN Invalid
        ELSE [ok |-> TRUE, length |-> value[Len(t)], next |-> o + c + 1]
  BY <1>1, SMT
<1> QED BY <1>2, <1>3, <1>4, <1>5, <1>6, ZenonT(60) DEF s
\* The numbers that up to four digits are.
LEMMA Values ==
    ASSUME NEW s, NEW c \in 1 .. 4, NEW v, IsValue(v, s, c), \A i \in 1 .. c : s[i] \in Byte
    PROVE  /\ v[1] = s[1]
           /\ c > 1 => v[2] = 256 * s[1] + s[2]
           /\ c > 2 => v[3] = 65536 * s[1] + 256 * s[2] + s[3]
           /\ c > 3 => v[4] \in Nat /\ (s[1] # 0 => v[4] >= 256 * 65536)
<1>1. v[0] = 0 /\ \A i \in 1 .. c : v[i] = Next256(v, s, i)
  BY SMT DEF IsValue
<1>2. /\ v[1] = 256 * v[0] + s[1]
      /\ c > 1 => v[2] = 256 * v[1] + s[2]
      /\ c > 2 => v[3] = 256 * v[2] + s[3]
      /\ c > 3 => v[4] = 256 * v[3] + s[4]
  BY <1>1, SMT DEF Next256
<1>3. /\ s[1] \in Nat /\ (c > 1 => s[2] \in Nat) /\ (c > 2 => s[3] \in Nat)
      /\ c > 3 => s[4] \in Nat
  <2>1. \A i \in 1 .. c : s[i] \in Nat
    BY DEF Byte
  <2> QED BY <2>1
<1> DEFINE a == s[1]
           b == s[2]
           d == s[3]
           f == s[4]
           v1 == v[1]
           v2 == v[2]
           v3 == v[3]
           v4 == v[4]
<1>4. v1 = 256 * 0 + a /\ a \in Nat
  BY <1>1, <1>2, <1>3
<1>5. c > 1 => v2 = 256 * v1 + b /\ b \in Nat
  BY <1>2, <1>3
<1>6. c > 2 => v3 = 256 * v2 + d /\ d \in Nat
  BY <1>2, <1>3
<1>7. c > 3 => v4 = 256 * v3 + f /\ f \in Nat
  BY <1>2, <1>3
<1> HIDE DEF a, b, d, f, v1, v2, v3, v4
<1>8. /\ v1 = a
      /\ c > 1 => v2 = 256 * a + b
      /\ c > 2 => v3 = 65536 * a + 256 * b + d
      /\ c > 3 => v4 \in Nat /\ (a # 0 => v4 >= 256 * 65536)
  BY <1>4, <1>5, <1>6, <1>7, SMT
<1> QED BY <1>8, SMT DEF a, b, d, f, v1, v2, v3, v4

\* What is read as a length.
Length(n, next) == [ok |-> TRUE, length |-> n, next |-> next]
TooLong(r, next) == \E n \in Nat : ~Small(n) /\ r = Length(n, next)

\* The number that a length in c bytes is.
LongValue(in, o, c) ==
    CASE c = 1 -> in[o + 1]
      [] c = 2 -> 256 * in[o + 1] + in[o + 2]
      [] c = 3 -> 65536 * in[o + 1] + 256 * in[o + 2] + in[o + 3]

\* What is made of a length in one to three bytes, and in four.
LEMMA LongLengthIs ==
    ASSUME NEW in \in Seq(Byte), NEW o \in 1 .. Len(in), NEW c \in 1 .. 127, in[o] = 128 + c,
           NEW r, r = ReadBERLongLength(in, o)
    PROVE  /\ c > 4 \/ o + c > Len(in) => r = Invalid
           /\ c < 4 /\ o + c <= Len(in) =>
                r = IF in[o + 1] = 0 \/ LongValue(in, o, c) < 128 THEN Invalid
                    ELSE [ok |-> TRUE, length |-> LongValue(in, o, c), next |-> o + c + 1]
           /\ c = 4 /\ r # Invalid => TooLong(r, o + c + 1)
<1>1. c = in[o] - 128 /\ c \in Nat /\ Len(in) \in Nat
  BY SMT
<1>2. CASE c > 4 \/ o + c > Len(in)
  <2>1. r = Invalid
    BY <1>1, <1>2, LongLength
  <2> QED BY <1>1, <1>2, <2>1, SMT
<1>3. CASE ~(c > 4 \/ o + c > Len(in))
  <2> DEFINE s == SubSeq(in, o + 1, o + c)
  <2>0. ~(c > 4 \/ o + c > Len(in)) =>
            \E v : /\ IsValue(v, s, c)
                  /\ r = IF in[o + 1] = 0 \/ v[c] < 128 THEN Invalid
                         ELSE [ok |-> TRUE, length |-> v[c], next |-> o + c + 1]
    <3>1. in \in Seq(Byte) /\ o \in 1 .. Len(in) /\ c \in Nat /\ c = in[o] - 128
      BY <1>1
    <3> QED BY <3>1, LongLength, SMTT(40)
  <2>1. PICK v : /\ IsValue(v, s, c)
                 /\ r = IF in[o + 1] = 0 \/ v[c] < 128 THEN Invalid
                        ELSE [ok |-> TRUE, length |-> v[c], next |-> o + c + 1]
    BY <1>3, <2>0
  <2>2. c \in 1 .. 4
    BY <1>3, SMT
  <2>3. \A i \in 1 .. c : s[i] = in[o + i] /\ s[i] \in Byte
    BY <1>1, <1>3, SMT
  <2> HIDE DEF s
  <2>4. /\ v[1] = s[1]
        /\ c > 1 => v[2] = 256 * s[1] + s[2]
        /\ c > 2 => v[3] = 65536 * s[1] + 256 * s[2] + s[3]
        /\ c > 3 => v[4] \in Nat /\ (s[1] # 0 => v[4] >= 256 * 65536)
    BY <2>1, <2>2, <2>3, Values
  <2>5. /\ s[1] = in[o + 1] /\ (c > 1 => s[2] = in[o + 2]) /\ (c > 2 => s[3] = in[o + 3])
    BY <2>2, <2>3, SMT
  <2>6. c < 4 => v[c] = LongValue(in, o, c)
    BY <2>2, <2>4, <2>5, SMT DEF LongValue
  <2>7. c < 4 /\ o + c <= Len(in) =>
                r = IF in[o + 1] = 0 \/ LongValue(in, o, c) < 128 THEN Invalid
                    ELSE [ok |-> TRUE, length |-> LongValue(in, o, c), next |-> o + c + 1]
    BY <2>1, <2>6, Zenon
  <2>8. c = 4 /\ r # Invalid => v[4] \in Nat /\ v[4] >= 256 * 65536
    BY <2>1, <2>4, <2>5, SMT
  <2>a. c = 4 /\ r # Invalid => v[4] \in Nat /\ ~Small(v[4])
    BY <2>8, SMT DEF Small
  <2>b. c = 4 /\ r # Invalid => r = Length(v[4], o + c + 1)
    BY <2>1, SMT DEF Length
  <2>9. c = 4 /\ r # Invalid => TooLong(r, o + c + 1)
    BY <2>a, <2>b, Zenon DEF TooLong
  <2> QED BY <1>3, <2>7, <2>9, Zenon
<1> QED BY <1>2, <1>3

\* Where a length is read, by its first byte.
LEMMA LengthCases ==
    ASSUME NEW in \in Seq(Byte), NEW o \in Nat
    PROVE  /\ o > Len(in) => ReadBERLength(in, o) = Invalid
           /\ o <= Len(in) /\ in[o] = 128 =>
                ReadBERLength(in, o) = [ok |-> TRUE, length |-> -1, next |-> o + 1]
           /\ o <= Len(in) /\ in[o] < 128 =>
                ReadBERLength(in, o) = [ok |-> TRUE, length |-> in[o], next |-> o + 1]
           /\ o \in 1 .. Len(in) /\ in[o] > 128 =>
                ReadBERLength(in, o) = ReadBERLongLength(in, o)
<1>0. Len(in) \in Nat
  OBVIOUS
<1>1. o > Len(in) => ReadBERLength(in, o) = Invalid
  BY <1>0, SMT DEF ReadBERLength
<1>2. o <= Len(in) /\ in[o] = 128 =>
        ReadBERLength(in, o) = [ok |-> TRUE, length |-> -1, next |-> o + 1]
  BY <1>0, SMT DEF ReadBERLength
<1>3. o <= Len(in) /\ in[o] < 128 =>
        ReadBERLength(in, o) = [ok |-> TRUE, length |-> in[o], next |-> o + 1]
  <2> SUFFICES ASSUME o <= Len(in) /\ in[o] < 128
               PROVE  ReadBERLength(in, o) = [ok |-> TRUE, length |-> in[o], next |-> o + 1]
    OBVIOUS
  <2>1. ~(o > Len(in)) /\ (in[o] < 128 => in[o] # 128)
    BY <1>0, SMT
  <2> QED BY <2>1, SMT DEF ReadBERLength
<1>4. o \in 1 .. Len(in) /\ in[o] > 128 =>
        ReadBERLength(in, o) = ReadBERLongLength(in, o)
  <2> SUFFICES ASSUME o \in 1 .. Len(in), in[o] > 128
               PROVE  ReadBERLength(in, o) = ReadBERLongLength(in, o)
    OBVIOUS
  <2>1. in[o] \in Byte
    OBVIOUS
  <2>2. in[o] \in Nat
    BY <2>1, BytesAreNumbers
  <2>3. ~(o > Len(in)) /\ ~(in[o] < 128) /\ ~(in[o] = 128)
    BY <1>0, <2>2, SMT
  <2> QED BY <2>3, SMT DEF ReadBERLength
<1> QED BY <1>1, <1>2, <1>3, <1>4

\* The bytes of a length that takes c more than one.
LEMMA LongDigits ==
    ASSUME NEW n \in Nat, Small(n), n > 127, NEW d, d = DerLength(n)
    PROVE  \E c \in 1 .. 3 : d[1] = 128 + c /\ Len(d) = c + 1 /\ d[2] # 0 /\ n = LongValue(d, 1, c)
<1> DEFINE a == n \div 65536
           b == (n \div 256) % 256
           e == n % 256
           f == n \div 256
           G(c) == d[1] = 128 + c /\ Len(d) = c + 1 /\ d[2] # 0 /\ n = LongValue(d, 1, c)
<1>1. /\ n > 127 /\ n < 256 => d = <<129, n>>
      /\ n > 255 /\ n < 65536 => d = <<130, f, e>>
      /\ n > 65535 => d = <<131, a, b, e>>
  BY SMT DEF DerLength
<1>2. /\ n = 65536 * a + 256 * b + e
      /\ n = 256 * f + e
      /\ n > 255 => f > 0
      /\ n > 65535 => a > 0
  BY ThreeDigits, SMT DEF Small
<1>3. a \in Nat /\ b \in Nat /\ e \in Nat /\ f \in Nat
  BY SMT
<1> HIDE DEF a, b, e, f
<1>4. n < 256 => G(1)
  BY <1>1, SMT DEF LongValue
<1>5. n > 255 /\ n < 65536 => G(2)
  BY <1>1, <1>2, <1>3, SMT DEF LongValue
<1>6. n > 65535 => G(3)
  BY <1>1, <1>2, <1>3, SMT DEF LongValue
<1> HIDE DEF G
<1>7. G(1) \/ G(2) \/ G(3)
  BY <1>4, <1>5, <1>6, SMT
<1>8. 1 \in 1 .. 3 /\ 2 \in 1 .. 3 /\ 3 \in 1 .. 3
  OBVIOUS
<1>9. \E c \in 1 .. 3 : G(c)
  BY <1>7, <1>8, Zenon
<1> QED BY <1>9 DEF G

\* The same digits are the same number.
LEMMA SameValue ==
    ASSUME NEW c \in 1 .. 3, NEW in, NEW d, NEW o \in Nat,
           \A i \in 1 .. c : in[o + i] = d[i + 1]
    PROVE  LongValue(in, o, c) = LongValue(d, 1, c)
<1>1. /\ in[o + 1] = d[1 + 1] /\ (c > 1 => in[o + 2] = d[1 + 2])
      /\ c > 2 => in[o + 3] = d[1 + 3]
  BY SMT
<1>2. CASE c = 1
  BY <1>1, <1>2, SMT DEF LongValue
<1>3. CASE c = 2
  BY <1>1, <1>3, SMT DEF LongValue
<1>4. CASE c = 3
  BY <1>1, <1>4, SMT DEF LongValue
<1> QED BY <1>2, <1>3, <1>4

\* Whether d is a length in c bytes with the digits after o.
IsLong(d, in, o, c) ==
    Len(d) = c + 1 /\ d[1] = 128 + c /\ \A i \in 1 .. c : d[i + 1] = in[o + i]

\* What one to three digits are, if the first is not 0.
LEMMA ValueDigits ==
    ASSUME NEW c \in 1 .. 3, NEW in, NEW o \in Nat, NEW v, v = LongValue(in, o, c),
           \A i \in 1 .. c : in[o + i] \in Nat /\ in[o + i] < 256, in[o + 1] # 0, ~(v < 128)
    PROVE  Small(v) /\ v > 127 /\ IsLong(DerLength(v), in, o, c)
<1> DEFINE x == in[o + 1]
           y == in[o + 2]
           z == in[o + 3]
           d == DerLength(v)
           G == /\ Small(v) /\ v > 127 /\ Len(d) = c + 1 /\ d[1] = 128 + c
                /\ d[2] = x /\ (c > 1 => d[3] = y) /\ (c > 2 => d[4] = z)
<1>1. /\ x \in Nat /\ x < 256 /\ x # 0 /\ (c > 1 => y \in Nat /\ y < 256)
      /\ c > 2 => z \in Nat /\ z < 256
  BY SMT
<1>2. /\ c = 1 => v = x
      /\ c = 2 => v = 256 * x + y
      /\ c = 3 => v = 65536 * x + 256 * y + z
  BY SMT DEF LongValue
<1> HIDE DEF x, y, z
<1>3. ASSUME c = 1 PROVE G
  <2>1. v \in Nat /\ v = x /\ v > 127 /\ v < 256
    BY <1>1, <1>2, <1>3, SMT
  <2>2. d = <<129, v>>
    BY <2>1, SMT DEF DerLength
  <2>3. Small(v)
    BY <1>1, <2>1, SMT DEF Small
  <2> HIDE DEF d
  <2>4. Len(d) = 2 /\ d[1] = 129 /\ d[2] = v
    BY <2>2
  <2> QED BY <1>3, <2>1, <2>3, <2>4, SMT
<1>4. ASSUME c = 2 PROVE G
  <2>0. x \in Nat /\ y \in Nat /\ x > 0 /\ x < 256 /\ y < 256 /\ v = 256 * x + y
    BY <1>1, <1>2, <1>4, SMT
  <2>1. v \in Nat /\ v > 255 /\ v < 65536
    BY <2>0, SMT
  <2>2. d = <<130, v \div 256, v % 256>>
    BY <2>1, SMT DEF DerLength
  <2>3. v \div 256 = x /\ v % 256 = y
    BY <2>0, SMT
  <2>4. Small(v)
    BY <2>1, SMT DEF Small
  <2> HIDE DEF d
  <2>5. d = <<130, x, y>>
    BY <2>2, <2>3
  <2>6. Len(d) = 3 /\ d[1] = 130 /\ d[2] = x /\ d[3] = y
    BY <2>5
  <2> QED BY <1>4, <2>1, <2>4, <2>6, SMT
<1>5. ASSUME c = 3 PROVE G
  <2>0. /\ x \in Nat /\ y \in Nat /\ z \in Nat /\ x > 0 /\ x < 256 /\ y < 256 /\ z < 256
        /\ v = 65536 * x + 256 * y + z
    BY <1>1, <1>2, <1>5, SMT
  <2>1. v \in Nat /\ v > 65535 /\ v < 256 * 65536
    BY <2>0, SMT
  <2>2. d = <<131, v \div 65536, (v \div 256) % 256, v % 256>>
    BY <2>1, SMT DEF DerLength
  <2>3. v \div 65536 = x /\ (v \div 256) % 256 = y /\ v % 256 = z
    <3>1. v \div 65536 = x
      BY <2>0, SMT
    <3>2. v \div 256 = 256 * x + y
      BY <2>0, SMT
    <3>3. v % 256 = z
      BY <2>0, SMT
    <3>4. (256 * x + y) % 256 = y
      BY <2>0, SMT
    <3> QED BY <3>1, <3>2, <3>3, <3>4, SMT
  <2>4. Small(v)
    BY <2>1, SMT DEF Small
  <2> HIDE DEF d
  <2>5. d = <<131, x, y, z>>
    BY <2>2, <2>3, SMT
  <2>6. Len(d) = 4 /\ d[1] = 131 /\ d[2] = x /\ d[3] = y /\ d[4] = z
    BY <2>5, SMT
  <2> QED BY <1>5, <2>1, <2>4, <2>6, SMT
<1> HIDE DEF G
<1>6. G
  BY <1>3, <1>4, <1>5, c \in {1, 2, 3}
<1>7. \A i \in 1 .. c : d[i + 1] = in[o + i]
  <2> HIDE DEF d
  <2>1. d[2] = in[o + 1] /\ (c > 1 => d[3] = in[o + 2]) /\ (c > 2 => d[4] = in[o + 3])
    BY <1>6, SMT DEF G, x, y, z
  <2> QED BY <2>1, SMT
<1>8. Small(v) /\ v > 127 /\ Len(d) = c + 1 /\ d[1] = 128 + c
  BY <1>6 DEF G
<1> QED BY <1>7, <1>8 DEF IsLong

\* A length of the grammar is read.
LEMMA LengthReads ==
    ASSUME NEW in \in Seq(Byte), NEW o \in 1 .. Len(in) + 1, NEW n \in Nat, Small(n),
           NEW d, d = DerLength(n), At(in, o, d)
    PROVE  ReadBERLength(in, o) = Length(n, o + Len(d))
<1> DEFINE r == ReadBERLongLength(in, o)
<1>1. o + Len(d) <= Len(in) + 1 /\ \A i \in 1 .. Len(d) : in[o + i - 1] = d[i]
  BY DEF At
<1>2. Len(in) \in Nat /\ Len(d) \in 1 .. 4
  <2>1. Len(d) \in 1 .. 4
    BY DerLengthType
  <2> QED BY <2>1
<1>3. in[o] = d[1] /\ o \in 1 .. Len(in) /\ o \in Nat
  <2>1. in[o + 1 - 1] = d[1]
    BY <1>1, <1>2
  <2> QED BY <1>1, <1>2, <2>1
<1>4. CASE n < 128
  <2>1. d = <<n>>
    BY <1>4, SMTT(40) DEF DerLength
  <2>2. Len(d) = 1 /\ d[1] = n
    BY <2>1
  <2>3. ReadBERLength(in, o) = [ok |-> TRUE, length |-> in[o], next |-> o + 1]
    BY <1>3, <1>4, <2>2, LengthCases
  <2> QED BY <1>3, <2>2, <2>3 DEF Length
<1>5. CASE n > 127
  <2>1. PICK c \in 1 .. 3 : d[1] = 128 + c /\ Len(d) = c + 1 /\ d[2] # 0 /\ n = LongValue(d, 1, c)
    BY <1>5, LongDigits
  <2> DEFINE v == LongValue(in, o, c)
  <2> HIDE DEF r
  <2>2. c \in 1 .. 127 /\ in[o] = 128 + c /\ o + c <= Len(in) /\ c < 4 /\ in[o] > 128
    BY <1>1, <1>2, <1>3, <2>1
  <2>3. ReadBERLength(in, o) = r
    BY <1>3, <2>2, LengthCases DEF r
  <2>4. r = IF in[o + 1] = 0 \/ v < 128 THEN Invalid
            ELSE [ok |-> TRUE, length |-> v, next |-> o + c + 1]
    <3>1. r = ReadBERLongLength(in, o)
      BY DEF r
    <3> QED BY <1>3, <2>2, <3>1, LongLengthIs
  <2>5. \A i \in 1 .. c : in[o + i] = d[i + 1]
    <3> SUFFICES ASSUME NEW i \in 1 .. c PROVE in[o + i] = d[i + 1]
      OBVIOUS
    <3>1. i + 1 \in 1 .. Len(d) /\ o + (i + 1) - 1 = o + i
      BY <1>3, <2>1
    <3>2. in[o + (i + 1) - 1] = d[i + 1]
      BY <1>1, <3>1
    <3> QED BY <3>1, <3>2
  <2>6. in[o + 1] = d[1 + 1]
    BY <2>1, <2>5
  <2>7. v = n
    BY <1>3, <2>1, <2>5, SameValue
  <2> HIDE DEF v
  <2>8. r = [ok |-> TRUE, length |-> n, next |-> o + c + 1]
    <3>0. d[1 + 1] = d[2] /\ ~(n < 128)
      BY <1>5
    <3>1. in[o + 1] # 0 /\ ~(n < 128)
      BY <2>1, <2>6, <3>0
    <3> QED BY <2>4, <2>7, <3>1
  <2>9. o + c + 1 = o + Len(d)
    BY <1>3, <2>1
  <2> QED BY <2>3, <2>8, <2>9 DEF Length
<1> QED BY <1>4, <1>5

\* A length that is read, and is not too large, is one of the grammar.
LEMMA LengthSound ==
    ASSUME NEW in \in Seq(Byte), NEW o \in Nat \ {0}, NEW r, r = ReadBERLength(in, o), r # Invalid
    PROVE  /\ o <= Len(in)
           /\ \/ in[o] = 128 /\ r = Length(-1, o + 1)
              \/ \E n \in Nat : /\ Small(n) /\ At(in, o, DerLength(n))
                                /\ r = Length(n, o + Len(DerLength(n)))
              \/ \E n \in Nat, e \in Nat \ {0} : ~Small(n) /\ r = Length(n, e)
<1>0. Len(in) \in Nat
  OBVIOUS
<1>1. o \in 1 .. Len(in)
  BY <1>0, LengthCases
<1>2. in[o] \in Byte
  BY <1>1
<1>3. in[o] \in Nat /\ in[o] < 256
  BY <1>2, BytesAreNumbers
<1>4. CASE in[o] = 128
  <2>1. r = [ok |-> TRUE, length |-> -1, next |-> o + 1]
    BY <1>1, <1>4, LengthCases
  <2> QED BY <1>1, <1>4, <2>1 DEF Length
<1>5. CASE in[o] < 128
  <2>1. r = [ok |-> TRUE, length |-> in[o], next |-> o + 1]
    BY <1>1, <1>5, LengthCases
  <2> DEFINE n == in[o]
             d == DerLength(n)
  <2>2. d = <<n>>
    <3>1. n \in Nat /\ n < 128
      BY <1>3, <1>5
    <3> HIDE DEF n
    <3> QED BY <3>1, SMT DEF DerLength
  <2> HIDE DEF n, d
  <2>3. Len(d) = 1 /\ d[1] = n
    BY <2>2
  <2>4. At(in, o, d)
    BY <1>0, <1>1, <2>3 DEF At, n
  <2>5. Small(n) /\ n \in Nat
    BY <1>3, <1>5, SMT DEF n, Small
  <2>6. r = Length(n, o + Len(d))
    BY <2>1, <2>3 DEF n, Length
  <2> QED BY <1>1, <2>4, <2>5, <2>6 DEF d
<1>6. CASE in[o] > 128
  <2> DEFINE c == in[o] - 128
             v == LongValue(in, o, c)
  <2>1. r = ReadBERLongLength(in, o)
    BY <1>1, <1>6, LengthCases
  <2>2. c \in 1 .. 127 /\ in[o] = 128 + c
    <3> DEFINE b == in[o]
    <3>1. b \in Nat /\ b < 256 /\ b > 128
      BY <1>3, <1>6
    <3> HIDE DEF b
    <3>2. b - 128 \in 1 .. 127 /\ b = 128 + (b - 128)
      BY <3>1, SMT
    <3> QED BY <3>2, Zenon DEF b
  <2> HIDE DEF c
  <2>3. /\ ~(c > 4 \/ o + c > Len(in))
        /\ c < 4 /\ o + c <= Len(in) =>
                r = IF in[o + 1] = 0 \/ v < 128 THEN Invalid
                    ELSE [ok |-> TRUE, length |-> v, next |-> o + c + 1]
        /\ c = 4 => \E n \in Nat : ~Small(n) /\ r = Length(n, o + c + 1)
    <3>1. ~(c > 4 \/ o + c > Len(in))
      BY <1>1, <2>1, <2>2, LongLengthIs
    <3>2. c < 4 /\ o + c <= Len(in) =>
                r = IF in[o + 1] = 0 \/ v < 128 THEN Invalid
                    ELSE [ok |-> TRUE, length |-> v, next |-> o + c + 1]
      BY <1>1, <2>1, <2>2, LongLengthIs
    <3>3. c = 4 => TooLong(r, o + c + 1)
      BY <1>1, <2>1, <2>2, LongLengthIs
    <3> QED BY <3>1, <3>2, <3>3 DEF TooLong
  <2>4. CASE c = 4
    <3>1. o + c + 1 \in Nat \ {0}
      BY <1>1, <2>2
    <3> QED BY <1>1, <2>3, <2>4, <3>1
  <2>5. CASE c # 4
    <3>1. c \in 1 .. 3 /\ o + c <= Len(in)
      BY <1>0, <2>2, <2>3, <2>5
    <3>2. r = [ok |-> TRUE, length |-> v, next |-> o + c + 1] /\ in[o + 1] # 0 /\ ~(v < 128)
      BY <2>3, <3>1
    <3>3. \A i \in 1 .. c : in[o + i] \in Nat /\ in[o + i] < 256
      <4> SUFFICES ASSUME NEW i \in 1 .. c PROVE in[o + i] \in Byte
        BY BytesAreNumbers
      <4>1. o + i \in 1 .. Len(in)
        BY <1>0, <3>1
      <4> QED BY <4>1
    <3>4. o \in Nat /\ v = LongValue(in, o, c) /\ in[o + 1] # 0 /\ ~(v < 128)
      BY <3>2
    <3> HIDE DEF v
    <3> DEFINE d == DerLength(v)
    <3>5. Small(v) /\ IsLong(d, in, o, c)
      BY <3>1, <3>3, <3>4, ValueDigits
    <3> HIDE DEF d
    <3>6. Len(d) = c + 1 /\ d[1] = 128 + c /\ \A i \in 1 .. c : d[i + 1] = in[o + i]
      BY <3>5 DEF IsLong
    <3>7. ASSUME NEW i \in 1 .. Len(d) PROVE in[o + i - 1] = d[i]
      <4>1. CASE i = 1
        BY <2>2, <3>6, <4>1
      <4>2. CASE i # 1
        <5> DEFINE j == i - 1
        <5>1. j \in 1 .. c /\ i = j + 1 /\ o + i - 1 = o + j
          BY <3>1, <3>6, <4>2
        <5> HIDE DEF j
        <5> QED BY <3>6, <5>1
      <4> QED BY <4>1, <4>2
    <3>8. At(in, o, d)
      BY <1>0, <3>1, <3>6, <3>7 DEF At
    <3>9. o + c + 1 = o + Len(d)
      BY <3>1, <3>6
    <3>10. r = Length(v, o + Len(d)) /\ v \in Nat
      <4>1. v \in Nat
        BY <3>5 DEF Small
      <4>2. r = Length(v, o + c + 1)
        BY <3>2 DEF Length
      <4> QED BY <3>9, <4>1, <4>2
    <3> QED BY <1>1, <3>5, <3>8, <3>10 DEF d
  <2> QED BY <2>4, <2>5
<1> QED BY <1>3, <1>4, <1>5, <1>6
-----------------------------------------------------------------------------
(* BER: tags and places *)

\* A sequence of other elements.
LEMMA OtherSeq ==
    ASSUME NEW S, NEW T, NEW s \in Seq(S), \A i \in 1 .. Len(s) : s[i] \in T
    PROVE  s \in Seq(T)
<1>1. DOMAIN s = 1 .. Len(s) /\ Len(s) \in Nat /\ s = [i \in 1 .. Len(s) |-> s[i]]
  OBVIOUS
<1> QED BY <1>1

(* Strings at positions of others *)

\* Two byte strings are at a place together exactly if each is at its own.
LEMMA AtConcat ==
    ASSUME NEW in \in Seq(Byte), NEW p \in Nat \ {0}, NEW a \in Seq(Nat), NEW b \in Seq(Nat)
    PROVE  At(in, p, a \o b) <=> At(in, p, a) /\ At(in, p + Len(a), b)
<1> DEFINE s == a \o b
           m == Len(a)
           n == Len(b)
<1>0. m \in Nat /\ n \in Nat /\ Len(in) \in Nat
  OBVIOUS
<1>1. /\ Len(s) = m + n /\ \A i \in 1 .. m : s[i] = a[i]
      /\ \A i \in 1 .. n : s[m + i] = b[i]
  BY Concat
<1> HIDE DEF s, m, n
<1>2. ASSUME At(in, p, s) PROVE At(in, p, a) /\ At(in, p + m, b)
  <2>1. p + Len(s) <= Len(in) + 1 /\ \A i \in 1 .. Len(s) : in[p + i - 1] = s[i]
    BY <1>2 DEF At
  <2>2. \A i \in 1 .. m : in[p + i - 1] = a[i]
    BY <1>0, <1>1, <2>1
  <2>3. ASSUME NEW i \in 1 .. n PROVE in[p + m + i - 1] = b[i]
    <3>1. m + i \in 1 .. Len(s) /\ p + (m + i) - 1 = p + m + i - 1
      BY <1>0, <1>1
    <3>2. in[p + (m + i) - 1] = s[m + i]
      BY <2>1, <3>1
    <3> QED BY <1>1, <3>1, <3>2
  <2>4. p + m <= Len(in) + 1 /\ p + m + n <= Len(in) + 1
    BY <1>0, <1>1, <2>1
  <2> QED BY <2>2, <2>3, <2>4 DEF At, m, n
<1>3. ASSUME At(in, p, a), At(in, p + m, b) PROVE At(in, p, s)
  <2>1. p + m + n <= Len(in) + 1
    BY <1>3 DEF At, n
  <2>2. \A i \in 1 .. m : in[p + i - 1] = a[i]
    BY <1>3 DEF At, m
  <2>3. \A i \in 1 .. n : in[p + m + i - 1] = b[i]
    BY <1>3 DEF At, n
  <2>4. ASSUME NEW i \in 1 .. Len(s) PROVE in[p + i - 1] = s[i]
    <3>1. CASE i <= m
      BY <1>0, <1>1, <2>2, <3>1
    <3>2. CASE i > m
      <4> DEFINE j == i - m
      <4>1. j \in 1 .. n /\ i = m + j /\ p + i - 1 = p + m + j - 1
        BY <1>0, <1>1, <3>2
      <4> HIDE DEF j
      <4>2. in[p + m + j - 1] = b[j] /\ s[m + j] = b[j]
        BY <1>1, <2>3, <4>1
      <4> QED BY <4>1, <4>2
    <3> QED BY <1>0, <1>1, <3>1, <3>2
  <2>5. p + Len(s) <= Len(in) + 1
    BY <1>0, <1>1, <2>1
  <2> QED BY <2>4, <2>5 DEF At
<1> QED BY <1>2, <1>3 DEF s, m

\* A part of a string is at its place in it.
LEMMA AtPart ==
    ASSUME NEW T, NEW in \in Seq(T), NEW p \in 1 .. Len(in) + 1, NEW e \in p - 1 .. Len(in)
    PROVE  /\ SubSeq(in, p, e) \in Seq(T) /\ Len(SubSeq(in, p, e)) = e - p + 1
           /\ At(in, p, SubSeq(in, p, e))
           /\ \A i \in 1 .. e - p + 1 : SubSeq(in, p, e)[i] = in[p + i - 1]
<1> DEFINE s == SubSeq(in, p, e)
<1>1. s \in Seq(T) /\ Len(s) = e - p + 1 /\ \A i \in 1 .. e - p + 1 : s[i] = in[p + i - 1]
  OBVIOUS
<1>2. Len(in) \in Nat /\ p \in Int /\ e \in Int /\ e <= Len(in)
  OBVIOUS
<1> HIDE DEF s
<1>3. p + Len(s) <= Len(in) + 1
  BY <1>1, <1>2
<1> QED BY <1>1, <1>3 DEF At, s

\* What is at a place is the part of the string that is there.
LEMMA PartAt ==
    ASSUME NEW in \in Seq(Byte), NEW p \in Nat \ {0}, NEW s \in Seq(Nat), At(in, p, s)
    PROVE  SubSeq(in, p, p + Len(s) - 1) = s
<1>1. Len(in) \in Nat /\ Len(s) \in Nat /\ p + Len(s) <= Len(in) + 1
      /\ \A i \in 1 .. Len(s) : in[p + i - 1] = s[i]
  <2>1. Len(in) \in Nat /\ Len(s) \in Nat
    OBVIOUS
  <2> QED BY <2>1 DEF At
<1> DEFINE e == p + Len(s) - 1
           t == SubSeq(in, p, e)
<1>2. p \in 1 .. Len(in) + 1 /\ e \in p - 1 .. Len(in) /\ e - p + 1 = Len(s)
  BY <1>1
<1> HIDE DEF e
<1>3. /\ t \in Seq(Byte) /\ Len(t) = Len(s)
      /\ \A i \in 1 .. Len(s) : t[i] = in[p + i - 1]
  BY <1>2, AtPart
<1> HIDE DEF t
<1>4. Len(t) = Len(s) /\ \A i \in 1 .. Len(t) : t[i] = s[i]
  BY <1>1, <1>3
<1>5. t \in Seq(Nat)
  <2>1. \A i \in 1 .. Len(t) : t[i] \in Nat
    BY <1>1, <1>4
  <2> QED BY <1>3, <2>1, OtherSeq
<1>6. t = s
  BY <1>4, <1>5, SameSeq
<1> QED BY <1>6 DEF t, e

\* Bytes are numbers.
LEMMA BytesNat ==
    ASSUME NEW s \in Seq(Byte)
    PROVE  s \in Seq(Nat)
<1>1. \A i \in 1 .. Len(s) : s[i] \in Byte
  OBVIOUS
<1>2. \A i \in 1 .. Len(s) : s[i] \in Nat
  BY <1>1, BytesAreNumbers
<1> QED BY <1>2, OtherSeq
-----------------------------------------------------------------------------
(* Tags *)

\* A tag of the grammar.
Tag(s) ==
    /\ s \in Seq(Byte) /\ Len(s) \in Nat \ {0}
    /\ IF Len(s) = 1 THEN ~HighTag(s[1])
       ELSE /\ HighTag(s[1]) /\ s[2] # 128 /\ s[Len(s)] < 128 /\ Len(s) <= MaxBERTagSize
            /\ \A i \in 2 .. Len(s) - 1 : s[i] > 127

TagRead(s, o) ==
    [ok |-> TRUE, tag |-> s, constructed |-> IsConstructed(s[1]), next |-> o + Len(s)]

\* A tag is read wherever it is (readBERTag).
LEMMA TagReads ==
    ASSUME NEW in \in Seq(Byte), NEW o \in Nat \ {0}, NEW s, Tag(s), At(in, o, s)
    PROVE  ReadBERTag(in, o) = TagRead(s, o)
<1>1. /\ s \in Seq(Byte) /\ s \in Seq(Nat) /\ Len(s) \in Nat \ {0} /\ Len(in) \in Nat
      /\ o + Len(s) <= Len(in) + 1 /\ \A i \in 1 .. Len(s) : in[o + i - 1] = s[i]
  BY BytesNat DEF Tag, At
<1>2. in[o] = s[1]
  <2>1. in[o + 1 - 1] = s[1]
    BY <1>1
  <2> QED BY <2>1
<1>3. SubSeq(in, o, o + Len(s) - 1) = s
  BY <1>1, PartAt
<1>4. CASE Len(s) = 1
  <2>1. ~HighTag(in[o]) /\ o + Len(s) - 1 = o
    BY <1>2, <1>4 DEF Tag
  <2>2. ReadBERTag(in, o)
          = [ok |-> TRUE, tag |-> SubSeq(in, o, o), constructed |-> IsConstructed(in[o]),
             next |-> o + 1]
    BY <2>1 DEF ReadBERTag
  <2> QED BY <1>2, <1>3, <1>4, <2>1, <2>2 DEF TagRead
<1>5. CASE Len(s) > 1
  <2> DEFINE ends == {i \in o + 1 .. Len(in) : in[i] < 128}
             e == o + Len(s) - 1
             last == CHOOSE i \in ends : \A j \in ends : i <= j
  <2>1. /\ HighTag(in[o]) /\ s[2] # 128 /\ s[Len(s)] < 128 /\ Len(s) <= MaxBERTagSize
        /\ \A i \in 2 .. Len(s) - 1 : s[i] > 127
    <3>1. Len(s) # 1
      BY <1>1, <1>5
    <3> QED BY <1>2, <3>1 DEF Tag
  <2>2. in[o + 1] = s[2]
    <3>1. in[o + 2 - 1] = s[2]
      BY <1>1, <1>5
    <3> QED BY <3>1
  <2>3. e \in ends
    BY <1>1, <1>5, <2>1, SMTT(40)
  <2>4. ASSUME NEW j \in ends PROVE e <= j
    <3> SUFFICES ASSUME j < e PROVE FALSE
      BY <1>1
    <3> DEFINE i == j - o + 1
    <3>1. i \in 2 .. Len(s) - 1 /\ i \in 1 .. Len(s) /\ o + i - 1 = j /\ in[j] < 128
      BY <1>1
    <3> HIDE DEF i
    <3>2. in[j] = s[i] /\ s[i] > 127
      BY <1>1, <2>1, <3>1
    <3>3. s[i] \in Byte
      BY <1>1, <3>1
    <3>4. s[i] \in Nat
      BY <3>3, BytesAreNumbers
    <3> QED BY <3>1, <3>2, <3>4
  <2>5. \A j \in ends : j \in Int
    OBVIOUS
  <2>6. ReadBERTag(in, o)
          = IF HighTag(in[o]) /\ (ends = {} \/ in[o + 1] = 128
                \/ (IF HighTag(in[o]) THEN last ELSE o) - o >= MaxBERTagSize)
            THEN Invalid
            ELSE [ok |-> TRUE, tag |-> SubSeq(in, o, IF HighTag(in[o]) THEN last ELSE o),
                  constructed |-> IsConstructed(in[o]),
                  next |-> (IF HighTag(in[o]) THEN last ELSE o) + 1]
    BY DEF ReadBERTag
  <2>7. e \in Int
    BY <1>1
  <2> HIDE DEF ends, e
  <2>8. \A i \in ends : (\A j \in ends : i <= j) => i = e
    <3> SUFFICES ASSUME NEW i \in ends, \A j \in ends : i <= j PROVE i = e
      OBVIOUS
    <3>1. i \in Int /\ i <= e /\ e <= i
      BY <2>3, <2>4, <2>5
    <3> QED BY <2>7, <3>1
  <2>9. last = e
    BY <2>3, <2>4, <2>8
  <2> HIDE DEF last
  <2>10. ends # {} /\ in[o + 1] # 128 /\ ~(e - o >= MaxBERTagSize)
    <3>1. MaxBERTagSize \in Nat
      BY BerAssumption
    <3>2. e - o = Len(s) - 1
      BY <1>1 DEF e
    <3> QED BY <1>1, <2>1, <2>2, <2>3, <3>1, <3>2
  <2>11. ReadBERTag(in, o) = [ok |-> TRUE, tag |-> SubSeq(in, o, e),
                              constructed |-> IsConstructed(in[o]), next |-> e + 1]
    BY <2>1, <2>6, <2>9, <2>10
  <2>12. e + 1 = o + Len(s)
    BY <1>1 DEF e
  <2>13. SubSeq(in, o, e) = s
    BY <1>3 DEF e
  <2> QED BY <1>2, <2>11, <2>12, <2>13 DEF TagRead
<1>6. Len(s) = 1 \/ Len(s) > 1
  <2>1. \A n \in Nat \ {0} : n = 1 \/ n > 1
    OBVIOUS
  <2> QED BY <1>1, <2>1, Zenon
<1> QED BY <1>4, <1>5, <1>6

\* Whatever is read as a tag is one.
LEMMA TagSound ==
    ASSUME NEW in \in Seq(Byte), NEW o \in 1 .. Len(in), ReadBERTag(in, o) # Invalid
    PROVE  \E s : Tag(s) /\ At(in, o, s) /\ ReadBERTag(in, o) = TagRead(s, o)
<1> DEFINE ends == {i \in o + 1 .. Len(in) : in[i] < 128}
           least == CHOOSE i \in ends : \A j \in ends : i <= j
           last == IF HighTag(in[o]) THEN least ELSE o
           s == SubSeq(in, o, last)
<1>1. ReadBERTag(in, o)
        = IF HighTag(in[o]) /\ (ends = {} \/ in[o + 1] = 128 \/ last - o >= MaxBERTagSize)
          THEN Invalid
          ELSE [ok |-> TRUE, tag |-> s, constructed |-> IsConstructed(in[o]), next |-> last + 1]
  BY DEF ReadBERTag
<1>2. /\ HighTag(in[o]) => ends # {} /\ in[o + 1] # 128 /\ ~(last - o >= MaxBERTagSize)
      /\ ReadBERTag(in, o)
           = [ok |-> TRUE, tag |-> s, constructed |-> IsConstructed(in[o]), next |-> last + 1]
  BY <1>1
<1>3. HighTag(in[o]) => least \in ends /\ \A j \in ends : least <= j
  <2> SUFFICES ASSUME HighTag(in[o]) PROVE least \in ends /\ \A j \in ends : least <= j
    OBVIOUS
  <2>1. ends # {} /\ ends \subseteq Nat
    BY <1>2
  <2> HIDE DEF ends
  <2>2. \E i \in ends : \A j \in ends : i <= j
    BY <2>1, LeastNumber
  <2> QED BY <2>2
<1>4. ends \subseteq o + 1 .. Len(in) /\ Len(in) \in Nat /\ MaxBERTagSize \in Nat
  BY BerAssumption
<1>5. last \in o .. Len(in) /\ (HighTag(in[o]) => last = least /\ last > o)
      /\ (~HighTag(in[o]) => last = o)
  <2> HIDE DEF ends, least
  <2>1. HighTag(in[o]) => least \in o + 1 .. Len(in)
    BY <1>3, <1>4
  <2> QED BY <2>1
<1> HIDE DEF last
<1>6. /\ s \in Seq(Byte) /\ Len(s) = last - o + 1 /\ At(in, o, s)
      /\ \A i \in 1 .. last - o + 1 : s[i] = in[o + i - 1]
  <2>1. o \in 1 .. Len(in) + 1 /\ last \in o - 1 .. Len(in)
    BY <1>4, <1>5
  <2> QED BY <2>1, AtPart
<1> HIDE DEF s
<1>7. s[1] = in[o] /\ Len(s) \in Nat \ {0}
  <2>1. Len(s) \in Nat \ {0} /\ 1 \in 1 .. last - o + 1 /\ o + 1 - 1 = o
    BY <1>5, <1>6
  <2>2. s[1] = in[o + 1 - 1]
    BY <1>6, <2>1
  <2> QED BY <2>1, <2>2
<1>8. CASE ~HighTag(in[o])
  <2>1. Len(s) = 1 /\ last + 1 = o + Len(s)
    BY <1>5, <1>6, <1>8
  <2>2. Tag(s)
    BY <1>6, <1>7, <1>8, <2>1 DEF Tag
  <2> QED BY <1>2, <1>6, <1>7, <2>1, <2>2 DEF TagRead
<1>9. CASE HighTag(in[o])
  <2>1. Len(s) > 1 /\ last + 1 = o + Len(s)
    BY <1>5, <1>6, <1>9
  <2>2. s[2] = in[o + 1]
    <3>1. s[2] = in[o + 2 - 1]
      BY <1>5, <1>6, <1>9
    <3> QED BY <3>1
  <2>3. s[Len(s)] < 128
    <3>1. o + Len(s) - 1 = last /\ Len(s) \in 1 .. last - o + 1
      BY <1>5, <1>6
    <3>2. s[Len(s)] = in[o + Len(s) - 1]
      BY <1>6, <3>1
    <3>3. in[last] < 128
      BY <1>3, <1>5, <1>9
    <3> QED BY <3>1, <3>2, <3>3
  <2>4. Len(s) <= MaxBERTagSize
    BY <1>2, <1>4, <1>5, <1>6, <1>9
  <2>5. ASSUME NEW i \in 2 .. Len(s) - 1 PROVE s[i] > 127
    <3> DEFINE j == o + i - 1
    <3>1. s[i] = in[j] /\ j \in o + 1 .. Len(in) /\ j < last
      BY <1>4, <1>5, <1>6
    <3>2. j \notin ends
      <4> HIDE DEF ends, j
      <4>1. \A k \in ends : last <= k
        BY <1>3, <1>5, <1>9
      <4>2. j \in Int /\ last \in Int
        BY <1>5, <3>1
      <4>3. ~(last <= j)
        BY <3>1, <4>2
      <4> QED BY <4>1, <4>3
    <3>3. ~(in[j] < 128)
      BY <3>1, <3>2
    <3>4. in[j] \in Byte
      BY <3>1
    <3>5. in[j] \in Nat
      BY <3>4, BytesAreNumbers
    <3> QED BY <3>1, <3>3, <3>5
  <2>6. Len(s) # 1
    <3>1. \A n \in Nat \ {0} : n > 1 => n # 1
      OBVIOUS
    <3> QED BY <1>7, <2>1, <3>1, Zenon
  <2>7. Tag(s)
    BY <1>2, <1>6, <1>7, <1>9, <2>2, <2>3, <2>4, <2>5, <2>6 DEF Tag
  <2> QED BY <1>2, <1>6, <1>7, <2>1, <2>7 DEF TagRead
<1> QED BY <1>8, <1>9
-----------------------------------------------------------------------------
(* BER: what is read at each position *)

\* The results of readBERObject: the end mark, and an object.  And of
\* readBERConstructed's loop.
Mark(n) == [ok |-> TRUE, eoc |-> TRUE, next |-> n]
Read(d, n) == [ok |-> TRUE, eoc |-> FALSE, der |-> d, next |-> n]
Kids(c, n) == [ok |-> TRUE, content |-> c, next |-> n]

\* The fields of what the reader returns.
LEMMA Fields ==
    ASSUME NEW n, NEW d
    PROVE  /\ Mark(n).ok /\ Mark(n).eoc /\ Mark(n).next = n
           /\ Read(d, n).ok /\ ~Read(d, n).eoc /\ Read(d, n).der = d /\ Read(d, n).next = n
           /\ Kids(d, n).ok /\ Kids(d, n).content = d /\ Kids(d, n).next = n
           /\ Length(d, n).ok /\ Length(d, n).length = d /\ Length(d, n).next = n
           /\ ~Invalid.ok
  BY DEF Mark, Read, Kids, Length, Invalid

\* What there can be at o.
Result(in, o, r) ==
    \/ r = Invalid
    \/ r = Mark(o + 2) /\ o < Len(in) /\ in[o] = 0 /\ in[o + 1] = 0
    \/ \E d : \E n \in o + 1 .. Len(in) + 1 : r = Read(d, n)

Forward(in, deeper) == \A o \in 1 .. Len(in) + 1 : Result(in, o, deeper[o])

\* The children from o on, given those after the next one.
Grown(d, r) ==
    IF ~r.ok \/ Len(d) + Len(r.content) > MaxBERSize THEN Invalid
    ELSE [ok |-> TRUE, content |-> d \o r.content, next |-> r.next]

RestAt(w, in, deeper, end, o) ==
    IF end # 0 /\ o = end THEN [ok |-> TRUE, content |-> <<>>, next |-> o]
    ELSE IF (end # 0 /\ o > end) \/ o > Len(in) THEN Invalid
    ELSE IF ~deeper[o].ok \/ (deeper[o].eoc /\ end # 0) THEN Invalid
    ELSE IF deeper[o].eoc THEN [ok |-> TRUE, content |-> <<>>, next |-> deeper[o].next]
    ELSE Grown(deeper[o].der, w[deeper[o].next])

IsRest(w, in, deeper, end) ==
    w = [o \in 1 .. Len(in) + 1 |-> RestAt(w, in, deeper, end, o)]

\* What the loop of readBERConstructed does at one position.
LEMMA RestCases ==
    ASSUME NEW w, NEW in, NEW deeper, NEW end, NEW o, NEW r, r = RestAt(w, in, deeper, end, o)
    PROVE  /\ end # 0 /\ o = end => r = Kids(<<>>, o)
           /\ ~(end # 0 /\ o = end) /\ ((end # 0 /\ o > end) \/ o > Len(in)) => r = Invalid
           /\ ~(end # 0 /\ o = end) /\ deeper[o] = Invalid => r = Invalid
           /\ ~(end # 0 /\ o = end) /\ end # 0 /\ (\E n : deeper[o] = Mark(n)) => r = Invalid
           /\ \A n : end = 0 /\ ~(o > Len(in)) /\ deeper[o] = Mark(n) => r = Kids(<<>>, n)
           /\ \A d, n : ~(end # 0 /\ (o = end \/ o > end)) /\ ~(o > Len(in)) /\ deeper[o] = Read(d, n)
                            => r = Grown(d, w[n])
<1>1. end # 0 /\ o = end => r = Kids(<<>>, o)
  BY DEF RestAt, Kids
<1>2. ~(end # 0 /\ o = end) /\ ((end # 0 /\ o > end) \/ o > Len(in)) => r = Invalid
  BY DEF RestAt
<1>3. ~(end # 0 /\ o = end) /\ deeper[o] = Invalid => r = Invalid
  BY Fields DEF RestAt
<1>4. ASSUME ~(end # 0 /\ o = end), end # 0, NEW n, deeper[o] = Mark(n) PROVE r = Invalid
  BY <1>4, Fields DEF RestAt
<1>5. ASSUME NEW n, end = 0, ~(o > Len(in)), deeper[o] = Mark(n) PROVE r = Kids(<<>>, n)
  <2>1. deeper[o].ok /\ deeper[o].eoc /\ deeper[o].next = n
    BY <1>5, Fields
  <2> QED BY <1>5, <2>1 DEF RestAt, Kids
<1>6. ASSUME NEW d, NEW n, ~(end # 0 /\ (o = end \/ o > end)), ~(o > Len(in)), deeper[o] = Read(d, n)
      PROVE  r = Grown(d, w[n])
  <2>1. deeper[o].ok /\ ~deeper[o].eoc /\ deeper[o].next = n /\ deeper[o].der = d
    BY <1>6, Fields
  <2> QED BY <1>6, <2>1 DEF RestAt
<1> QED BY <1>1, <1>2, <1>3, <1>4, <1>5, <1>6

\* Contents with one more object in front of them.
LEMMA GrownKids ==
    ASSUME NEW d, NEW c, NEW n
    PROVE  /\ Grown(d, Invalid) = Invalid
           /\ Grown(d, Kids(c, n))
                = IF Len(d) + Len(c) > MaxBERSize THEN Invalid ELSE Kids(d \o c, n)
<1>1. Grown(d, Invalid) = Invalid
  BY Fields DEF Grown
<1>2. Kids(c, n).ok /\ Kids(c, n).content = c /\ Kids(c, n).next = n
  BY Fields
<1> QED BY <1>1, <1>2 DEF Grown, Kids

SameAfter(v, w, in, o) == \A n \in o + 1 .. Len(in) + 1 : v[n] = w[n]

\* What is read from o on depends on what is read after it.
LEMMA RestDepends ==
    ASSUME NEW v, NEW w, NEW in \in Seq(Byte), NEW deeper, Forward(in, deeper), NEW end,
           NEW o \in 1 .. Len(in) + 1, SameAfter(v, w, in, o)
    PROVE  RestAt(v, in, deeper, end, o) = RestAt(w, in, deeper, end, o)
<1> DEFINE r == RestAt(v, in, deeper, end, o)
           s == RestAt(w, in, deeper, end, o)
<1> HIDE DEF r, s
<1>1. Result(in, o, deeper[o])
  BY DEF Forward
<1>2. CASE deeper[o] = Invalid
  BY <1>2, Fields DEF RestAt
<1>3. ASSUME NEW n, deeper[o] = Mark(n) PROVE RestAt(v, in, deeper, end, o) = RestAt(w, in, deeper, end, o)
  <2>1. deeper[o].ok /\ deeper[o].eoc
    BY <1>3, Fields
  <2> QED BY <2>1 DEF RestAt
<1>4. ASSUME NEW d, NEW n \in o + 1 .. Len(in) + 1, deeper[o] = Read(d, n)
      PROVE  RestAt(v, in, deeper, end, o) = RestAt(w, in, deeper, end, o)
  <2>1. deeper[o].next = n
    BY <1>4, Fields
  <2>2. v[n] = w[n]
    BY DEF SameAfter
  <2> QED BY <2>1, <2>2 DEF RestAt
<1> QED BY <1>1, <1>2, <1>3, <1>4 DEF Result

\* The loop has a result at each position: every object ends later than it starts.
LEMMA RestExists ==
    ASSUME NEW in \in Seq(Byte), NEW deeper, Forward(in, deeper), NEW end
    PROVE  \E w : IsRest(w, in, deeper, end)
<1> DEFINE L == Len(in) + 1
           From(w, k) == \A o \in 1 .. L : o > L - k => w[o] = RestAt(w, in, deeper, end, o)
           S == {k \in Nat : \E w : From(w, k)}
<1>0. L \in Nat
  OBVIOUS
<1> HIDE DEF L
<1>1. 0 \in S
  <2>1. \A o \in 1 .. L : ~(o > L - 0)
    BY <1>0
  <2> QED BY <2>1
<1>2. ASSUME NEW k \in Nat, k \in S PROVE k + 1 \in S
  <2>1. PICK w : From(w, k)
    BY <1>2
  <2> DEFINE x == [o \in 1 .. L |-> IF o > L - k THEN w[o] ELSE RestAt(w, in, deeper, end, o)]
  <2>2. ASSUME NEW o \in 1 .. L, o > L - (k + 1) PROVE x[o] = RestAt(x, in, deeper, end, o)
    <3>1. \A n \in o + 1 .. L : x[n] = w[n]
      BY <1>0, <2>2
    <3> HIDE DEF x
    <3>2. RestAt(x, in, deeper, end, o) = RestAt(w, in, deeper, end, o)
      <4>1. o \in 1 .. Len(in) + 1 /\ SameAfter(x, w, in, o)
        BY <3>1 DEF L, SameAfter
      <4> QED BY <4>1, RestDepends
    <3>3. CASE o > L - k
      BY <2>1, <3>2, <3>3 DEF x
    <3>4. CASE ~(o > L - k)
      BY <3>2, <3>4 DEF x
    <3> QED BY <3>3, <3>4
  <2> HIDE DEF x
  <2>3. From(x, k + 1)
    BY <2>2
  <2> QED BY <2>3
<1> HIDE DEF S
<1>3. Nat \subseteq S
  BY <1>1, <1>2, NaturalInduction
<1>4. PICK w : From(w, L)
  BY <1>0, <1>3 DEF S
<1>5. \A o \in 1 .. L : w[o] = RestAt(w, in, deeper, end, o)
  BY <1>0, <1>4
<1> DEFINE x == [o \in 1 .. L |-> w[o]]
<1>6. ASSUME NEW o \in 1 .. L PROVE x[o] = RestAt(x, in, deeper, end, o)
  <2>1. \A n \in o + 1 .. L : x[n] = w[n]
    BY <1>0
  <2> HIDE DEF x
  <2>2. RestAt(x, in, deeper, end, o) = RestAt(w, in, deeper, end, o)
    <3>1. o \in 1 .. Len(in) + 1 /\ SameAfter(x, w, in, o)
      BY <2>1 DEF L, SameAfter
    <3> QED BY <3>1, RestDepends
  <2> QED BY <1>5, <2>2 DEF x
<1>7. x = [o \in 1 .. L |-> RestAt(x, in, deeper, end, o)]
  BY <1>6
<1> HIDE DEF x
<1>8. IsRest(x, in, deeper, end)
  BY <1>7 DEF IsRest, L
<1> QED BY <1>8

\* What ReadBERChildren computes.
LEMMA ChildrenUnfold ==
    ASSUME NEW in \in Seq(Byte), NEW deeper, Forward(in, deeper), NEW end, NEW start
    PROVE  \E w : IsRest(w, in, deeper, end) /\ ReadBERChildren(in, deeper, start, end) = w[start]
<1> DEFINE Same(w) ==
        w = [o \in 1 .. Len(in) + 1 |->
                IF end # 0 /\ o = end THEN [ok |-> TRUE, content |-> <<>>, next |-> o]
                ELSE IF (end # 0 /\ o > end) \/ o > Len(in) THEN Invalid
                ELSE IF ~deeper[o].ok \/ (deeper[o].eoc /\ end # 0) THEN Invalid
                ELSE IF deeper[o].eoc
                THEN [ok |-> TRUE, content |-> <<>>, next |-> deeper[o].next]
                ELSE IF ~w[deeper[o].next].ok
                        \/ Len(deeper[o].der) + Len(w[deeper[o].next].content) > MaxBERSize
                THEN Invalid
                ELSE [ok |-> TRUE, content |-> deeper[o].der \o w[deeper[o].next].content,
                      next |-> w[deeper[o].next].next]]
           rest == CHOOSE w : Same(w)
<1>1. ReadBERChildren(in, deeper, start, end) = rest[start]
  BY DEF ReadBERChildren
<1>2. \A w : IsRest(w, in, deeper, end) <=> Same(w)
  BY DEF IsRest, RestAt, Grown
<1> HIDE DEF Same
<1>3. Same(rest)
  BY <1>2, RestExists
<1> HIDE DEF rest
<1> QED BY <1>1, <1>2, <1>3

\* Induction from the last position back.
LEMMA Descending ==
    ASSUME NEW L \in Nat, NEW S, \A o \in 1 .. L : (\A n \in o + 1 .. L : n \in S) => o \in S
    PROVE  1 .. L \subseteq S
<1> DEFINE T == {k \in Nat : \A o \in 1 .. L : o > L - k => o \in S}
<1>1. 0 \in T
  OBVIOUS
<1>2. ASSUME NEW k \in Nat, k \in T PROVE k + 1 \in T
  <2> SUFFICES ASSUME NEW o \in 1 .. L, o > L - (k + 1) PROVE o \in S
    OBVIOUS
  <2>1. \A n \in o + 1 .. L : n \in S
    BY <1>2
  <2> QED BY <2>1
<1> HIDE DEF T
<1>3. L \in T
  BY <1>1, <1>2, NaturalInduction
<1> QED BY <1>3 DEF T

\* The children, if any are read, end no earlier than they start.
LEMMA RestForward ==
    ASSUME NEW in \in Seq(Byte), NEW deeper, Forward(in, deeper), NEW end, NEW w,
           IsRest(w, in, deeper, end), NEW o \in 1 .. Len(in) + 1
    PROVE  w[o] = Invalid \/ \E c : \E n \in o .. Len(in) + 1 : w[o] = Kids(c, n)
<1> DEFINE L == Len(in) + 1
           Good(p) == w[p] = Invalid \/ \E c : \E n \in p .. L : w[p] = Kids(c, n)
           S == {p \in 1 .. L : Good(p)}
<1>0. L \in Nat /\ L = Len(in) + 1 /\ Len(in) \in Nat
  OBVIOUS
<1> HIDE DEF L
<1>1. ASSUME NEW p \in 1 .. L, \A n \in p + 1 .. L : n \in S PROVE Good(p)
  <2> DEFINE r == RestAt(w, in, deeper, end, p)
  <2>1. w[p] = r
    BY <1>0 DEF IsRest
  <2> HIDE DEF r
  <2>2. /\ end # 0 /\ p = end => r = Kids(<<>>, p)
        /\ ~(end # 0 /\ p = end) /\ ((end # 0 /\ p > end) \/ p > Len(in)) => r = Invalid
        /\ ~(end # 0 /\ p = end) /\ deeper[p] = Invalid => r = Invalid
        /\ ~(end # 0 /\ p = end) /\ end # 0 /\ (\E n : deeper[p] = Mark(n)) => r = Invalid
        /\ \A n : end = 0 /\ ~(p > Len(in)) /\ deeper[p] = Mark(n) => r = Kids(<<>>, n)
        /\ \A d, n : ~(end # 0 /\ (p = end \/ p > end)) /\ ~(p > Len(in)) /\ deeper[p] = Read(d, n)
                            => r = Grown(d, w[n])
    BY RestCases DEF r
  <2>3. p \in p .. L
    BY <1>0
  <2>4. Result(in, p, deeper[p])
    BY <1>0 DEF Forward
  <2>5. ASSUME deeper[p] = Mark(p + 2), p < Len(in), end = 0, ~(p > Len(in)) PROVE Good(p)
    <3>1. p + 2 \in p .. L /\ r = Kids(<<>>, p + 2)
      BY <1>0, <2>2, <2>5
    <3> QED BY <2>1, <3>1
  <2>6. ASSUME NEW d, NEW n \in p + 1 .. L, deeper[p] = Read(d, n), r = Grown(d, w[n]) PROVE Good(p)
    <3>1. Good(n)
      BY <1>1
    <3>2. CASE w[n] = Invalid
      BY <2>1, <2>6, <3>2, GrownKids
    <3>3. ASSUME NEW c, NEW e \in n .. L, w[n] = Kids(c, e) PROVE Good(p)
      <4>1. e \in p .. L
        BY <1>0
      <4>2. r = Invalid \/ r = Kids(d \o c, e)
        BY <2>6, <3>3, GrownKids
      <4> QED BY <2>1, <4>1, <4>2
    <3> QED BY <3>1, <3>2, <3>3
  <2>7. CASE p > Len(in)
    BY <2>1, <2>2, <2>3, <2>7
  <2>8. CASE ~(p > Len(in)) /\ end # 0 /\ (p = end \/ p > end)
    BY <2>1, <2>2, <2>3, <2>8
  <2>9. CASE ~(p > Len(in)) /\ ~(end # 0 /\ (p = end \/ p > end))
    <3>1. CASE deeper[p] = Invalid
      BY <2>1, <2>2, <2>9, <3>1
    <3>2. CASE deeper[p] = Mark(p + 2) /\ p < Len(in)
      BY <2>1, <2>2, <2>5, <2>9, <3>2
    <3>3. ASSUME NEW d, NEW n \in p + 1 .. L, deeper[p] = Read(d, n) PROVE Good(p)
      BY <2>2, <2>6, <2>9, <3>3
    <3> QED BY <1>0, <2>4, <3>1, <3>2, <3>3 DEF Result
  <2> QED BY <2>7, <2>8, <2>9
<1> HIDE DEF Good
<1>2. \A p \in 1 .. L : (\A n \in p + 1 .. L : n \in S) => p \in S
  BY <1>1
<1> HIDE DEF S
<1>3. o \in S
  BY <1>0, <1>2, Descending, ZenonT(60)
<1> QED BY <1>0, <1>3 DEF S, Good
-----------------------------------------------------------------------------
(* Objects *)

\* What is made of a tag and a length.
Opening(in, deeper, s, b, k) ==
    IF IsConstructed(s[1]) THEN ReadBERConstructed(in, deeper, s, b, k)
    ELSE IF k = -1 \/ k > Len(in) - b + 1 THEN Invalid
    ELSE Read(EncodeDERObject(s, SubSeq(in, b, b + k - 1)), b + k)

\* An object whose tag and length are read is opened.
LEMMA BodyUnfold ==
    ASSUME NEW in, NEW deeper, NEW o, NEW s, NEW n, NEW b,
           ReadBERTag(in, o) = TagRead(s, o), ReadBERLength(in, o + Len(s)) = Length(n, b)
    PROVE  ReadBERBody(in, deeper, o) = Opening(in, deeper, s, b, n)
<1> DEFINE t == ReadBERTag(in, o)
           l == ReadBERLength(in, t.next)
<1>1. ReadBERBody(in, deeper, o) =
        IF ~t.ok \/ ~l.ok THEN Invalid
        ELSE IF t.constructed THEN ReadBERConstructed(in, deeper, t.tag, l.next, l.length)
        ELSE IF l.length = -1 \/ l.length > Len(in) - l.next + 1 THEN Invalid
        ELSE [ok |-> TRUE, eoc |-> FALSE, next |-> l.next + l.length,
              der |-> EncodeDERObject(t.tag, SubSeq(in, l.next, l.next + l.length - 1))]
  BY DEF ReadBERBody
<1>2. t.ok /\ t.tag = s /\ (t.constructed <=> IsConstructed(s[1])) /\ t.next = o + Len(s)
  BY DEF TagRead
<1> HIDE DEF t
<1>3. l.ok /\ l.length = n /\ l.next = b
  BY <1>2, Fields
<1> HIDE DEF l
<1>4. ReadBERBody(in, deeper, o) =
        IF IsConstructed(s[1]) THEN ReadBERConstructed(in, deeper, s, b, n)
        ELSE IF n = -1 \/ n > Len(in) - b + 1 THEN Invalid
        ELSE [ok |-> TRUE, eoc |-> FALSE, next |-> b + n,
              der |-> EncodeDERObject(s, SubSeq(in, b, b + n - 1))]
  BY <1>1, <1>2, <1>3
<1> QED BY <1>4 DEF Read, Opening

\* One whose tag or length is not read is refused.
LEMMA BodyInvalid ==
    ASSUME NEW in, NEW deeper, NEW o,
           \/ ReadBERTag(in, o) = Invalid
           \/ \E s : ReadBERTag(in, o) = TagRead(s, o) /\ ReadBERLength(in, o + Len(s)) = Invalid
    PROVE  ReadBERBody(in, deeper, o) = Invalid
<1> DEFINE t == ReadBERTag(in, o)
           l == ReadBERLength(in, t.next)
<1>1. ~t.ok \/ ~l.ok
  <2>1. CASE t = Invalid
    BY <2>1, Fields
  <2>2. ASSUME NEW s, t = TagRead(s, o), ReadBERLength(in, o + Len(s)) = Invalid PROVE ~l.ok
    <3>1. t.next = o + Len(s)
      BY <2>2 DEF TagRead
    <3> HIDE DEF t
    <3> QED BY <2>2, <3>1, Fields
  <2> QED BY <2>1, <2>2
<1> QED BY <1>1 DEF ReadBERBody

\* What readBERConstructed makes of what its loop has read.
LEMMA ConstructedUnfold ==
    ASSUME NEW in \in Seq(Byte), NEW deeper, Forward(in, deeper), NEW s, NEW b, NEW n,
           NEW end, end = IF n = -1 THEN 0 ELSE b + n
    PROVE  \E w : /\ IsRest(w, in, deeper, end)
                  /\ ReadBERConstructed(in, deeper, s, b, n) =
                        IF n > Len(in) - b + 1 \/ ~w[b].ok THEN Invalid
                        ELSE Read(EncodeDERObject(s, w[b].content), w[b].next)
<1>1. PICK w : IsRest(w, in, deeper, end) /\ ReadBERChildren(in, deeper, b, end) = w[b]
  BY ChildrenUnfold
<1>2. ReadBERConstructed(in, deeper, s, b, n) =
        IF n > Len(in) - b + 1 \/ ~w[b].ok THEN Invalid
        ELSE [ok |-> TRUE, eoc |-> FALSE, der |-> EncodeDERObject(s, w[b].content),
              next |-> w[b].next]
  BY <1>1 DEF ReadBERConstructed
<1> QED BY <1>1, <1>2 DEF Read

\* How an object that is read starts: with a tag and a length.  If it is not
\* constructed it has the bytes it says.
LEMMA BodySound ==
    ASSUME NEW in \in Seq(Byte), Len(in) <= MaxBERSize, NEW deeper, Forward(in, deeper),
           NEW o \in 1 .. Len(in), ReadBERBody(in, deeper, o) # Invalid
    PROVE  \E s : /\ Tag(s) /\ At(in, o, s)
                  /\ \/ \E n \in Nat, b \in Nat \ {0} :
                            /\ Small(n) /\ At(in, o + Len(s), DerLength(n))
                            /\ b = o + Len(s) + Len(DerLength(n)) /\ b + n <= Len(in) + 1
                            /\ \/ /\ ~IsConstructed(s[1])
                                  /\ ReadBERBody(in, deeper, o) =
                                        Read(EncodeDERObject(s, SubSeq(in, b, b + n - 1)), b + n)
                               \/ /\ IsConstructed(s[1])
                                  /\ \E w, c : \E e \in b .. Len(in) + 1 :
                                        /\ IsRest(w, in, deeper, b + n) /\ w[b] = Kids(c, e)
                                        /\ ReadBERBody(in, deeper, o) = Read(EncodeDERObject(s, c), e)
                     \/ /\ o + Len(s) <= Len(in) /\ in[o + Len(s)] = 128 /\ IsConstructed(s[1])
                        /\ \E w, c : \E e \in o + Len(s) + 1 .. Len(in) + 1 :
                                /\ IsRest(w, in, deeper, 0) /\ w[o + Len(s) + 1] = Kids(c, e)
                                /\ ReadBERBody(in, deeper, o) = Read(EncodeDERObject(s, c), e)
<1> DEFINE r == ReadBERBody(in, deeper, o)
<1>1. ReadBERTag(in, o) # Invalid
  BY BodyInvalid
<1>2. PICK s : Tag(s) /\ At(in, o, s) /\ ReadBERTag(in, o) = TagRead(s, o)
  BY <1>1, TagSound
<1> DEFINE q == o + Len(s)
           l == ReadBERLength(in, q)
<1>3. q \in Nat \ {0} /\ Len(in) \in Nat /\ Len(s) \in Nat \ {0}
  <2>1. Len(s) \in Nat \ {0}
    BY <1>2 DEF Tag
  <2> QED BY <2>1
<1>4. l # Invalid
  BY <1>2, BodyInvalid
<1> HIDE DEF r, q, l
<1>5. /\ q <= Len(in)
      /\ \/ in[q] = 128 /\ l = Length(-1, q + 1)
         \/ \E n \in Nat : Small(n) /\ At(in, q, DerLength(n)) /\ l = Length(n, q + Len(DerLength(n)))
         \/ \E n \in Nat, e \in Nat \ {0} : ~Small(n) /\ l = Length(n, e)
  BY <1>3, <1>4, LengthSound DEF l
<1>6. \A n, b : l = Length(n, b) =>
        r = IF IsConstructed(s[1]) THEN ReadBERConstructed(in, deeper, s, b, n)
            ELSE IF n = -1 \/ n > Len(in) - b + 1 THEN Invalid
            ELSE Read(EncodeDERObject(s, SubSeq(in, b, b + n - 1)), b + n)
  <2>1. \A n, b : l = Length(n, b) => r = Opening(in, deeper, s, b, n)
    BY <1>2, BodyUnfold, Zenon DEF l, q, r
  <2> QED BY <2>1 DEF Opening
<1>7. r # Invalid
  BY DEF r
<1>8. ASSUME NEW n, NEW b \in 1 .. Len(in) + 1, l = Length(n, b), IsConstructed(s[1]), NEW end,
             end = IF n = -1 THEN 0 ELSE b + n
      PROVE  /\ ~(n > Len(in) - b + 1)
             /\ \E w, c : \E e \in b .. Len(in) + 1 :
                    IsRest(w, in, deeper, end) /\ w[b] = Kids(c, e) /\ r = Read(EncodeDERObject(s, c), e)
  <2>1. r = ReadBERConstructed(in, deeper, s, b, n)
    BY <1>6, <1>8
  <2>2. PICK w : /\ IsRest(w, in, deeper, end)
                 /\ r = IF n > Len(in) - b + 1 \/ ~w[b].ok THEN Invalid
                        ELSE Read(EncodeDERObject(s, w[b].content), w[b].next)
    BY <1>8, <2>1, ConstructedUnfold
  <2>3. ~(n > Len(in) - b + 1) /\ w[b].ok
    BY <1>7, <2>2
  <2>4. w[b] # Invalid
    BY <2>3, Fields
  <2>5. PICK c : \E e \in b .. Len(in) + 1 : w[b] = Kids(c, e)
    BY <2>2, <2>4, RestForward
  <2>6. PICK e \in b .. Len(in) + 1 : w[b] = Kids(c, e)
    BY <2>5
  <2>7. r = Read(EncodeDERObject(s, c), e)
    BY <2>2, <2>3, <2>6, Fields
  <2> QED BY <2>2, <2>3, <2>6, <2>7
<1>9. CASE in[q] = 128 /\ l = Length(-1, q + 1)
  <2>1. IsConstructed(s[1])
    BY <1>6, <1>7, <1>9
  <2>2. q + 1 \in 1 .. Len(in) + 1
    BY <1>3, <1>5
  <2>3. \E w, c : \E e \in q + 1 .. Len(in) + 1 :
            IsRest(w, in, deeper, 0) /\ w[q + 1] = Kids(c, e) /\ r = Read(EncodeDERObject(s, c), e)
    BY <1>8, <1>9, <2>1, <2>2
  <2> QED BY <1>2, <1>5, <1>9, <2>1, <2>3 DEF q, r
<1>10. ASSUME NEW n \in Nat, Small(n), At(in, q, DerLength(n)), l = Length(n, q + Len(DerLength(n)))
       PROVE  \/ \E m \in Nat, b \in Nat \ {0} :
                    /\ Small(m) /\ At(in, q, DerLength(m))
                    /\ b = q + Len(DerLength(m)) /\ b + m <= Len(in) + 1
                    /\ \/ /\ ~IsConstructed(s[1])
                          /\ r = Read(EncodeDERObject(s, SubSeq(in, b, b + m - 1)), b + m)
                       \/ /\ IsConstructed(s[1])
                          /\ \E w, c : \E e \in b .. Len(in) + 1 :
                                /\ IsRest(w, in, deeper, b + m) /\ w[b] = Kids(c, e)
                                /\ r = Read(EncodeDERObject(s, c), e)
  <2> DEFINE d == DerLength(n)
             b == q + Len(d)
  <2>1. Len(d) \in 1 .. 4
    BY DerLengthType
  <2> HIDE DEF d
  <2>2. b \in 1 .. Len(in) + 1 /\ b \in Nat \ {0}
    BY <1>3, <1>10, <2>1 DEF At, d
  <2> HIDE DEF b
  <2>3. l = Length(n, b) /\ n # -1
    BY <1>10 DEF b, d
  <2>4. CASE ~IsConstructed(s[1])
    <3>1. ~(n > Len(in) - b + 1) /\ r = Read(EncodeDERObject(s, SubSeq(in, b, b + n - 1)), b + n)
      BY <1>6, <1>7, <2>3, <2>4
    <3>2. b + n <= Len(in) + 1
      BY <1>3, <2>2, <3>1
    <3> QED BY <1>10, <2>2, <2>4, <3>1, <3>2 DEF b, d
  <2>5. CASE IsConstructed(s[1])
    <3>1. /\ ~(n > Len(in) - b + 1)
          /\ \E w, c : \E e \in b .. Len(in) + 1 :
                IsRest(w, in, deeper, b + n) /\ w[b] = Kids(c, e) /\ r = Read(EncodeDERObject(s, c), e)
      BY <1>8, <2>2, <2>3, <2>5
    <3>2. b + n <= Len(in) + 1
      BY <1>3, <2>2, <3>1
    <3> QED BY <1>10, <2>2, <2>5, <3>1, <3>2 DEF b, d
  <2> QED BY <2>4, <2>5
<1>11. ASSUME NEW n \in Nat, NEW e \in Nat \ {0}, ~Small(n), l = Length(n, e) PROVE FALSE
  <2>1. n > Len(in) - e + 1
    <3>1. n \in Nat /\ ~(n < 256 * 65536)
      BY <1>11 DEF Small
    <3>2. MaxBERSize \in Nat /\ MaxBERSize < 256 * 65536
      BY BerAssumption
    <3> QED BY <1>3, <3>1, <3>2, SMT
  <2>2. r = Invalid
    <3>1. CASE ~IsConstructed(s[1])
      BY <1>6, <1>11, <2>1, <3>1
    <3>2. CASE IsConstructed(s[1])
      <4>1. r = ReadBERConstructed(in, deeper, s, e, n)
        BY <1>6, <1>11, <3>2
      <4>2. \E end : end = IF n = -1 THEN 0 ELSE e + n
        OBVIOUS
      <4> QED BY <2>1, <4>1, <4>2, ConstructedUnfold
    <3> QED BY <3>1, <3>2
  <2> QED BY <1>7, <2>2
<1> QED BY <1>2, <1>5, <1>9, <1>10, <1>11 DEF q, r
-----------------------------------------------------------------------------
(* BER: one level *)

IsMark(in, o) == o < Len(in) /\ in[o] = 0 /\ in[o + 1] = 0

\* An object, the end mark, or nothing (readBERObject).
LEMMA ObjectUnfold ==
    ASSUME NEW in, NEW deeper, NEW o
    PROVE  ReadBERObject(in, deeper, o) =
                IF o > Len(in) THEN Invalid
                ELSE IF IsMark(in, o) THEN Mark(o + 2) ELSE ReadBERBody(in, deeper, o)
  BY DEF ReadBERObject, IsMark, Mark

\* An object, or the end mark, ends later than it starts.
LEMMA ObjectForward ==
    ASSUME NEW in \in Seq(Byte), Len(in) <= MaxBERSize, NEW deeper, Forward(in, deeper),
           NEW o \in 1 .. Len(in) + 1
    PROVE  Result(in, o, ReadBERObject(in, deeper, o))
<1> DEFINE r == ReadBERObject(in, deeper, o)
           b == ReadBERBody(in, deeper, o)
<1>0. Len(in) \in Nat
  OBVIOUS
<1>1. CASE o > Len(in)
  BY <1>1, ObjectUnfold DEF Result
<1>2. CASE ~(o > Len(in)) /\ IsMark(in, o)
  BY <1>2, ObjectUnfold DEF Result, IsMark
<1>3. CASE ~(o > Len(in)) /\ ~IsMark(in, o)
  <2>1. r = b
    BY <1>3, ObjectUnfold
  <2> HIDE DEF r, b
  <2>2. CASE b = Invalid
    BY <2>1, <2>2 DEF Result, r
  <2>3. CASE b # Invalid
    <3>0. o \in 1 .. Len(in)
      BY <1>0, <1>3
    <3>1. PICK s : /\ Tag(s) /\ At(in, o, s)
                   /\ \/ \E n \in Nat, e \in Nat \ {0} :
                            /\ Small(n) /\ At(in, o + Len(s), DerLength(n))
                            /\ e = o + Len(s) + Len(DerLength(n)) /\ e + n <= Len(in) + 1
                            /\ \/ /\ ~IsConstructed(s[1])
                                  /\ b = Read(EncodeDERObject(s, SubSeq(in, e, e + n - 1)), e + n)
                               \/ /\ IsConstructed(s[1])
                                  /\ \E w, c : \E f \in e .. Len(in) + 1 :
                                        /\ IsRest(w, in, deeper, e + n) /\ w[e] = Kids(c, f)
                                        /\ b = Read(EncodeDERObject(s, c), f)
                      \/ /\ o + Len(s) <= Len(in) /\ in[o + Len(s)] = 128 /\ IsConstructed(s[1])
                         /\ \E w, c : \E f \in o + Len(s) + 1 .. Len(in) + 1 :
                                /\ IsRest(w, in, deeper, 0) /\ w[o + Len(s) + 1] = Kids(c, f)
                                /\ b = Read(EncodeDERObject(s, c), f)
      BY <2>3, <3>0, BodySound DEF b
    <3>2. Len(s) \in Nat \ {0}
      BY <3>1 DEF Tag
    <3>3. ASSUME NEW d, NEW f \in Nat, f > o, f <= Len(in) + 1, b = Read(d, f) PROVE Result(in, o, r)
      <4>1. f \in o + 1 .. Len(in) + 1
        BY <1>0, <3>3
      <4> QED BY <2>1, <3>3, <4>1 DEF Result
    <3>4. ASSUME NEW n \in Nat, NEW e \in Nat \ {0}, e = o + Len(s) + Len(DerLength(n)),
                 e + n <= Len(in) + 1,
                 \/ b = Read(EncodeDERObject(s, SubSeq(in, e, e + n - 1)), e + n)
                 \/ \E c : \E f \in e .. Len(in) + 1 : b = Read(EncodeDERObject(s, c), f)
          PROVE  Result(in, o, r)
      <4>1. Len(DerLength(n)) \in 1 .. 4
        BY DerLengthType
      <4>2. e > o /\ e + n \in Nat /\ e + n > o
        BY <3>0, <3>2, <3>4, <4>1
      <4>3. CASE b = Read(EncodeDERObject(s, SubSeq(in, e, e + n - 1)), e + n)
        BY <3>3, <3>4, <4>2, <4>3
      <4>4. ASSUME NEW c, NEW f \in e .. Len(in) + 1, b = Read(EncodeDERObject(s, c), f)
            PROVE  Result(in, o, r)
        <5>1. f \in Nat /\ f > o /\ f <= Len(in) + 1
          BY <1>0, <4>2
        <5> QED BY <3>3, <4>4, <5>1
      <4> QED BY <3>4, <4>3, <4>4
    <3>5. ASSUME NEW c, NEW f \in o + Len(s) + 1 .. Len(in) + 1, b = Read(EncodeDERObject(s, c), f)
          PROVE  Result(in, o, r)
      <4>1. f \in Nat /\ f > o /\ f <= Len(in) + 1
        BY <1>0, <3>0, <3>2
      <4> QED BY <3>3, <3>5, <4>1
    <3> QED BY <3>1, <3>4, <3>5 DEF r
  <2> QED BY <2>2, <2>3 DEF r
<1> QED BY <1>1, <1>2, <1>3
-----------------------------------------------------------------------------
(* All levels *)

LevelAt(w, in, up) ==
    [o \in 1 .. Len(in) + 1 |-> IF up = 0 THEN Invalid ELSE ReadBERObject(in, w[up - 1], o)]

IsLevels(w, in, n) == w = [up \in 0 .. n |-> LevelAt(w, in, up)]

\* There is a function of what is read on each level.
LEMMA LevelsExist ==
    ASSUME NEW in, NEW n \in Nat
    PROVE  \E w : IsLevels(w, in, n)
<1> DEFINE S == {k \in Nat : \E w : IsLevels(w, in, k)}
<1>1. 0 \in S
  <2> DEFINE w == [k \in 0 .. 0 |-> [o \in 1 .. Len(in) + 1 |-> Invalid]]
  <2>1. \A k \in 0 .. 0 : w[k] = LevelAt(w, in, k)
    BY DEF LevelAt
  <2>2. w = [k \in 0 .. 0 |-> w[k]]
    OBVIOUS
  <2> HIDE DEF w
  <2>3. IsLevels(w, in, 0)
    BY <2>1, <2>2 DEF IsLevels
  <2> QED BY <2>3
<1>2. ASSUME NEW k \in Nat, k \in S PROVE k + 1 \in S
  <2>1. PICK w : IsLevels(w, in, k)
    BY <1>2
  <2> DEFINE x == [i \in 0 .. k + 1 |-> IF i <= k THEN w[i] ELSE LevelAt(w, in, k + 1)]
  <2>2. \A i \in 0 .. k + 1 : x[i] = LevelAt(x, in, i)
    <3> SUFFICES ASSUME NEW i \in 0 .. k + 1 PROVE x[i] = LevelAt(x, in, i)
      OBVIOUS
    <3>1. i # 0 => x[i - 1] = w[i - 1]
      OBVIOUS
    <3> HIDE DEF x
    <3>2. LevelAt(x, in, i) = LevelAt(w, in, i)
      BY <3>1 DEF LevelAt
    <3>3. CASE i <= k
      BY <2>1, <3>2, <3>3 DEF IsLevels, x
    <3>4. CASE i = k + 1
      BY <3>2, <3>4 DEF x
    <3> QED BY <3>3, <3>4
  <2>3. x = [i \in 0 .. k + 1 |-> x[i]]
    OBVIOUS
  <2> HIDE DEF x
  <2>4. IsLevels(x, in, k + 1)
    BY <2>2, <2>3 DEF IsLevels
  <2> QED BY <2>4
<1> HIDE DEF S
<1>3. Nat \subseteq S
  BY <1>1, <1>2, NaturalInduction
<1> QED BY <1>3 DEF S

\* What BERObjects computes.
LEMMA BERObjectsUnfold ==
    ASSUME NEW in
    PROVE  \E w : IsLevels(w, in, MaxBERDepth + 1) /\ BERObjects(in) = w[MaxBERDepth + 1]
<1> DEFINE Same(w) ==
        w = [up \in 0 .. MaxBERDepth + 1 |->
                [o \in 1 .. Len(in) + 1 |->
                    IF up = 0 THEN Invalid ELSE ReadBERObject(in, w[up - 1], o)]]
           level == CHOOSE w : Same(w)
<1>1. BERObjects(in) = level[MaxBERDepth + 1]
  BY DEF BERObjects
<1>2. \A w : IsLevels(w, in, MaxBERDepth + 1) <=> Same(w)
  BY DEF IsLevels, LevelAt
<1> HIDE DEF Same
<1>3. MaxBERDepth + 1 \in Nat
  BY BerAssumption
<1>4. Same(level)
  BY <1>2, <1>3, LevelsExist
<1> HIDE DEF level
<1> QED BY <1>1, <1>2, <1>4

\* One level, from the one below.
LEMMA LevelIs ==
    ASSUME NEW in, NEW n \in Nat, NEW w, IsLevels(w, in, n), NEW up \in 0 .. n,
           NEW o \in 1 .. Len(in) + 1
    PROVE  w[up][o] = IF up = 0 THEN Invalid ELSE ReadBERObject(in, w[up - 1], o)
<1>1. w[up] = LevelAt(w, in, up)
  BY DEF IsLevels
<1> QED BY <1>1 DEF LevelAt

\* On each level, what is read ends later than it starts.
LEMMA LevelsForward ==
    ASSUME NEW in \in Seq(Byte), Len(in) <= MaxBERSize, NEW n \in Nat, NEW w, IsLevels(w, in, n),
           NEW up \in 0 .. n
    PROVE  Forward(in, w[up])
<1> DEFINE S == {k \in Nat : k <= n => Forward(in, w[k])}
<1>1. 0 \in S
  <2>1. 0 \in 0 .. n
    OBVIOUS
  <2>2. \A o \in 1 .. Len(in) + 1 : w[0][o] = Invalid
    BY <2>1, LevelIs
  <2> QED BY <2>2 DEF Forward, Result
<1>2. ASSUME NEW k \in Nat, k \in S PROVE k + 1 \in S
  <2> SUFFICES ASSUME k + 1 <= n, NEW o \in 1 .. Len(in) + 1 PROVE Result(in, o, w[k + 1][o])
    BY DEF Forward
  <2>1. k + 1 \in 0 .. n /\ k <= n /\ k + 1 # 0 /\ (k + 1) - 1 = k
    OBVIOUS
  <2>2. w[k + 1][o] = ReadBERObject(in, w[k], o)
    BY <2>1, LevelIs
  <2>3. Forward(in, w[k])
    BY <1>2, <2>1
  <2> QED BY <2>2, <2>3, ObjectForward
<1> HIDE DEF S
<1>3. Nat \subseteq S
  BY <1>1, <1>2, NaturalInduction
<1> QED BY <1>3 DEF S
-----------------------------------------------------------------------------
(* What the grammar has is read *)

Object(x) ==
    /\ x.ber \in Seq(Nat) /\ x.der \in Seq(Nat) /\ Len(x.ber) \in Nat \ {0}
    /\ x.depth \in Nat /\ x.size \in Nat /\ x.size < Len(x.der)

Contents(c) == c.ber \in Seq(Nat) /\ c.der \in Seq(Nat) /\ c.depth \in Int /\ c.depth >= -1

Expect(x, up, p) ==
    IF x.depth < up /\ x.size <= MaxBERSize THEN Read(x.der, p + Len(x.ber)) ELSE Invalid

ExpectKids(c, up, e) ==
    IF c.depth < up /\ Len(c.der) <= MaxBERSize THEN Kids(c.der, e) ELSE Invalid

\* Wherever the object is, it is read, unless it is too deep or too long.
ObjectReads(x) ==
    \A in \in Seq(Byte), n \in Nat : \A w : Len(in) <= MaxBERSize /\ IsLevels(w, in, n) =>
        \A up \in 0 .. n, p \in 1 .. Len(in) + 1 : At(in, p, x.ber) => w[up][p] = Expect(x, up, p)

\* Wherever the contents are, up to the end of their object.
ContentsRead(c) ==
    \A in \in Seq(Byte), n \in Nat : \A w : Len(in) <= MaxBERSize /\ IsLevels(w, in, n) =>
        \A up \in 0 .. n, end \in Nat, p \in 1 .. Len(in) + 1 : \A v, e :
            /\ IsRest(v, in, w[up], end) /\ At(in, p, c.ber)
            /\ (end # 0 => p + Len(c.ber) <= end) /\ v[p + Len(c.ber)] = Kids(<<>>, e)
            => v[p] = ExpectKids(c, up, e)

\* An object is longer than what is in it.
LEMMA ObjectLengths ==
    ASSUME NEW x, Object(x)
    PROVE  /\ Len(x.ber) \in Nat /\ Len(x.der) \in Nat /\ Len(x.ber) > 0
           /\ x.size > MaxBERSize => Len(x.der) > MaxBERSize
<1>1. Len(x.ber) \in Nat /\ Len(x.der) \in Nat /\ Len(x.ber) > 0
  BY DEF Object
<1>2. MaxBERSize \in Nat
  BY BerAssumption
<1>3. x.size \in Nat /\ x.size < Len(x.der)
  BY DEF Object
<1>4. \A m \in Nat, n \in Nat, k \in Nat : m < n => (m > k => n > k)
  OBVIOUS
<1> QED BY <1>1, <1>2, <1>3, <1>4

\* The lengths of contents.
LEMMA ContentsLengths ==
    ASSUME NEW c, Contents(c)
    PROVE  Len(c.ber) \in Nat /\ Len(c.der) \in Nat
  BY DEF Contents

\* Nothing is read as nothing.
LEMMA NoKidsRead == Contents(NoKids) /\ ContentsRead(NoKids)
<1>1. NoKids.ber = <<>> /\ NoKids.der = <<>> /\ NoKids.depth = -1
  BY DEF NoKids
<1>2. Contents(NoKids)
  BY <1>1 DEF Contents
<1> SUFFICES ASSUME NEW in \in Seq(Byte), NEW n \in Nat, NEW w, NEW up \in 0 .. n,
                    NEW p \in 1 .. Len(in) + 1, NEW v, NEW e,
                    v[p + Len(NoKids.ber)] = Kids(<<>>, e)
             PROVE  v[p] = ExpectKids(NoKids, up, e)
  BY <1>2, SMTT(40) DEF ContentsRead
<1>3. p + Len(NoKids.ber) = p
  BY <1>1
<1>4. NoKids.depth < up /\ Len(NoKids.der) <= MaxBERSize
  BY <1>1, BerAssumption
<1> QED BY <1>1, <1>3, <1>4 DEF ExpectKids

\* The deeper of two.
LEMMA DeeperIs ==
    ASSUME NEW m \in Int, NEW n \in Int, NEW k \in Int
    PROVE  Deeper(m, n) \in Int /\ Deeper(m, n) >= n /\ Deeper(m, n) >= m
           /\ (Deeper(m, n) < k <=> m < k /\ n < k)
  BY DEF Deeper

\* An object and contents after it are contents.
LEMMA JoinType ==
    ASSUME NEW a, NEW b, Object(a), Contents(b)
    PROVE  /\ Contents(Join(a, b))
           /\ Join(a, b).ber = a.ber \o b.ber /\ Len(Join(a, b).ber) = Len(a.ber) + Len(b.ber)
           /\ Join(a, b).der = a.der \o b.der /\ Len(Join(a, b).der) = Len(a.der) + Len(b.der)
           /\ Join(a, b).depth = Deeper(a.depth, b.depth)
<1>1. Join(a, b).ber = a.ber \o b.ber /\ Join(a, b).der = a.der \o b.der
      /\ Join(a, b).depth = Deeper(a.depth, b.depth)
  BY DEF Join
<1>2. /\ a.ber \o b.ber \in Seq(Nat) /\ Len(a.ber \o b.ber) = Len(a.ber) + Len(b.ber)
      /\ a.der \o b.der \in Seq(Nat) /\ Len(a.der \o b.der) = Len(a.der) + Len(b.der)
  BY Concat DEF Object, Contents
<1>3. Deeper(a.depth, b.depth) \in Int /\ Deeper(a.depth, b.depth) >= -1
  BY DEF Deeper, Object, Contents
<1> QED BY <1>1, <1>2, <1>3 DEF Contents

\* And they are read as such.
LEMMA JoinReads ==
    ASSUME NEW a, NEW b, Object(a), ObjectReads(a), Contents(b), ContentsRead(b)
    PROVE  ContentsRead(Join(a, b))
<1> DEFINE c == Join(a, b)
<1>1. /\ c.ber = a.ber \o b.ber /\ Len(c.ber) = Len(a.ber) + Len(b.ber)
      /\ c.der = a.der \o b.der /\ Len(c.der) = Len(a.der) + Len(b.der)
      /\ c.depth = Deeper(a.depth, b.depth)
  BY JoinType
<1> HIDE DEF c
<1> SUFFICES ASSUME NEW in \in Seq(Byte), NEW n \in Nat, NEW w,
                    Len(in) <= MaxBERSize, IsLevels(w, in, n),
                    NEW up \in 0 .. n, NEW end \in Nat, NEW p \in 1 .. Len(in) + 1, NEW v, NEW e,
                    IsRest(v, in, w[up], end), At(in, p, c.ber),
                    end # 0 => p + Len(c.ber) <= end, v[p + Len(c.ber)] = Kids(<<>>, e)
             PROVE  v[p] = ExpectKids(c, up, e)
  BY DEF ContentsRead, c
<1> DEFINE q == p + Len(a.ber)
<1>2. /\ Len(a.ber) \in Nat \ {0} /\ Len(b.ber) \in Nat /\ Len(a.der) \in Nat /\ Len(b.der) \in Nat
      /\ a.ber \in Seq(Nat) /\ b.ber \in Seq(Nat) /\ Len(in) \in Nat /\ MaxBERSize \in Nat
  <2>1. Len(a.der) \in Nat /\ Len(b.ber) \in Nat /\ Len(b.der) \in Nat
    BY ObjectLengths, ContentsLengths
  <2>2. a.ber \in Seq(Nat) /\ b.ber \in Seq(Nat) /\ Len(a.ber) \in Nat \ {0}
    BY DEF Object, Contents
  <2>3. Len(in) \in Nat /\ MaxBERSize \in Nat
    BY BerAssumption
  <2> QED BY <2>1, <2>2, <2>3
<1>a. Len(c.der) \in Nat
  <2>1. \A k \in Nat, m \in Nat : k + m \in Nat
    OBVIOUS
  <2>2. Len(a.der) + Len(b.der) \in Nat
    BY <1>2, <2>1, Zenon
  <2> QED BY <1>1, <2>2
<1>3. At(in, p, a.ber) /\ At(in, q, b.ber)
  <2>1. p \in Nat \ {0}
    OBVIOUS
  <2>2. At(in, p, a.ber \o b.ber)
    BY <1>1
  <2> QED BY <1>2, <2>1, <2>2, AtConcat
<1>4. w[up][p] = Expect(a, up, p)
  BY <1>3 DEF ObjectReads
<1> DEFINE r == RestAt(v, in, w[up], end, p)
<1>5. v[p] = r
  BY DEF IsRest
<1>6. ~(p > Len(in)) /\ q \in 1 .. Len(in) + 1 /\ ~(end # 0 /\ (p = end \/ p > end))
  <2>1. q <= Len(in) + 1
    BY <1>3 DEF At
  <2>2. end # 0 => p + (Len(a.ber) + Len(b.ber)) <= end
    BY <1>1
  <2>3. \A k \in Nat \ {0}, m \in Nat : end # 0 /\ p + (k + m) <= end => ~(p = end \/ p > end)
    OBVIOUS
  <2>4. ~(end # 0 /\ (p = end \/ p > end))
    BY <1>2, <2>2, <2>3
  <2>5. \A k \in Nat \ {0}, m \in Nat : p + k <= m + 1 => ~(p > m) /\ p + k \in 1 .. m + 1
    OBVIOUS
  <2> QED BY <1>2, <2>1, <2>4, <2>5
<1> HIDE DEF r, q
<1>7. /\ w[up][p] = Invalid => r = Invalid
      /\ \A d, m : w[up][p] = Read(d, m) => r = Grown(d, v[m])
  <2>1. ~(end # 0 /\ p = end)
    BY <1>6
  <2> QED BY <1>6, <2>1, RestCases DEF r
<1>8. c.depth < up <=> a.depth < up /\ b.depth < up
  <2>1. a.depth \in Int /\ b.depth \in Int /\ up \in Int
    BY DEF Object, Contents
  <2> HIDE DEF c
  <2> QED BY <1>1, <2>1, DeeperIs, ZenonT(60)
<1>9. CASE ~(a.depth < up /\ a.size <= MaxBERSize)
  <2>1. w[up][p] = Invalid
    BY <1>4, <1>9 DEF Expect
  <2>2. a.size > MaxBERSize => Len(c.der) > MaxBERSize
    <3>1. a.size > MaxBERSize => Len(a.der) > MaxBERSize
      BY ObjectLengths
    <3>2. \A k \in Nat, m \in Nat, l \in Nat : k > l => k + m > l
      OBVIOUS
    <3> QED BY <1>1, <1>2, <3>1, <3>2
  <2>3. ~(c.depth < up /\ Len(c.der) <= MaxBERSize)
    <3>1. a.size \in Nat
      BY DEF Object
    <3>2. \A k \in Nat, l \in Nat : ~(k <= l) => k > l
      OBVIOUS
    <3>3. \A k \in Nat, l \in Nat : k > l => ~(k <= l)
      OBVIOUS
    <3> QED BY <1>2, <1>8, <1>9, <1>a, <2>2, <3>1, <3>2, <3>3, Zenon
  <2> QED BY <1>5, <1>7, <2>1, <2>3 DEF ExpectKids
<1>10. CASE a.depth < up /\ a.size <= MaxBERSize
  <2>1. w[up][p] = Read(a.der, q)
    BY <1>4, <1>10 DEF Expect, q
  <2>2. r = Grown(a.der, v[q])
    BY <1>7, <2>1
  <2>3. q + Len(b.ber) = p + Len(c.ber)
    <3>1. \A k \in Nat, m \in Nat : (p + k) + m = p + (k + m)
      OBVIOUS
    <3>2. (p + Len(a.ber)) + Len(b.ber) = p + (Len(a.ber) + Len(b.ber))
      BY <1>2, <3>1, Zenon
    <3> QED BY <1>1, <3>2 DEF q
  <2>4. v[q] = ExpectKids(b, up, e)
    <3>1. (end # 0 => q + Len(b.ber) <= end) /\ v[q + Len(b.ber)] = Kids(<<>>, e)
      BY <2>3
    <3> QED BY <1>3, <1>6, <3>1 DEF ContentsRead
  <2>5. CASE ~(b.depth < up /\ Len(b.der) <= MaxBERSize)
    <3>1. v[q] = Invalid
      BY <2>4, <2>5 DEF ExpectKids
    <3>2. ~(c.depth < up /\ Len(c.der) <= MaxBERSize)
      <4>1. \A k \in Nat, m \in Nat, l \in Nat : k + m <= l => m <= l
        OBVIOUS
      <4>2. Len(a.der) + Len(b.der) <= MaxBERSize => Len(b.der) <= MaxBERSize
        BY <1>2, <4>1, Zenon
      <4>3. Len(c.der) <= MaxBERSize => Len(b.der) <= MaxBERSize
        BY <1>1, <4>2
      <4> QED BY <1>8, <2>5, <4>3, Zenon
    <3> QED BY <1>5, <2>2, <3>1, <3>2, GrownKids DEF ExpectKids
  <2>6. CASE b.depth < up /\ Len(b.der) <= MaxBERSize
    <3>1. v[q] = Kids(b.der, e)
      BY <2>4, <2>6 DEF ExpectKids
    <3>2. r = IF Len(c.der) > MaxBERSize THEN Invalid ELSE Kids(c.der, e)
      <4>1. r = IF Len(a.der) + Len(b.der) > MaxBERSize THEN Invalid ELSE Kids(a.der \o b.der, e)
        <5>1. r = Grown(a.der, Kids(b.der, e))
          BY <2>2, <3>1
        <5> QED BY <5>1, GrownKids, ZenonT(60)
      <4> QED BY <1>1, <4>1
    <3>3. c.depth < up /\ (Len(c.der) > MaxBERSize <=> ~(Len(c.der) <= MaxBERSize))
      <4>2. \A k \in Nat, l \in Nat : k > l <=> ~(k <= l)
        OBVIOUS
      <4> QED BY <1>2, <1>a, <1>8, <1>10, <2>6, <4>2, Zenon
    <3> QED BY <1>5, <3>2, <3>3 DEF ExpectKids
  <2> QED BY <2>5, <2>6
<1> QED BY <1>9, <1>10
-----------------------------------------------------------------------------
(* BER: the parts of an object *)

\* Three sequences, one after the other.
LEMMA ThreeParts ==
    ASSUME NEW a \in Seq(Nat), NEW b \in Seq(Nat), NEW c \in Seq(Nat)
    PROVE  /\ a \o b \o c \in Seq(Nat)
           /\ Len(a) \in Nat /\ Len(b) \in Nat /\ Len(c) \in Nat
           /\ Len(a \o b \o c) = Len(a) + Len(b) + Len(c)
<1>1. a \o b \in Seq(Nat) /\ Len(a \o b) = Len(a) + Len(b)
  BY Concat
<1> DEFINE ab == a \o b
<1> HIDE DEF ab
<1>2. ab \o c \in Seq(Nat) /\ Len(ab \o c) = Len(ab) + Len(c)
  BY <1>1, Concat DEF ab
<1> QED BY <1>1, <1>2 DEF ab

\* Three byte strings at a place are each at its own.
LEMMA AtThree ==
    ASSUME NEW in \in Seq(Byte), NEW p \in Nat \ {0}, NEW a \in Seq(Nat), NEW b \in Seq(Nat),
           NEW c \in Seq(Nat), At(in, p, a \o b \o c)
    PROVE  /\ At(in, p, a) /\ At(in, p + Len(a), b) /\ At(in, p + Len(a) + Len(b), c)
           /\ p + Len(a) + Len(b) + Len(c) <= Len(in) + 1
<1> DEFINE ab == a \o b
<1>1. ab \in Seq(Nat) /\ Len(ab) = Len(a) + Len(b) /\ Len(a) \in Nat /\ Len(b) \in Nat
      /\ Len(c) \in Nat /\ Len(in) \in Nat
  BY Concat
<1>2. At(in, p, ab \o c)
  OBVIOUS
<1>3. At(in, p, ab) <=> At(in, p, a) /\ At(in, p + Len(a), b)
  BY AtConcat
<1> HIDE DEF ab
<1>4. At(in, p, ab) /\ At(in, p + Len(ab), c)
  BY <1>1, <1>2, AtConcat
<1>5. p + Len(ab) = p + Len(a) + Len(b)
  BY <1>1
<1>6. p + Len(ab) + Len(c) <= Len(in) + 1
  BY <1>4 DEF At
<1> QED BY <1>3, <1>4, <1>5, <1>6

\* What starts like the end mark is a tag 0 of length 0.
LEMMA MarkStarts ==
    ASSUME NEW in \in Seq(Byte), NEW p \in Nat \ {0}, NEW s, Tag(s), At(in, p, s), IsMark(in, p)
    PROVE  s = <<0>> /\ ~IsConstructed(s[1]) /\ in[p + Len(s)] = 0
<1>1. s \in Seq(Byte) /\ Len(s) \in Nat \ {0}
  BY DEF Tag
<1>2. in[p + 1 - 1] = s[1]
  <2>1. 1 \in 1 .. Len(s)
    BY <1>1
  <2> QED BY <2>1 DEF At
<1>3. p + 1 - 1 = p
  OBVIOUS
<1>4. in[p] = 0 /\ in[p + 1] = 0
  BY DEF IsMark
<1>5. s[1] = 0
  BY <1>2, <1>3, <1>4
<1>6. 0 % 32 = 0 /\ 0 \div 32 = 0 /\ 0 % 2 = 0
  OBVIOUS
<1>7. ~HighTag(s[1]) /\ ~IsConstructed(s[1])
  BY <1>5, <1>6 DEF HighTag, IsConstructed
<1>8. Len(s) = 1
  BY <1>7 DEF Tag
<1>9. s = <<0>>
  BY <1>1, <1>5, <1>8
<1> QED BY <1>4, <1>7, <1>8, <1>9

\* What is read where a tag and a length are.
LEMMA Opened ==
    ASSUME NEW in \in Seq(Byte), NEW n \in Nat, NEW w, IsLevels(w, in, n), NEW up \in 0 .. n,
           NEW p \in 1 .. Len(in), NEW s, Tag(s), At(in, p, s), ~IsMark(in, p), NEW k, NEW b,
           ReadBERLength(in, p + Len(s)) = Length(k, b)
    PROVE  /\ up = 0 => w[up][p] = Invalid
           /\ up # 0 => w[up][p] = Opening(in, w[up - 1], s, b, k)
<1>1. p \in 1 .. Len(in) + 1 /\ ~(p > Len(in)) /\ p \in Nat \ {0}
  OBVIOUS
<1>2. /\ up = 0 => w[up][p] = Invalid
      /\ up # 0 => w[up][p] = ReadBERObject(in, w[up - 1], p)
  <2>1. CASE up = 0
    BY <1>1, <2>1, LevelIs
  <2>2. CASE up # 0
    BY <1>1, <2>2, LevelIs
  <2> QED BY <2>1, <2>2
<1>3. ReadBERObject(in, w[up - 1], p) = ReadBERBody(in, w[up - 1], p)
  BY <1>1, ObjectUnfold
<1>4. ReadBERTag(in, p) = TagRead(s, p)
  BY <1>1, TagReads
<1> DEFINE deeper == w[up - 1]
<1> HIDE DEF deeper
<1>5. ReadBERBody(in, deeper, p) = Opening(in, deeper, s, b, k)
  BY <1>4, BodyUnfold, Zenon
<1> QED BY <1>2, <1>3, <1>5 DEF deeper

\* Lengths within a message take at most three bytes.
LEMMA SmallLength ==
    ASSUME NEW n \in Nat, NEW m \in Nat, n <= m, m <= MaxBERSize
    PROVE  Small(n) /\ n <= MaxBERSize
<1>1. MaxBERSize \in Nat /\ MaxBERSize < 256 * 65536
  BY BerAssumption
<1> QED BY <1>1, SMT DEF Small

\* A length that starts with 0 is 0.
LEMMA FirstOfLength ==
    ASSUME NEW n \in Nat, Small(n), DerLength(n)[1] = 0
    PROVE  n = 0
<1>1. n < 128 => DerLength(n) = <<n>>
  BY DEF DerLength
<1>2. CASE n < 128
  <2>1. <<n>>[1] = n
    OBVIOUS
  <2> QED BY <1>1, <1>2, <2>1
<1>3. CASE ~(n < 128)
  <2>1. n > 127
    BY <1>3
  <2>2. PICK c \in 1 .. 3 : DerLength(n)[1] = 128 + c
    BY <2>1, LongDigits
  <2> QED BY <2>2
<1> QED BY <1>2, <1>3
-----------------------------------------------------------------------------
(* BER: primitive objects *)

\* A tag is a sequence of numbers, and not empty.
LEMMA TagNat ==
    ASSUME NEW s, Tag(s)
    PROVE  s \in Seq(Nat) /\ Len(s) \in Nat \ {0}
  BY BytesNat DEF Tag

\* The DER of an object with these contents, which is longer than they are.
LEMMA DerType ==
    ASSUME NEW s, Tag(s), NEW c \in Seq(Nat), NEW d, d = s \o DerLength(Len(c)) \o c
    PROVE  /\ d \in Seq(Nat) /\ Len(c) \in Nat /\ Len(d) \in Nat \ {0} /\ Len(c) < Len(d)
           /\ Len(d) = Len(s) + Len(DerLength(Len(c))) + Len(c)
<1> DEFINE m == DerLength(Len(c))
<1>1. Len(c) \in Nat
  OBVIOUS
<1>2. m \in Seq(Nat) /\ Len(m) \in 1 .. 4
  BY <1>1, DerLengthType
<1>3. s \in Seq(Nat) /\ Len(s) \in Nat \ {0}
  BY TagNat
<1> HIDE DEF m
<1>4. s \o m \o c \in Seq(Nat) /\ Len(s \o m \o c) = Len(s) + Len(m) + Len(c)
  BY <1>2, <1>3, ThreeParts
<1>5. d = s \o m \o c
  BY DEF m
<1>6. d \in Seq(Nat) /\ Len(d) = Len(s) + Len(m) + Len(c)
  BY <1>4, <1>5
<1>7. Len(d) \in Nat \ {0} /\ Len(c) < Len(d)
  BY <1>1, <1>2, <1>3, <1>6
<1> QED BY <1>1, <1>6, <1>7 DEF m

\* A primitive object is read wherever it is, unless it looks like the end mark.
LEMMA PrimitiveReads ==
    ASSUME NEW s, Tag(s), ~IsConstructed(s[1]), NEW c \in Seq(Nat),
           NEW x, x = Primitive(s, c), x # Primitive(<< 0 >>, <<>>)
    PROVE  Object(x) /\ ObjectReads(x)
<1> DEFINE m == DerLength(Len(c))
           d == s \o m \o c
<1>1. x.ber = d /\ x.der = d /\ x.depth = 0 /\ x.size = Len(c)
  BY DEF Primitive
<1>2. /\ d \in Seq(Nat) /\ Len(c) \in Nat /\ Len(d) \in Nat \ {0} /\ Len(c) < Len(d)
      /\ Len(d) = Len(s) + Len(m) + Len(c)
  BY DerType
<1>3. Object(x)
  BY <1>1, <1>2 DEF Object
<1>4. s \in Seq(Nat) /\ Len(s) \in Nat \ {0} /\ m \in Seq(Nat) /\ Len(m) \in 1 .. 4
  BY <1>2, TagNat, DerLengthType
<1> SUFFICES ASSUME NEW in \in Seq(Byte), NEW n \in Nat, NEW w,
                    Len(in) <= MaxBERSize, IsLevels(w, in, n),
                    NEW up \in 0 .. n, NEW p \in 1 .. Len(in) + 1, At(in, p, x.ber)
             PROVE  w[up][p] = Expect(x, up, p)
  BY <1>3 DEF ObjectReads
<1> HIDE DEF m
<1>5. /\ At(in, p, s) /\ At(in, p + Len(s), m) /\ At(in, p + Len(s) + Len(m), c)
      /\ p + Len(s) + Len(m) + Len(c) <= Len(in) + 1
  <2>1. At(in, p, s \o m \o c) /\ p \in Nat \ {0}
    BY <1>1
  <2> QED BY <1>4, <2>1, AtThree
<1> HIDE DEF d
<1>6. Len(in) \in Nat /\ p \in 1 .. Len(in) /\ p + Len(s) \in 1 .. Len(in) /\ Len(c) <= Len(in)
  <2>1. Len(in) \in Nat
    OBVIOUS
  <2>2. \A i \in Nat, j \in Nat \ {0}, k \in 1 .. 4, l \in Nat :
            p + j + k + l <= i + 1 => p \in 1 .. i /\ p + j \in 1 .. i /\ l <= i
    OBVIOUS
  <2> QED BY <1>2, <1>4, <1>5, <2>1, <2>2, Zenon
<1>7. Small(Len(c)) /\ Len(c) <= MaxBERSize
  BY <1>2, <1>6, SmallLength
<1> DEFINE b == p + Len(s) + Len(m)
<1>8. ReadBERLength(in, p + Len(s)) = Length(Len(c), b)
  <2>1. p + Len(s) \in 1 .. Len(in) + 1
    BY <1>6
  <2> QED BY <1>2, <1>5, <1>7, <2>1, LengthReads DEF m
<1>9. ~IsMark(in, p)
  <2> SUFFICES ASSUME IsMark(in, p) PROVE FALSE
    OBVIOUS
  <2>1. s = <<0>> /\ in[p + Len(s)] = 0
    BY <1>5, MarkStarts
  <2>2. in[p + Len(s) + 1 - 1] = m[1]
    <3>1. \A k \in 1 .. 4 : 1 \in 1 .. k
      OBVIOUS
    <3>2. 1 \in 1 .. Len(m)
      BY <1>4, <3>1, Zenon
    <3> QED BY <1>5, <3>2 DEF At
  <2>3. p + Len(s) + 1 - 1 = p + Len(s)
    BY <1>4
  <2>4. m[1] = 0
    BY <2>1, <2>2, <2>3
  <2>5. Len(c) = 0
    BY <1>2, <1>7, <2>4, FirstOfLength DEF m
  <2>6. c = <<>>
    BY <2>5
  <2> QED BY <2>1, <2>6
<1>10. /\ up = 0 => w[up][p] = Invalid
       /\ up # 0 => w[up][p] = Opening(in, w[up - 1], s, b, Len(c))
  BY <1>5, <1>6, <1>8, <1>9, Opened
<1>11. SubSeq(in, b, b + Len(c) - 1) = c
  <2>1. b \in Nat \ {0}
    BY <1>4
  <2> QED BY <1>5, <2>1, PartAt
<1>12. ~(Len(c) = -1 \/ Len(c) > Len(in) - b + 1)
  BY <1>2, <1>4, <1>5, <1>6
<1>13. EncodeDERObject(s, c) = d
  BY <1>7, EncodeIs DEF d, m
<1>14. b + Len(c) = p + Len(d)
  BY <1>2, <1>4
<1>15. \A deeper : Opening(in, deeper, s, b, Len(c)) = Read(d, p + Len(d))
  <2> HIDE DEF b
  <2> QED BY <1>11, <1>12, <1>13, <1>14 DEF Opening
<1>16. x.depth < up <=> up # 0
  BY <1>1
<1> HIDE DEF b
<1>17. x.size <= MaxBERSize /\ x.der = d /\ Len(x.ber) = Len(d)
  BY <1>1, <1>7
<1>18. CASE up = 0
  BY <1>10, <1>16, <1>18 DEF Expect
<1>19. CASE up # 0
  BY <1>10, <1>15, <1>16, <1>17, <1>19 DEF Expect
<1> QED BY <1>18, <1>19
-----------------------------------------------------------------------------
(* BER: objects of definite length *)

\* What is made of contents.
Made(s, c, up, e) ==
    IF c.depth < up /\ Len(c.der) <= MaxBERSize THEN Read(s \o DerLength(Len(c.der)) \o c.der, e)
    ELSE Invalid

MadeOf(in, deeper, b, k, c, up, e) ==
    \A v : IsRest(v, in, deeper, IF k = -1 THEN 0 ELSE b + k) => v[b] = ExpectKids(c, up, e)

\* What readBERConstructed makes of contents that are read.
LEMMA Constructs ==
    ASSUME NEW in \in Seq(Byte), Len(in) <= MaxBERSize, NEW n \in Nat, NEW w, IsLevels(w, in, n),
           NEW up \in 0 .. n, NEW s, Tag(s), NEW b \in Nat, NEW k, ~(k > Len(in) - b + 1),
           NEW c, Contents(c), NEW e,
           MadeOf(in, w[up], b, k, c, up, e)
    PROVE  ReadBERConstructed(in, w[up], s, b, k) = Made(s, c, up, e)
<1> DEFINE end == IF k = -1 THEN 0 ELSE b + k
           r == ReadBERConstructed(in, w[up], s, b, k)
           d == s \o DerLength(Len(c.der)) \o c.der
<1>1. Forward(in, w[up])
  BY LevelsForward
<1>2. \A v : IsRest(v, in, w[up], end) => v[b] = ExpectKids(c, up, e)
  BY DEF MadeOf
<1>0. end = IF k = -1 THEN 0 ELSE b + k
  OBVIOUS
<1> HIDE DEF end
<1>3. PICK v : IsRest(v, in, w[up], end) /\ ReadBERChildren(in, w[up], b, end) = v[b]
  <2> DEFINE deeper == w[up]
  <2>1. Forward(in, deeper)
    BY <1>1
  <2> HIDE DEF deeper
  <2>2. \E v : IsRest(v, in, deeper, end) /\ ReadBERChildren(in, deeper, b, end) = v[b]
    BY <2>1, ChildrenUnfold
  <2> QED BY <2>2 DEF deeper
<1>4. v[b] = ExpectKids(c, up, e)
  BY <1>2, <1>3
<1>5. r = IF ~v[b].ok THEN Invalid ELSE Read(EncodeDERObject(s, v[b].content), v[b].next)
  <2>1. v[b] = ReadBERChildren(in, w[up], b, IF k = -1 THEN 0 ELSE b + k)
    BY <1>0, <1>3
  <2> HIDE <1>3
  <2>2. r = IF k > Len(in) - b + 1 \/ ~v[b].ok THEN Invalid
            ELSE [ok |-> TRUE, eoc |-> FALSE, der |-> EncodeDERObject(s, v[b].content),
                  next |-> v[b].next]
    BY <2>1 DEF ReadBERConstructed, r
  <2> QED BY <2>2 DEF Read
<1>6. ASSUME c.depth < up, Len(c.der) <= MaxBERSize PROVE r = Read(d, e)
  <2>1. v[b] = Kids(c.der, e)
    BY <1>4, <1>6 DEF ExpectKids
  <2>2. v[b].ok /\ v[b].content = c.der /\ v[b].next = e
    BY <2>1, Fields
  <2>3. r = Read(EncodeDERObject(s, c.der), e)
    BY <1>5, <2>2
  <2>4. Small(Len(c.der))
    <3>1. Len(c.der) \in Nat /\ MaxBERSize \in Nat /\ MaxBERSize <= MaxBERSize
      BY ContentsLengths, BerAssumption
    <3> QED BY <1>6, <3>1, SmallLength
  <2>5. EncodeDERObject(s, c.der) = d
    BY <2>4, EncodeIs
  <2> QED BY <2>3, <2>5
<1>7. ASSUME ~(c.depth < up /\ Len(c.der) <= MaxBERSize) PROVE r = Invalid
  <2>1. v[b] = Invalid
    BY <1>4, <1>7 DEF ExpectKids
  <2>2. ~v[b].ok
    BY <2>1, Fields
  <2> QED BY <1>5, <2>2
<1> HIDE DEF d
<1>8. r = IF c.depth < up /\ Len(c.der) <= MaxBERSize THEN Read(d, e) ELSE Invalid
  BY <1>6, <1>7
<1> QED BY <1>8 DEF r, d, Made

\* A constructed object of definite length is read wherever it is.
LEMMA DefiniteReads ==
    ASSUME NEW s, Tag(s), IsConstructed(s[1]), NEW c, Contents(c), ContentsRead(c),
           NEW x, x = Definite(s, c)
    PROVE  Object(x) /\ ObjectReads(x)
<1> DEFINE m == DerLength(Len(c.ber))
           d == s \o m \o c.ber
<1>1. /\ x.ber = d /\ x.der = s \o DerLength(Len(c.der)) \o c.der
      /\ x.depth = c.depth + 1 /\ x.size = Len(c.der)
  BY DEF Definite
<1>0. c.ber \in Seq(Nat) /\ c.der \in Seq(Nat) /\ c.depth \in Int /\ c.depth >= -1
  BY DEF Contents
<1>2. /\ d \in Seq(Nat) /\ Len(c.ber) \in Nat /\ Len(d) \in Nat \ {0}
      /\ Len(d) = Len(s) + Len(m) + Len(c.ber)
  BY <1>0, DerType
<1>3. Object(x)
  <2>1. x.der \in Seq(Nat) /\ Len(c.der) \in Nat /\ Len(c.der) < Len(x.der)
    BY <1>0, <1>1, DerType
  <2>2. x.depth \in Nat
    BY <1>0, <1>1
  <2> QED BY <1>1, <1>2, <2>1, <2>2 DEF Object
<1>4. s \in Seq(Nat) /\ Len(s) \in Nat \ {0} /\ m \in Seq(Nat) /\ Len(m) \in 1 .. 4
  BY <1>2, TagNat, DerLengthType
<1> SUFFICES ASSUME NEW in \in Seq(Byte), NEW n \in Nat, NEW w,
                    Len(in) <= MaxBERSize, IsLevels(w, in, n),
                    NEW up \in 0 .. n, NEW p \in 1 .. Len(in) + 1, At(in, p, x.ber)
             PROVE  w[up][p] = Expect(x, up, p)
  BY <1>3 DEF ObjectReads
<1> HIDE DEF m
<1>5. /\ At(in, p, s) /\ At(in, p + Len(s), m) /\ At(in, p + Len(s) + Len(m), c.ber)
      /\ p + Len(s) + Len(m) + Len(c.ber) <= Len(in) + 1
  <2>1. At(in, p, s \o m \o c.ber) /\ p \in Nat \ {0}
    BY <1>1
  <2> QED BY <1>0, <1>4, <2>1, AtThree
<1> HIDE DEF d
<1> DEFINE k == Len(c.ber)
           b == p + Len(s) + Len(m)
           end == b + k
<1>6. /\ Len(in) \in Nat /\ p \in 1 .. Len(in) /\ p + Len(s) \in 1 .. Len(in) /\ k <= Len(in)
      /\ b \in 1 .. Len(in) + 1 /\ end \in 1 .. Len(in) + 1 /\ end = p + Len(d) /\ k # -1
      /\ ~(k > Len(in) - b + 1)
  <2> DEFINE i == Len(in)
             j == Len(s)
             f == Len(m)
  <2>a. i \in Nat /\ p \in Nat \ {0}
    OBVIOUS
  <2>b. j \in Nat \ {0} /\ f \in 1 .. 4 /\ k \in Nat /\ p + j + f + k <= i + 1
    BY <1>2, <1>4, <1>5, Zenon
  <2>2. Len(d) = j + f + k
    BY <1>2
  <2>c. b = p + j + f /\ end = p + j + f + k
    OBVIOUS
  <2> HIDE DEF i, j, f, k, b, end
  <2>3. /\ p \in 1 .. i /\ p + j \in 1 .. i /\ k <= i
        /\ b \in 1 .. i + 1 /\ end \in 1 .. i + 1 /\ end = p + (j + f + k) /\ k # -1
        /\ ~(k > i - b + 1)
    <3>1. \A A \in Nat, B \in Nat \ {0}, C \in Nat \ {0}, D \in 1 .. 4, E \in Nat :
            B + C + D + E <= A + 1 =>
                /\ B \in 1 .. A /\ B + C \in 1 .. A /\ E <= A
                /\ B + C + D \in 1 .. A + 1 /\ B + C + D + E \in 1 .. A + 1
                /\ B + C + D + E = B + (C + D + E) /\ E # -1
                /\ ~(E > A - (B + C + D) + 1)
      OBVIOUS
    <3>2. /\ p \in 1 .. i /\ p + j \in 1 .. i /\ k <= i
          /\ p + j + f \in 1 .. i + 1 /\ p + j + f + k \in 1 .. i + 1
          /\ p + j + f + k = p + (j + f + k) /\ k # -1
          /\ ~(k > i - (p + j + f) + 1)
      BY <2>a, <2>b, <3>1, Zenon
    <3> QED BY <2>c, <3>2
  <2> QED BY <2>a, <2>2, <2>3 DEF i, j, f, k
<1>7. Small(k)
  BY <1>2, <1>6, SmallLength
<1>8. ReadBERLength(in, p + Len(s)) = Length(k, b)
  <2>1. p + Len(s) \in 1 .. Len(in) + 1
    BY <1>6
  <2> QED BY <1>2, <1>5, <1>7, <2>1, LengthReads DEF m
<1>9. ~IsMark(in, p)
  BY <1>5, MarkStarts
<1>10. /\ up = 0 => w[up][p] = Invalid
       /\ up # 0 => w[up][p] = Opening(in, w[up - 1], s, b, k)
  BY <1>5, <1>6, <1>8, <1>9, Opened
<1>11. At(in, b, c.ber)
  BY <1>5
<1> HIDE DEF b, k, end
<1>12. CASE up = 0
  <2>1. ~(x.depth < up)
    BY <1>0, <1>1, <1>12
  <2> QED BY <1>10, <1>12, <2>1 DEF Expect
<1>13. CASE up # 0
  <2> DEFINE u == up - 1
  <2>1. u \in 0 .. n
    BY <1>13
  <2>2. x.depth < up <=> c.depth < u
    BY <1>0, <1>1
  <2>3. w[up][p] = ReadBERConstructed(in, w[u], s, b, k)
    BY <1>10, <1>13 DEF Opening
  <2> HIDE DEF u
  <2>4. ASSUME NEW v, IsRest(v, in, w[u], IF k = -1 THEN 0 ELSE b + k)
        PROVE  v[b] = ExpectKids(c, u, end)
    <3>1. IsRest(v, in, w[u], end) /\ end # 0 /\ end \in Nat
      BY <1>6, <2>4 DEF end
    <3>2. v[end] = RestAt(v, in, w[u], end, end)
      BY <1>6, <3>1 DEF IsRest
    <3>3. v[end] = Kids(<<>>, end)
      BY <3>1, <3>2, RestCases
    <3>4. b + Len(c.ber) = end /\ b + Len(c.ber) <= end
      BY <1>6 DEF end, k
    <3> QED BY <1>6, <1>11, <2>1, <3>1, <3>3, <3>4 DEF ContentsRead
  <2>5. ReadBERConstructed(in, w[u], s, b, k) = Made(s, c, u, end)
    <3>1. b \in Nat /\ MadeOf(in, w[u], b, k, c, u, end)
      BY <1>6, <2>4 DEF MadeOf
    <3>2. ~(k > Len(in) - b + 1)
      BY <1>6
    <3>3. Tag(s) /\ Contents(c) /\ Len(in) <= MaxBERSize /\ IsLevels(w, in, n)
      OBVIOUS
    <3> HIDE DEF IsLevels
    <3> QED BY <2>1, <3>1, <3>2, <3>3, Constructs, SMTT(90)
  <2>6. w[up][p] = IF x.depth < up /\ x.size <= MaxBERSize THEN Read(x.der, p + Len(x.ber))
                   ELSE Invalid
    BY <1>1, <1>6, <2>2, <2>3, <2>5 DEF Made
  <2> QED BY <2>6 DEF Expect
<1> QED BY <1>12, <1>13
-----------------------------------------------------------------------------
(* BER: objects of indefinite length *)

\* The end mark is two bytes.
LEMMA MarkBytes ==
    /\ <<0, 0>> \in Seq(Nat) /\ Len(<<0, 0>>) = 2 /\ <<0, 0>>[1] = 0 /\ <<0, 0>>[2] = 0
    /\ <<128>> \in Seq(Nat) /\ Len(<<128>>) = 1 /\ <<128>>[1] = 128
  OBVIOUS

\* Where the parts of an object of indefinite length are.
LEMMA MarkedKids ==
    ASSUME NEW s, Tag(s), NEW c, Contents(c), NEW x, x = Indefinite(s, c)
    PROVE  /\ x.ber \in Seq(Nat) /\ Len(x.ber) = Len(s) + 1 + Len(c.ber) + 2
           /\ s \in Seq(Nat) /\ Len(s) \in Nat \ {0} /\ c.ber \in Seq(Nat) /\ Len(c.ber) \in Nat
           /\ \A in \in Seq(Byte), p \in Nat \ {0} : At(in, p, x.ber) =>
                /\ At(in, p, s) /\ At(in, p + Len(s), <<128>>) /\ At(in, p + Len(s) + 1, c.ber)
                /\ At(in, p + Len(s) + 1 + Len(c.ber), <<0, 0>>)
                /\ p + Len(s) + 1 + Len(c.ber) + 2 <= Len(in) + 1
<1> DEFINE h == s \o <<128>> \o c.ber
           t == <<0, 0>>
<1>1. x.ber = h \o t
  BY DEF Indefinite
<1>2. s \in Seq(Nat) /\ Len(s) \in Nat \ {0} /\ c.ber \in Seq(Nat) /\ Len(c.ber) \in Nat
  BY TagNat DEF Contents
<1>3. h \in Seq(Nat) /\ Len(h) = Len(s) + 1 + Len(c.ber)
  <2> DEFINE l == <<128>>
  <2>1. l \in Seq(Nat) /\ Len(l) = 1
    BY MarkBytes
  <2> HIDE DEF l
  <2>2. s \o l \o c.ber \in Seq(Nat) /\ Len(s \o l \o c.ber) = Len(s) + Len(l) + Len(c.ber)
    BY <1>2, <2>1, ThreeParts
  <2> QED BY <2>1, <2>2 DEF l
<1>4. t \in Seq(Nat) /\ Len(t) = 2
  BY MarkBytes
<1> HIDE DEF h, t
<1>5. x.ber \in Seq(Nat) /\ Len(x.ber) = Len(h) + 2
  <2>1. h \o t \in Seq(Nat) /\ Len(h \o t) = Len(h) + Len(t)
    BY <1>3, <1>4, Concat
  <2> QED BY <1>1, <1>4, <2>1
<1>6. ASSUME NEW in \in Seq(Byte), NEW p \in Nat \ {0}, At(in, p, x.ber)
      PROVE  /\ At(in, p, s) /\ At(in, p + Len(s), <<128>>) /\ At(in, p + Len(s) + 1, c.ber)
             /\ At(in, p + Len(s) + 1 + Len(c.ber), <<0, 0>>)
             /\ p + Len(s) + 1 + Len(c.ber) + 2 <= Len(in) + 1
  <2>1. At(in, p, h) /\ At(in, p + Len(h), t)
    BY <1>1, <1>3, <1>4, <1>6, AtConcat
  <2>2. p + Len(h) = p + Len(s) + 1 + Len(c.ber)
    <3>1. \A j \in Nat \ {0}, k \in Nat : p + (j + 1 + k) = p + j + 1 + k
      OBVIOUS
    <3>2. p + (Len(s) + 1 + Len(c.ber)) = p + Len(s) + 1 + Len(c.ber)
      BY <1>2, <3>1, Zenon
    <3> QED BY <1>3, <3>2
  <2>3. p + Len(h) + 2 <= Len(in) + 1
    BY <1>4, <2>1 DEF At
  <2> DEFINE l == <<128>>
  <2>4. l \in Seq(Nat) /\ Len(l) = 1
    BY MarkBytes
  <2>5. h = s \o l \o c.ber
    BY DEF h
  <2> HIDE DEF l
  <2>6. At(in, p, s) /\ At(in, p + Len(s), l) /\ At(in, p + Len(s) + Len(l), c.ber)
    BY <1>2, <2>1, <2>4, <2>5, AtThree
  <2> QED BY <2>1, <2>2, <2>3, <2>4, <2>6 DEF l, t
<1> QED BY <1>2, <1>3, <1>5, <1>6

\* Two zeros are the end mark.
LEMMA MarkIs ==
    ASSUME NEW in \in Seq(Byte), NEW q \in Nat \ {0}, At(in, q, <<0, 0>>)
    PROVE  IsMark(in, q) /\ q + 2 <= Len(in) + 1
<1> DEFINE t == <<0, 0>>
<1>1. Len(t) = 2 /\ t[1] = 0 /\ t[2] = 0
  BY MarkBytes
<1>2. q + Len(t) <= Len(in) + 1 /\ \A i \in 1 .. Len(t) : in[q + i - 1] = t[i]
  BY DEF At
<1> HIDE DEF t
<1>3. in[q + 1 - 1] = 0 /\ in[q + 2 - 1] = 0
  BY <1>1, <1>2
<1>4. q + 1 - 1 = q /\ q + 2 - 1 = q + 1
  OBVIOUS
<1>5. Len(in) \in Nat
  OBVIOUS
<1> QED BY <1>1, <1>2, <1>3, <1>4, <1>5 DEF IsMark

\* An object of indefinite length is read wherever it is.
LEMMA IndefiniteReads ==
    ASSUME NEW s, Tag(s), IsConstructed(s[1]), NEW c, Contents(c), ContentsRead(c),
           NEW x, x = Indefinite(s, c)
    PROVE  Object(x) /\ ObjectReads(x)
<1>1. /\ x.der = s \o DerLength(Len(c.der)) \o c.der
      /\ x.depth = Deeper(c.depth, 0) + 1 /\ x.size = Len(c.der)
  BY DEF Indefinite
<1>0. c.ber \in Seq(Nat) /\ c.der \in Seq(Nat) /\ c.depth \in Int /\ c.depth >= -1
  BY DEF Contents
<1>2. /\ x.ber \in Seq(Nat) /\ Len(x.ber) = Len(s) + 1 + Len(c.ber) + 2
      /\ s \in Seq(Nat) /\ Len(s) \in Nat \ {0} /\ c.ber \in Seq(Nat) /\ Len(c.ber) \in Nat
  BY MarkedKids, Zenon
<1>3. Deeper(c.depth, 0) \in Int /\ Deeper(c.depth, 0) >= 0
      /\ \A k \in Int : Deeper(c.depth, 0) < k <=> c.depth < k /\ 0 < k
  <2>1. \A m \in Int : /\ Deeper(m, 0) \in Int /\ Deeper(m, 0) >= 0
                       /\ \A k \in Int : Deeper(m, 0) < k <=> m < k /\ 0 < k
    BY DEF Deeper
  <2> QED BY <1>0, <2>1, Zenon
<1>4. Object(x)
  <2>1. x.der \in Seq(Nat) /\ Len(c.der) \in Nat /\ Len(c.der) < Len(x.der)
    BY <1>0, <1>1, DerType
  <2>2. x.depth \in Nat
    BY <1>1, <1>3
  <2>3. Len(x.ber) \in Nat \ {0}
    <3>1. \A i \in Nat \ {0}, j \in Nat : i + 1 + j + 2 \in Nat \ {0}
      OBVIOUS
    <3> QED BY <1>2, <3>1, Zenon
  <2> QED BY <1>1, <1>2, <2>1, <2>2, <2>3 DEF Object
<1> SUFFICES ASSUME NEW in \in Seq(Byte), NEW n \in Nat, NEW w,
                    Len(in) <= MaxBERSize, IsLevels(w, in, n),
                    NEW up \in 0 .. n, NEW p \in 1 .. Len(in) + 1, At(in, p, x.ber)
             PROVE  w[up][p] = Expect(x, up, p)
  BY <1>4 DEF ObjectReads
<1> DEFINE b == p + Len(s) + 1
           q == b + Len(c.ber)
<1>5. /\ At(in, p, s) /\ At(in, p + Len(s), <<128>>) /\ At(in, b, c.ber) /\ At(in, q, <<0, 0>>)
      /\ q + 2 <= Len(in) + 1
  <2>1. p \in Nat \ {0}
    OBVIOUS
  <2> QED BY <2>1, MarkedKids, Zenon
<1>6. /\ Len(in) \in Nat /\ p \in 1 .. Len(in) /\ p + Len(s) \in 1 .. Len(in) /\ b \in 1 .. Len(in)
      /\ q \in 1 .. Len(in) /\ q \in Nat \ {0} /\ q + 2 = p + Len(x.ber)
  <2>1. Len(in) \in Nat /\ p \in Nat \ {0}
    OBVIOUS
  <2> DEFINE Places(A, B, C, D) ==
                /\ B \in 1 .. A /\ B + C \in 1 .. A /\ B + C + 1 \in 1 .. A
                /\ B + C + 1 + D \in 1 .. A /\ B + C + 1 + D \in Nat \ {0}
                /\ B + C + 1 + D + 2 = B + (C + 1 + D + 2)
  <2>2. \A A \in Nat, B \in Nat \ {0}, C \in Nat \ {0}, D \in Nat :
            B + C + 1 + D + 2 <= A + 1 => Places(A, B, C, D)
    OBVIOUS
  <2>3. /\ p \in 1 .. Len(in) /\ p + Len(s) \in 1 .. Len(in) /\ p + Len(s) + 1 \in 1 .. Len(in)
        /\ p + Len(s) + 1 + Len(c.ber) \in 1 .. Len(in)
        /\ p + Len(s) + 1 + Len(c.ber) \in Nat \ {0}
        /\ p + Len(s) + 1 + Len(c.ber) + 2 = p + (Len(s) + 1 + Len(c.ber) + 2)
    <3> HIDE DEF Places
    <3>1. Places(Len(in), p, Len(s), Len(c.ber))
      BY <1>2, <1>5, <2>1, <2>2, Zenon
    <3> QED BY <3>1 DEF Places
  <2> QED BY <1>2, <2>1, <2>3, Zenon
<1>7. ReadBERLength(in, p + Len(s)) = Length(-1, b)
  <2> DEFINE o == p + Len(s)
             l == <<128>>
  <2>1. Len(l) = 1 /\ l[1] = 128
    BY MarkBytes
  <2>2. o \in Nat /\ o <= Len(in) /\ o + 1 - 1 = o
    BY <1>6
  <2> HIDE DEF o, l
  <2>3. in[o + 1 - 1] = 128
    <3>1. At(in, o, l)
      BY <1>5 DEF o, l
    <3> QED BY <2>1, <3>1 DEF At
  <2>4. ReadBERLength(in, o) = [ok |-> TRUE, length |-> -1, next |-> o + 1]
    BY <2>2, <2>3, LengthCases
  <2> QED BY <2>4 DEF Length, o
<1>8. ~IsMark(in, p)
  <2>1. p \in Nat \ {0}
    BY <1>6
  <2> QED BY <1>5, <2>1, MarkStarts
<1>9. IsMark(in, q)
  BY <1>5, <1>6, MarkIs
<1> HIDE DEF b, q
<1>10. /\ up = 0 => w[up][p] = Invalid
       /\ up # 0 => w[up][p] = Opening(in, w[up - 1], s, b, -1)
  BY <1>5, <1>6, <1>7, <1>8, Opened
<1>11. CASE up = 0
  <2>1. ~(x.depth < up)
    BY <1>1, <1>3, <1>11
  <2> QED BY <1>10, <1>11, <2>1 DEF Expect
<1>12. CASE up # 0
  <2> DEFINE u == up - 1
  <2>1. u \in 0 .. n
    BY <1>12
  <2>2. x.depth < up <=> c.depth < u /\ u # 0
    <3>1. Deeper(c.depth, 0) + 1 < up <=> Deeper(c.depth, 0) < u
      BY <1>3
    <3>2. Deeper(c.depth, 0) < u <=> c.depth < u /\ 0 < u
      BY <1>3
    <3>3. 0 < u <=> u # 0
      BY <2>1
    <3> QED BY <1>1, <3>1, <3>2, <3>3
  <2>3. w[up][p] = ReadBERConstructed(in, w[u], s, b, -1)
    BY <1>10, <1>12 DEF Opening
  <2> HIDE DEF u
  <2>4. ~(-1 > Len(in) - b + 1)
    BY <1>6
  <2>5. CASE u = 0
    <3>1. w[0][b] = Invalid
      <4>1. 0 \in 0 .. n /\ b \in 1 .. Len(in) + 1
        BY <1>6
      <4> QED BY <4>1, LevelIs
    <3>2. \A v : IsRest(v, in, w[u], 0) => v[b] = Invalid
      <4> SUFFICES ASSUME NEW v, IsRest(v, in, w[u], 0) PROVE v[b] = Invalid
        OBVIOUS
      <4>1. v[b] = RestAt(v, in, w[u], 0, b)
        <5>1. b \in 1 .. Len(in) + 1
          BY <1>6
        <5> QED BY <5>1 DEF IsRest
      <4> QED BY <2>5, <3>1, <4>1, RestCases
    <3>3. Forward(in, w[u])
      BY <2>1, LevelsForward
    <3> DEFINE deeper == w[u]
    <3> HIDE DEF deeper
    <3>4. \E v : IsRest(v, in, deeper, 0) /\ ReadBERChildren(in, deeper, b, 0) = v[b]
      BY <3>3, ChildrenUnfold DEF deeper
    <3>5. ReadBERChildren(in, deeper, b, 0) = Invalid
      BY <3>2, <3>4 DEF deeper
    <3>6. ReadBERConstructed(in, deeper, s, b, -1) = Invalid
      <4>1. ReadBERChildren(in, deeper, b, IF -1 = -1 THEN 0 ELSE b + -1) = Invalid
        BY <3>5
      <4> QED BY <4>1, Fields DEF ReadBERConstructed
    <3> QED BY <2>2, <2>3, <2>5, <3>6 DEF Expect, deeper
  <2>6. CASE u # 0
    <3>1. ASSUME NEW v, IsRest(v, in, w[u], 0) PROVE v[b] = ExpectKids(c, u, q + 2)
      <4>1. q \in 1 .. Len(in) + 1 /\ b \in 1 .. Len(in) + 1 /\ ~(q > Len(in))
        BY <1>6
      <4>2. w[u][q] = Mark(q + 2)
        <5>1. w[u][q] = ReadBERObject(in, w[u - 1], q)
          BY <2>1, <2>6, <4>1, LevelIs
        <5> QED BY <1>9, <4>1, <5>1, ObjectUnfold
      <4>3. v[q] = RestAt(v, in, w[u], 0, q)
        BY <3>1, <4>1 DEF IsRest
      <4>4. v[q] = Kids(<<>>, q + 2)
        BY <4>1, <4>2, <4>3, RestCases
      <4>5. b + Len(c.ber) = q /\ 0 \in Nat
        BY DEF q
      <4> QED BY <1>5, <2>1, <3>1, <4>1, <4>4, <4>5 DEF ContentsRead
    <3>2. b \in Nat /\ MadeOf(in, w[u], b, -1, c, u, q + 2)
      BY <1>6, <3>1 DEF MadeOf
    <3>3. ReadBERConstructed(in, w[u], s, b, -1) = Made(s, c, u, q + 2)
      <4>1. Tag(s) /\ Contents(c) /\ Len(in) <= MaxBERSize /\ IsLevels(w, in, n)
        OBVIOUS
      <4> QED BY <2>1, <2>4, <3>2, <4>1, Constructs, SMTT(90)
    <3>4. w[up][p] = IF x.depth < up /\ x.size <= MaxBERSize THEN Read(x.der, p + Len(x.ber))
                     ELSE Invalid
      BY <1>1, <1>6, <2>2, <2>3, <2>6, <3>3 DEF Made
    <3> QED BY <3>4 DEF Expect
  <2> QED BY <2>5, <2>6
<1> QED BY <1>11, <1>12
-----------------------------------------------------------------------------
(* BER: the grammar *)

\* The strings of n letters.
LEMMA Strings ==
    ASSUME NEW A, NEW n \in Nat, NEW s
    PROVE  s \in [1 .. n -> A] <=> s \in Seq(A) /\ Len(s) = n
<1>1. ASSUME s \in [1 .. n -> A] PROVE s \in Seq(A) /\ Len(s) = n
  <2>1. s \in Seq(A)
    BY <1>1
  <2>2. DOMAIN s = 1 .. n /\ DOMAIN s = 1 .. Len(s) /\ Len(s) \in Nat
    BY <1>1, <2>1
  <2>3. Len(s) = n
    BY <2>2
  <2> QED BY <2>1, <2>3
<1>2. ASSUME s \in Seq(A), Len(s) = n PROVE s \in [1 .. n -> A]
  BY <1>2
<1> QED BY <1>1, <1>2

\* The grammar's tags are those that the reader takes.
LEMMA TagsAre ==
    ASSUME NEW A, A \subseteq Byte, NEW n \in Nat \ {0}, NEW s
    PROVE  s \in Tags(A, n) <=> Tag(s) /\ s \in Seq(A) /\ Len(s) = n
<1> DEFINE P(k) == IF k = 1 THEN ~HighTag(s[1])
                   ELSE /\ HighTag(s[1]) /\ s[2] # 128 /\ s[k] < 128 /\ k <= MaxBERTagSize
                        /\ \A i \in 2 .. k - 1 : s[i] > 127
<1>1. s \in Tags(A, n) <=> s \in [1 .. n -> A] /\ P(n)
  BY DEF Tags
<1>2. Tag(s) <=> s \in Seq(Byte) /\ Len(s) \in Nat \ {0} /\ P(Len(s))
  BY DEF Tag
<1> HIDE DEF P
<1>3. s \in [1 .. n -> A] <=> s \in Seq(A) /\ Len(s) = n
  BY Strings
<1>4. s \in Seq(A) => s \in Seq(Byte)
  <2> SUFFICES ASSUME s \in Seq(A) PROVE s \in Seq(Byte)
    OBVIOUS
  <2>1. \A i \in 1 .. Len(s) : s[i] \in A
    BY SeqElements
  <2>2. \A i \in 1 .. Len(s) : s[i] \in Byte
    BY <2>1
  <2> QED BY <2>2, OtherSeq
<1>5. CASE s \in Seq(A) /\ Len(s) = n
  <2>1. P(n) <=> P(Len(s))
    BY <1>5
  <2> QED BY <1>1, <1>2, <1>3, <1>4, <1>5, <2>1
<1>6. CASE ~(s \in Seq(A) /\ Len(s) = n)
  BY <1>1, <1>3, <1>6
<1> QED BY <1>5, <1>6

\* An object of n bytes: of a tag, a length, and what they belong to.
ShortObject(A, n, s, m, x) ==
    /\ Len(s) + Len(DerLength(m)) + m = n /\ ~IsConstructed(s[1])
    /\ \E content : content \in Seq(A) /\ Len(content) = m /\ x = Primitive(s, content)

LongObject(g, n, s, m, x) ==
    /\ Len(s) + Len(DerLength(m)) + m = n /\ IsConstructed(s[1])
    /\ \E c \in g[m].contents : x = Definite(s, c)

OpenObject(g, n, s, m, x) ==
    /\ Len(s) + m + 3 = n /\ IsConstructed(s[1])
    /\ \E c \in g[m].contents : x = Indefinite(s, c)

IsObject(A, g, n, x) ==
    /\ x # Primitive(<< 0 >>, <<>>)
    /\ \E s : \E m \in 0 .. n - 1 :
          /\ Tag(s) /\ s \in Seq(A) /\ Len(s) \in 1 .. n - 1
          /\ ShortObject(A, n, s, m, x) \/ LongObject(g, n, s, m, x) \/ OpenObject(g, n, s, m, x)

\* The grammar's objects of n bytes.
LEMMA ObjectsAre ==
    ASSUME NEW A, A \subseteq Byte, NEW g, NEW n \in Nat, NEW x
    PROVE  x \in ObjectsOf(A, g, n) <=> IsObject(A, g, n, x)
<1> DEFINE Short(t) == {tag \in Tags(A, t) : ~IsConstructed(tag[1])}
           Long(t) == {tag \in Tags(A, t) : IsConstructed(tag[1])}
           Definites(t, m) ==
            IF t + Len(DerLength(m)) + m # n THEN {}
            ELSE {Primitive(tag, content) : tag \in Short(t), content \in [1 .. m -> A]}
                 \cup {Definite(tag, kids) : tag \in Long(t), kids \in g[m].contents}
           Indefinites(t, m) ==
            IF t + m + 3 # n THEN {}
            ELSE {Indefinite(tag, kids) : tag \in Long(t), kids \in g[m].contents}
           U == {Definites(t, m) \cup Indefinites(t, m) : t \in 1 .. n - 1, m \in 0 .. n - 1}
<1>1. ObjectsOf(A, g, n) = (UNION U) \ {Primitive(<<0>>, <<>>)}
  BY DEF ObjectsOf
<1>2. ASSUME NEW t \in 1 .. n - 1, NEW m \in 0 .. n - 1
      PROVE  x \in Definites(t, m) <=>
                \E s : Tag(s) /\ s \in Seq(A) /\ Len(s) = t
                       /\ (ShortObject(A, n, s, m, x) \/ LongObject(g, n, s, m, x))
  <2>0. t \in Nat \ {0} /\ m \in Nat
    OBVIOUS
  <2>1. \A s : s \in Tags(A, t) <=> Tag(s) /\ s \in Seq(A) /\ Len(s) = t
    BY <2>0, TagsAre
  <2>2. \A content : content \in [1 .. m -> A] <=> content \in Seq(A) /\ Len(content) = m
    BY <2>0, Strings
  <2>3. x \in Definites(t, m) <=>
            /\ t + Len(DerLength(m)) + m = n
            /\ \/ \E s \in Tags(A, t) : ~IsConstructed(s[1])
                      /\ \E content \in [1 .. m -> A] : x = Primitive(s, content)
               \/ \E s \in Tags(A, t) : IsConstructed(s[1])
                      /\ \E c \in g[m].contents : x = Definite(s, c)
    OBVIOUS
  <2> HIDE DEF Definites
  <2> QED BY <2>1, <2>2, <2>3 DEF ShortObject, LongObject
<1>3. ASSUME NEW t \in 1 .. n - 1, NEW m \in 0 .. n - 1
      PROVE  x \in Indefinites(t, m) <=>
                \E s : Tag(s) /\ s \in Seq(A) /\ Len(s) = t /\ OpenObject(g, n, s, m, x)
  <2>0. t \in Nat \ {0}
    OBVIOUS
  <2>1. \A s : s \in Tags(A, t) <=> Tag(s) /\ s \in Seq(A) /\ Len(s) = t
    BY <2>0, TagsAre
  <2>3. x \in Indefinites(t, m) <=>
            /\ t + m + 3 = n
            /\ \E s \in Tags(A, t) : IsConstructed(s[1])
                      /\ \E c \in g[m].contents : x = Indefinite(s, c)
    OBVIOUS
  <2> HIDE DEF Indefinites
  <2> QED BY <2>1, <2>3 DEF OpenObject
<1> HIDE DEF Definites, Indefinites, U
<1>4. x \in ObjectsOf(A, g, n) <=>
        /\ x # Primitive(<< 0 >>, <<>>)
        /\ \E t \in 1 .. n - 1, m \in 0 .. n - 1 : x \in Definites(t, m) \/ x \in Indefinites(t, m)
  <2>1. x \in ObjectsOf(A, g, n) <=> x # Primitive(<< 0 >>, <<>>) /\ x \in UNION U
    <3> DEFINE V == UNION U
               y == Primitive(<<0>>, <<>>)
    <3> HIDE DEF U, V, y
    <3>2. ObjectsOf(A, g, n) = V \ {y}
      BY <1>1 DEF V, y
    <3>3. x \in V \ {y} <=> x # y /\ x \in V
      OBVIOUS
    <3> QED BY <3>2, <3>3 DEF V, y
  <2>2. x \in UNION U <=>
            \E t \in 1 .. n - 1, m \in 0 .. n - 1 : x \in Definites(t, m) \/ x \in Indefinites(t, m)
    <3>1. x \in UNION U <=> \E e \in U : x \in e
      OBVIOUS
    <3>2. \A e : e \in U <=> \E t \in 1 .. n - 1, m \in 0 .. n - 1 :
                                e = Definites(t, m) \cup Indefinites(t, m)
      BY DEF U
    <3>3. x \in UNION U <=> \E t \in 1 .. n - 1, m \in 0 .. n - 1 :
                                x \in Definites(t, m) \cup Indefinites(t, m)
      <4>1. ASSUME NEW e \in U, x \in e
            PROVE  \E t \in 1 .. n - 1, m \in 0 .. n - 1 : x \in Definites(t, m) \cup Indefinites(t, m)
        <5>1. PICK t \in 1 .. n - 1, m \in 0 .. n - 1 : e = Definites(t, m) \cup Indefinites(t, m)
          BY <3>2
        <5> QED BY <4>1, <5>1, Zenon
      <4>2. ASSUME NEW t \in 1 .. n - 1, NEW m \in 0 .. n - 1,
                   x \in Definites(t, m) \cup Indefinites(t, m)
            PROVE  x \in UNION U
        <5>1. Definites(t, m) \cup Indefinites(t, m) \in U
          BY <3>2, Zenon
        <5> QED BY <3>1, <4>2, <5>1, Zenon
      <4> QED BY <3>1, <4>1, <4>2, Zenon
    <3> QED BY <3>3
  <2> QED BY <2>1, <2>2
<1>5. x \in ObjectsOf(A, g, n) <=>
        /\ x # Primitive(<< 0 >>, <<>>)
        /\ \E t \in 1 .. n - 1, m \in 0 .. n - 1 : \E s :
              /\ Tag(s) /\ s \in Seq(A) /\ Len(s) = t
              /\ ShortObject(A, n, s, m, x) \/ LongObject(g, n, s, m, x) \/ OpenObject(g, n, s, m, x)
  BY <1>2, <1>3, <1>4
<1> QED BY <1>5 DEF IsObject

\* The grammar's contents of n bytes.
LEMMA ContentsAre ==
    ASSUME NEW g, NEW objects, NEW n \in Nat, NEW c
    PROVE  c \in ContentsOf(g, objects, n) <=>
                \/ n = 0 /\ c = NoKids
                \/ /\ n # 0
                   /\ \E k \in 2 .. n : \E a \in IF k = n THEN objects ELSE g[k].objects :
                        \E b \in g[n - k].contents : c = Join(a, b)
  BY DEF ContentsOf

\* Grammars that agree below n have the same objects and contents of n bytes.
LEMMA SameBelow ==
    ASSUME NEW A, A \subseteq Byte, NEW g, NEW h, NEW n \in Nat, \A m \in 0 .. n - 1 : g[m] = h[m]
    PROVE  /\ ObjectsOf(A, g, n) = ObjectsOf(A, h, n)
           /\ \A objects : ContentsOf(g, objects, n) = ContentsOf(h, objects, n)
<1>1. \A x : IsObject(A, g, n, x) <=> IsObject(A, h, n, x)
  BY DEF IsObject, LongObject, OpenObject
<1>2. \A x : x \in ObjectsOf(A, g, n) <=> x \in ObjectsOf(A, h, n)
  BY <1>1, ObjectsAre
<1>3. ASSUME NEW objects PROVE ContentsOf(g, objects, n) = ContentsOf(h, objects, n)
  <2>1. \A k \in 2 .. n : n - k \in 0 .. n - 1 /\ (k # n => k \in 0 .. n - 1)
    OBVIOUS
  <2>2. ASSUME NEW k \in 2 .. n
        PROVE  /\ (IF k = n THEN objects ELSE g[k].objects) = IF k = n THEN objects ELSE h[k].objects
               /\ g[n - k].contents = h[n - k].contents
    BY <2>1
  <2>3. \A c : c \in ContentsOf(g, objects, n) <=> c \in ContentsOf(h, objects, n)
    BY <2>2, ContentsAre
  <2> QED BY <2>3 DEF ContentsOf
<1>4. \A S, T : (\A x : x \in S <=> x \in T) => S = T
  OBVIOUS
<1>5. ObjectsOf(A, g, n) = ObjectsOf(A, h, n)
  BY <1>2, <1>4
<1> QED BY <1>3, <1>5

GrammarAt(g, A, n) ==
    [objects |-> ObjectsOf(A, g, n), contents |-> ContentsOf(g, ObjectsOf(A, g, n), n)]

IsGrammar(g, A, most) == g = [n \in 0 .. most |-> GrammarAt(g, A, n)]

\* What there is of n bytes depends on what is shorter.
LEMMA GrammarDepends ==
    ASSUME NEW A, A \subseteq Byte, NEW g, NEW h, NEW n \in Nat, \A m \in 0 .. n - 1 : g[m] = h[m]
    PROVE  GrammarAt(g, A, n) = GrammarAt(h, A, n)
  BY SameBelow DEF GrammarAt

\* There is a grammar.
LEMMA GrammarExists ==
    ASSUME NEW A, A \subseteq Byte, NEW most \in Nat
    PROVE  \E g : IsGrammar(g, A, most)
<1> DEFINE S == {k \in Nat : \E g : IsGrammar(g, A, k)}
<1>1. 0 \in S
  <2> DEFINE none == [k \in {} |-> NoKids]
             g == [k \in 0 .. 0 |-> GrammarAt(none, A, k)]
  <2>1. \A k \in 0 .. 0 : GrammarAt(none, A, k) = GrammarAt(g, A, k)
    <3> SUFFICES ASSUME NEW k \in 0 .. 0 PROVE GrammarAt(none, A, k) = GrammarAt(g, A, k)
      OBVIOUS
    <3> HIDE DEF none, g
    <3>1. k \in Nat /\ \A m \in 0 .. k - 1 : none[m] = g[m]
      OBVIOUS
    <3> QED BY <3>1, GrammarDepends
  <2>2. g = [k \in 0 .. 0 |-> g[k]] /\ \A k \in 0 .. 0 : g[k] = GrammarAt(none, A, k)
    OBVIOUS
  <2> HIDE DEF g
  <2>3. IsGrammar(g, A, 0)
    BY <2>1, <2>2 DEF IsGrammar
  <2> QED BY <2>3
<1>2. ASSUME NEW k \in Nat, k \in S PROVE k + 1 \in S
  <2>1. PICK g : IsGrammar(g, A, k)
    BY <1>2
  <2> DEFINE h == [i \in 0 .. k + 1 |-> IF i <= k THEN g[i] ELSE GrammarAt(g, A, k + 1)]
  <2>2. \A i \in 0 .. k + 1 : h[i] = GrammarAt(h, A, i)
    <3> SUFFICES ASSUME NEW i \in 0 .. k + 1 PROVE h[i] = GrammarAt(h, A, i)
      OBVIOUS
    <3>1. i \in Nat /\ \A m \in 0 .. i - 1 : h[m] = g[m]
      OBVIOUS
    <3> HIDE DEF h
    <3>2. GrammarAt(h, A, i) = GrammarAt(g, A, i)
      BY <3>1, GrammarDepends
    <3>3. CASE i <= k
      BY <2>1, <3>2, <3>3 DEF IsGrammar, h
    <3>4. CASE i = k + 1
      BY <3>2, <3>4 DEF h
    <3> QED BY <3>3, <3>4
  <2>3. h = [i \in 0 .. k + 1 |-> h[i]]
    OBVIOUS
  <2> HIDE DEF h
  <2>4. IsGrammar(h, A, k + 1)
    BY <2>2, <2>3 DEF IsGrammar
  <2> QED BY <2>4
<1> HIDE DEF S
<1>3. Nat \subseteq S
  BY <1>1, <1>2, NaturalInduction
<1> QED BY <1>3 DEF S

\* The grammar is what its definition says, length by length.
LEMMA GrammarUnfold ==
    ASSUME NEW A, A \subseteq Byte, NEW most \in Nat
    PROVE  IsGrammar(Grammar(A, most), A, most)
<1> DEFINE Same(g) == g = [n \in 0 .. most |->
                            [objects |-> ObjectsOf(A, g, n),
                             contents |-> ContentsOf(g, ObjectsOf(A, g, n), n)]]
           g == CHOOSE h : Same(h)
<1>1. Grammar(A, most) = [n \in 0 .. most |-> g[n]]
  BY DEF Grammar
<1>2. \A h : IsGrammar(h, A, most) <=> Same(h)
  BY DEF IsGrammar, GrammarAt
<1> HIDE DEF Same
<1>3. Same(g)
  BY <1>2, GrammarExists
<1> HIDE DEF g
<1>4. IsGrammar(g, A, most)
  BY <1>2, <1>3
<1>5. g = [n \in 0 .. most |-> g[n]]
  BY <1>4 DEF IsGrammar
<1> QED BY <1>1, <1>4, <1>5
-----------------------------------------------------------------------------
(* BER: what the grammar has is read *)

\* What is in the grammar, by length.
LEMMA MemberOf ==
    ASSUME NEW A, NEW most \in Nat, NEW g, IsGrammar(g, A, most), NEW n \in 0 .. most
    PROVE  /\ g[n].objects = ObjectsOf(A, g, n)
           /\ g[n].contents = ContentsOf(g, g[n].objects, n)
  BY DEF IsGrammar, GrammarAt

\* What the objects and contents of n bytes have in common.
GoodObject(x, n) == Object(x) /\ ObjectReads(x) /\ Len(x.ber) = n /\ n > 1
GoodContents(c, n) == Contents(c) /\ ContentsRead(c) /\ Len(c.ber) = n

\* Primitive objects of the grammar are read.
LEMMA GoodShort ==
    ASSUME NEW A, A \subseteq Byte, NEW s, Tag(s), NEW n \in Nat, NEW m \in Nat, NEW x,
           ShortObject(A, n, s, m, x), x # Primitive(<< 0 >>, <<>>)
    PROVE  GoodObject(x, n)
<1>1. PICK c : c \in Seq(A) /\ Len(c) = m /\ x = Primitive(s, c)
  BY DEF ShortObject
<1>2. c \in Seq(Nat)
  <2>1. \A i \in 1 .. Len(c) : c[i] \in A
    BY <1>1, SeqElements
  <2>2. \A i \in 1 .. Len(c) : c[i] \in Nat
    BY <2>1, BytesAreNumbers
  <2> QED BY <1>1, <2>2, OtherSeq
<1>3. Object(x) /\ ObjectReads(x)
  BY <1>1, <1>2, PrimitiveReads DEF ShortObject
<1>4. Len(s \o DerLength(Len(c)) \o c) = Len(s) + Len(DerLength(Len(c))) + Len(c)
  BY <1>2, DerType
<1>5. x.ber = s \o DerLength(Len(c)) \o c
  BY <1>1 DEF Primitive
<1>6. Len(x.ber) = n
  BY <1>1, <1>4, <1>5 DEF ShortObject
<1>7. n > 1
  <2>1. Len(s) \in Nat \ {0} /\ Len(DerLength(m)) \in 1 .. 4 /\ Len(s) + Len(DerLength(m)) + m = n
    BY TagNat, DerLengthType DEF ShortObject
  <2>2. \A i \in Nat \ {0}, j \in 1 .. 4 : i + j + m = n => n > 1
    OBVIOUS
  <2> QED BY <2>1, <2>2, Zenon
<1> QED BY <1>3, <1>6, <1>7 DEF GoodObject

\* Constructed ones of definite length are.
LEMMA GoodLong ==
    ASSUME NEW s, Tag(s), NEW g, NEW n \in Nat, NEW m \in Nat, NEW x, LongObject(g, n, s, m, x),
           \A c \in g[m].contents : GoodContents(c, m)
    PROVE  GoodObject(x, n)
<1>1. PICK c \in g[m].contents : x = Definite(s, c)
  BY DEF LongObject
<1>2. Contents(c) /\ ContentsRead(c) /\ Len(c.ber) = m
  BY DEF GoodContents
<1>3. Object(x) /\ ObjectReads(x)
  BY <1>1, <1>2, DefiniteReads DEF LongObject
<1>4. c.ber \in Seq(Nat)
  BY <1>2 DEF Contents
<1>5. Len(s \o DerLength(Len(c.ber)) \o c.ber) = Len(s) + Len(DerLength(Len(c.ber))) + Len(c.ber)
  BY <1>4, DerType
<1>6. x.ber = s \o DerLength(Len(c.ber)) \o c.ber
  BY <1>1 DEF Definite
<1>7. Len(x.ber) = n
  BY <1>2, <1>5, <1>6 DEF LongObject
<1>8. n > 1
  <2>1. Len(s) \in Nat \ {0} /\ Len(DerLength(m)) \in 1 .. 4 /\ Len(s) + Len(DerLength(m)) + m = n
    BY TagNat, DerLengthType DEF LongObject
  <2>2. \A i \in Nat \ {0}, j \in 1 .. 4 : i + j + m = n => n > 1
    OBVIOUS
  <2> QED BY <2>1, <2>2, Zenon
<1> QED BY <1>3, <1>7, <1>8 DEF GoodObject

\* And those of indefinite length.
LEMMA GoodOpen ==
    ASSUME NEW s, Tag(s), NEW g, NEW n \in Nat, NEW m \in Nat, NEW x, OpenObject(g, n, s, m, x),
           \A c \in g[m].contents : GoodContents(c, m)
    PROVE  GoodObject(x, n)
<1>1. PICK c \in g[m].contents : x = Indefinite(s, c)
  BY DEF OpenObject
<1>2. Contents(c) /\ ContentsRead(c) /\ Len(c.ber) = m
  BY DEF GoodContents
<1>3. Object(x) /\ ObjectReads(x)
  BY <1>1, <1>2, IndefiniteReads DEF OpenObject
<1>4. Len(x.ber) = Len(s) + 1 + Len(c.ber) + 2
  BY <1>1, <1>2, MarkedKids, Zenon
<1>5. Len(s) \in Nat \ {0} /\ Len(s) + m + 3 = n
  BY TagNat DEF OpenObject
<1>6. \A i \in Nat \ {0} : i + m + 3 = n => i + 1 + m + 2 = n /\ n > 1
  OBVIOUS
<1>7. Len(s) + 1 + m + 2 = n /\ n > 1
  BY <1>5, <1>6, Zenon
<1>8. Len(x.ber) = n
  BY <1>2, <1>4, <1>7
<1> QED BY <1>3, <1>7, <1>8 DEF GoodObject

\* So all objects made of contents that are read are read.
LEMMA GoodObjects ==
    ASSUME NEW A, A \subseteq Byte, NEW g, NEW n \in Nat, NEW x, x \in ObjectsOf(A, g, n),
           \A m \in 0 .. n - 1 : \A c \in g[m].contents : GoodContents(c, m)
    PROVE  GoodObject(x, n)
<1>1. IsObject(A, g, n, x)
  BY ObjectsAre
<1>2. PICK s : \E m \in 0 .. n - 1 :
          /\ Tag(s) /\ s \in Seq(A) /\ Len(s) \in 1 .. n - 1
          /\ ShortObject(A, n, s, m, x) \/ LongObject(g, n, s, m, x) \/ OpenObject(g, n, s, m, x)
  BY <1>1 DEF IsObject
<1>3. PICK m \in 0 .. n - 1 :
          /\ Tag(s) /\ s \in Seq(A) /\ Len(s) \in 1 .. n - 1
          /\ ShortObject(A, n, s, m, x) \/ LongObject(g, n, s, m, x) \/ OpenObject(g, n, s, m, x)
  BY <1>2
<1>4. m \in Nat /\ x # Primitive(<<0>>, <<>>) /\ \A c \in g[m].contents : GoodContents(c, m)
  BY <1>1 DEF IsObject
<1>5. CASE ShortObject(A, n, s, m, x)
  BY <1>3, <1>4, <1>5, GoodShort
<1>6. CASE LongObject(g, n, s, m, x)
  BY <1>3, <1>4, <1>6, GoodLong
<1>7. CASE OpenObject(g, n, s, m, x)
  BY <1>3, <1>4, <1>7, GoodOpen
<1> QED BY <1>3, <1>5, <1>6, <1>7

\* And so are contents made of objects that are.
LEMMA GoodJoin ==
    ASSUME NEW a, NEW b, NEW k \in Nat, NEW m \in Nat, GoodObject(a, k), GoodContents(b, m)
    PROVE  GoodContents(Join(a, b), k + m)
<1>1. Object(a) /\ ObjectReads(a) /\ Contents(b) /\ ContentsRead(b) /\ Len(a.ber) = k /\ Len(b.ber) = m
  BY DEF GoodObject, GoodContents
<1>2. Contents(Join(a, b)) /\ Len(Join(a, b).ber) = Len(a.ber) + Len(b.ber)
  BY <1>1, JoinType
<1>3. ContentsRead(Join(a, b))
  BY <1>1, JoinReads
<1> QED BY <1>1, <1>2, <1>3 DEF GoodContents

\* Empty contents are read.
LEMMA NoKidsGood == GoodContents(NoKids, 0)
<1>1. NoKids.ber = <<>> /\ Len(<<>>) = 0
  BY DEF NoKids
<1> QED BY <1>1, NoKidsRead DEF GoodContents

\* All of the grammar is read.
LEMMA GrammarGood ==
    ASSUME NEW A, A \subseteq Byte, NEW most \in Nat, NEW g, IsGrammar(g, A, most),
           NEW n \in 0 .. most
    PROVE  /\ \A x \in g[n].objects : GoodObject(x, n)
           /\ \A c \in g[n].contents : GoodContents(c, n)
<1> DEFINE Good(k) == /\ \A x \in g[k].objects : GoodObject(x, k)
                      /\ \A c \in g[k].contents : GoodContents(c, k)
           S == {k \in Nat : \A m \in 0 .. k - 1 : m <= most => Good(m)}
<1>1. 0 \in S
  OBVIOUS
<1>2. ASSUME NEW k \in 0 .. most, \A m \in 0 .. k - 1 : Good(m) PROVE Good(k)
  <2>0. k \in Nat
    OBVIOUS
  <2>1. /\ g[k].objects = ObjectsOf(A, g, k)
        /\ g[k].contents = ContentsOf(g, g[k].objects, k)
    BY MemberOf
  <2>2. ASSUME NEW x \in g[k].objects PROVE GoodObject(x, k)
    <3>1. x \in ObjectsOf(A, g, k) /\ \A m \in 0 .. k - 1 : \A c \in g[m].contents : GoodContents(c, m)
      BY <1>2, <2>1
    <3> QED BY <2>0, <3>1, GoodObjects
  <2>3. ASSUME NEW c \in g[k].contents PROVE GoodContents(c, k)
    <3>1. c \in ContentsOf(g, g[k].objects, k)
      BY <2>1
    <3>2. CASE k = 0
      <4>1. c = NoKids
        BY <3>1, <3>2, ContentsAre
      <4> QED BY <3>2, <4>1, NoKidsGood
    <3>3. CASE k # 0
      <4>1. PICK i \in 2 .. k : \E a \in IF i = k THEN g[k].objects ELSE g[i].objects :
                                    \E b \in g[k - i].contents : c = Join(a, b)
        BY <2>0, <3>1, <3>3, ContentsAre
      <4>2. i \in Nat /\ k - i \in Nat /\ k - i \in 0 .. k - 1 /\ i + (k - i) = k
            /\ (i # k => i \in 0 .. k - 1)
        OBVIOUS
      <4>3. PICK a \in g[i].objects : \E b \in g[k - i].contents : c = Join(a, b)
        BY <4>1
      <4>4. PICK b \in g[k - i].contents : c = Join(a, b)
        BY <4>3
      <4>5. GoodObject(a, i)
        BY <1>2, <2>2, <4>2
      <4>6. GoodContents(b, k - i)
        BY <1>2, <4>2
      <4> DEFINE j == k - i
      <4>7. j \in Nat /\ i + j = k /\ GoodContents(b, j)
        BY <4>2, <4>6
      <4> HIDE DEF j
      <4>8. GoodContents(Join(a, b), i + j)
        BY <4>2, <4>5, <4>7, GoodJoin
      <4> QED BY <4>4, <4>7, <4>8
    <3> QED BY <3>2, <3>3
  <2> QED BY <2>2, <2>3
<1> HIDE DEF Good
<1>3. ASSUME NEW k \in Nat, k \in S PROVE k + 1 \in S
  <2> SUFFICES ASSUME NEW m \in 0 .. k, m <= most PROVE Good(m)
    OBVIOUS
  <2>1. \A i \in 0 .. k - 1 : i <= most => Good(i)
    BY <1>3
  <2>2. CASE m = k
    <3>1. k \in 0 .. most /\ \A i \in 0 .. k - 1 : Good(i)
      BY <2>1, <2>2
    <3> QED BY <1>2, <2>2, <3>1
  <2>3. CASE m # k
    BY <2>1, <2>3
  <2> QED BY <2>2, <2>3
<1> HIDE DEF S
<1>4. n + 1 \in S
  <2>1. n + 1 \in Nat
    OBVIOUS
  <2> QED BY <1>1, <1>3, <2>1, NaturalInduction
<1>5. Good(n)
  BY <1>4 DEF S
<1> QED BY <1>5 DEF Good
-----------------------------------------------------------------------------
(* BER: what is read is in the grammar *)

\* Three byte strings, each at its place, are there together.
LEMMA AllOfThree ==
    ASSUME NEW in \in Seq(Byte), NEW p \in Nat \ {0}, NEW a \in Seq(Nat), NEW b \in Seq(Nat),
           NEW c \in Seq(Nat), At(in, p, a), At(in, p + Len(a), b), At(in, p + Len(a) + Len(b), c)
    PROVE  At(in, p, a \o b \o c)
<1> DEFINE ab == a \o b
<1>1. ab \in Seq(Nat) /\ Len(ab) = Len(a) + Len(b) /\ Len(a) \in Nat /\ Len(b) \in Nat
  BY Concat
<1>2. At(in, p, ab)
  BY AtConcat
<1> HIDE DEF ab
<1>3. p + Len(ab) = p + Len(a) + Len(b)
  BY <1>1
<1>4. At(in, p + Len(ab), c)
  BY <1>3
<1>5. At(in, p, ab \o c)
  BY <1>1, <1>2, <1>4, AtConcat
<1> QED BY <1>5 DEF ab

\* Bytes of a string over A are in A.
LEMMA PartOf ==
    ASSUME NEW A, A \subseteq Byte, NEW in \in Seq(A), NEW p \in Nat \ {0}, NEW s \in Seq(Byte),
           At(in, p, s)
    PROVE  s \in Seq(A)
<1>1. Len(s) \in Nat /\ Len(in) \in Nat /\ p + Len(s) <= Len(in) + 1
  BY DEF At
<1>2. \A i \in 1 .. Len(s) : p + i - 1 \in 1 .. Len(in)
  BY <1>1
<1>3. \A i \in 1 .. Len(s) : s[i] = in[p + i - 1]
  BY DEF At
<1>4. \A i \in 1 .. Len(in) : in[i] \in A
  BY SeqElements
<1>5. \A i \in 1 .. Len(s) : s[i] \in A
  BY <1>2, <1>3, <1>4
<1> QED BY <1>5, OtherSeq

\* A string over bytes is one of numbers.
LEMMA SeqOfBytes ==
    ASSUME NEW A, A \subseteq Byte, NEW in \in Seq(A)
    PROVE  in \in Seq(Byte) /\ in \in Seq(Nat) /\ Len(in) \in Nat
<1>1. \A i \in 1 .. Len(in) : in[i] \in A
  BY SeqElements
<1>2. \A i \in 1 .. Len(in) : in[i] \in Byte
  BY <1>1
<1>3. in \in Seq(Byte)
  BY <1>2, OtherSeq
<1> QED BY <1>3, BytesNat

\* Whether there is an object of the grammar from o up to n.
ObjectAt(g, in, o, n) == \E x \in g[n - o].objects : At(in, o, x.ber)

\* Whether there are contents from o on, up to the end or the mark, with e after them.
Ends(in, end, q, e) ==
    \/ end # 0 /\ q = end /\ e = end
    \/ end = 0 /\ IsMark(in, q) /\ e = q + 2

ContentsAt(g, in, end, o, q) == \E c \in g[q - o].contents : At(in, o, c.ber)

ObjectsAt(g, in, deeper) ==
    \A o \in 1 .. Len(in) + 1 : \A d : \A n \in o + 1 .. Len(in) + 1 :
        deeper[o] = Read(d, n) => ObjectAt(g, in, o, n)

\* There are empty contents at every place.
LEMMA NothingAt ==
    ASSUME NEW A, NEW most \in Nat, NEW g, IsGrammar(g, A, most), NEW in \in Seq(Byte),
           NEW end, NEW p \in 1 .. Len(in) + 1
    PROVE  ContentsAt(g, in, end, p, p)
<1>1. 0 \in 0 .. most /\ p - p = 0
  OBVIOUS
<1>2. NoKids \in g[0].contents
  <2>0. \A n \in 0 .. most : g[n].contents = ContentsOf(g, g[n].objects, n)
    BY MemberOf
  <2>1. g[0].contents = ContentsOf(g, g[0].objects, 0)
    BY <1>1, <2>0
  <2>2. NoKids \in ContentsOf(g, g[0].objects, 0)
    BY ContentsAre
  <2> QED BY <2>1, <2>2
<1>3. NoKids.ber = <<>> /\ Len(<<>>) = 0
  BY DEF NoKids
<1>4. At(in, p, NoKids.ber)
  <2>1. p + 0 <= Len(in) + 1
    OBVIOUS
  <2> QED BY <1>3, <2>1 DEF At
<1> QED BY <1>1, <1>2, <1>4 DEF ContentsAt

\* An object, and contents after it, are contents from its place on.
LEMMA OneMore ==
    ASSUME NEW A, A \subseteq Byte, NEW most \in Nat, NEW g, IsGrammar(g, A, most),
           NEW in \in Seq(A), Len(in) <= most, NEW end,
           NEW p \in 1 .. Len(in) + 1, NEW m \in p + 1 .. Len(in) + 1, NEW q \in m .. Len(in) + 1,
           ObjectAt(g, in, p, m), ContentsAt(g, in, end, m, q)
    PROVE  ContentsAt(g, in, end, p, q)
<1> DEFINE i == m - p
           j == q - m
           k == q - p
<1>1. in \in Seq(Byte) /\ Len(in) \in Nat
  BY SeqOfBytes
<1>2. /\ i \in 0 .. most /\ j \in 0 .. most /\ k \in 0 .. most /\ k # 0 /\ k \in Nat
      /\ i <= k /\ k - i = j /\ p + i = m /\ i \in Nat /\ p \in Nat \ {0}
  BY <1>1
<1>3. PICK x \in g[i].objects : At(in, p, x.ber)
  BY DEF ObjectAt
<1>4. PICK c \in g[j].contents : At(in, m, c.ber)
  BY DEF ContentsAt
<1> HIDE DEF i, j, k
<1>5. GoodObject(x, i)
  BY <1>2, GrammarGood
<1>6. GoodContents(c, j)
  BY <1>2, GrammarGood
<1>7. i \in 2 .. k
  BY <1>2, <1>5 DEF GoodObject
<1>8. Join(x, c) \in g[k].contents
  <2>0. k \in 0 .. most
    BY <1>2
  <2>1. g[k].contents = ContentsOf(g, g[k].objects, k)
    BY <2>0, MemberOf, Zenon
  <2>2. x \in IF i = k THEN g[k].objects ELSE g[i].objects
    BY <1>3
  <2>3. c \in g[k - i].contents
    BY <1>2, <1>4
  <2>4. Join(x, c) \in ContentsOf(g, g[k].objects, k)
    BY <1>2, <1>7, <2>2, <2>3, ContentsAre
  <2> QED BY <2>1, <2>4
<1>9. At(in, p, Join(x, c).ber)
  <2>1. Object(x) /\ Contents(c) /\ Len(x.ber) = i
    BY <1>5, <1>6 DEF GoodObject, GoodContents
  <2>2. x.ber \in Seq(Nat) /\ c.ber \in Seq(Nat)
    BY <2>1 DEF Object, Contents
  <2>3. At(in, p, x.ber \o c.ber)
    BY <1>1, <1>2, <1>3, <1>4, <2>1, <2>2, AtConcat
  <2>4. Join(x, c).ber = x.ber \o c.ber
    BY DEF Join
  <2> QED BY <2>3, <2>4
<1> QED BY <1>8, <1>9 DEF ContentsAt, k

\* The contents that are read are contents of the grammar.
LEMMA KidsFound ==
    ASSUME NEW A, A \subseteq Byte, NEW most \in Nat, NEW g, IsGrammar(g, A, most),
           NEW in \in Seq(A), Len(in) <= most, NEW deeper, Forward(in, deeper),
           ObjectsAt(g, in, deeper), NEW end \in Nat, NEW v, IsRest(v, in, deeper, end),
           NEW o \in 1 .. Len(in) + 1, NEW c, NEW e, v[o] = Kids(c, e)
    PROVE  \E q \in o .. Len(in) + 1 : Ends(in, end, q, e) /\ ContentsAt(g, in, end, o, q)
<1> DEFINE L == Len(in) + 1
           Good(p) == \A d, f : v[p] = Kids(d, f) =>
                        \E q \in p .. L : Ends(in, end, q, f) /\ ContentsAt(g, in, end, p, q)
           S == {p \in 1 .. L : Good(p)}
<1>0. L \in Nat /\ L = Len(in) + 1 /\ Len(in) \in Nat /\ in \in Seq(Byte)
  BY SeqOfBytes
<1>x. \A d, f : Kids(d, f) # Invalid
  BY Fields
<1>y. \A d, f, a, b : Kids(d, f) = Kids(a, b) => f = b
  BY Fields
<1> HIDE DEF L
<1>1. ASSUME NEW p \in 1 .. L, \A n \in p + 1 .. L : n \in S PROVE Good(p)
  <2> SUFFICES ASSUME NEW d, NEW f, v[p] = Kids(d, f)
               PROVE  \E q \in p .. L : Ends(in, end, q, f) /\ ContentsAt(g, in, end, p, q)
    OBVIOUS
  <2> DEFINE r == RestAt(v, in, deeper, end, p)
  <2>0. p \in 1 .. Len(in) + 1 /\ p \in p .. L
    BY <1>0
  <2>1. v[p] = r
    BY <2>0 DEF IsRest
  <2> HIDE DEF r
  <2>2. /\ end # 0 /\ p = end => r = Kids(<<>>, p)
        /\ ~(end # 0 /\ p = end) /\ ((end # 0 /\ p > end) \/ p > Len(in)) => r = Invalid
        /\ ~(end # 0 /\ p = end) /\ deeper[p] = Invalid => r = Invalid
        /\ ~(end # 0 /\ p = end) /\ end # 0 /\ (\E n : deeper[p] = Mark(n)) => r = Invalid
        /\ \A n : end = 0 /\ ~(p > Len(in)) /\ deeper[p] = Mark(n) => r = Kids(<<>>, n)
        /\ \A a, n : ~(end # 0 /\ (p = end \/ p > end)) /\ ~(p > Len(in)) /\ deeper[p] = Read(a, n)
                        => r = Grown(a, v[n])
    BY RestCases DEF r
  <2>3. r = Kids(d, f) /\ r # Invalid
    BY <1>x, <2>1
  <2>4. ContentsAt(g, in, end, p, p)
    BY <1>0, <2>0, NothingAt
  <2>5. CASE end # 0 /\ p = end
    <3>1. f = p
      BY <1>y, <2>2, <2>3, <2>5
    <3>2. Ends(in, end, p, f)
      BY <2>5, <3>1 DEF Ends
    <3> QED BY <2>0, <2>4, <3>2
  <2>6. CASE ~(end # 0 /\ p = end)
    <3>1. ~((end # 0 /\ p > end) \/ p > Len(in)) /\ deeper[p] # Invalid
      BY <2>2, <2>3, <2>6
    <3>2. Result(in, p, deeper[p])
      BY <2>0 DEF Forward
    <3>3. CASE deeper[p] = Mark(p + 2) /\ p < Len(in) /\ in[p] = 0 /\ in[p + 1] = 0
      <4>1. end = 0
        BY <2>2, <2>3, <2>6, <3>3
      <4>2. f = p + 2
        BY <1>y, <2>2, <2>3, <3>1, <3>3, <4>1
      <4>3. Ends(in, end, p, f)
        BY <3>3, <4>1, <4>2 DEF Ends, IsMark
      <4> QED BY <2>0, <2>4, <4>3
    <3>4. ASSUME NEW a, NEW n \in p + 1 .. Len(in) + 1, deeper[p] = Read(a, n)
          PROVE  \E q \in p .. L : Ends(in, end, q, f) /\ ContentsAt(g, in, end, p, q)
      <4>1. r = Grown(a, v[n])
        BY <2>2, <2>6, <3>1, <3>4
      <4>2. n \in 1 .. Len(in) + 1 /\ n \in p + 1 .. L
        BY <1>0
      <4>3. v[n] = Invalid \/ \E b : \E h \in n .. Len(in) + 1 : v[n] = Kids(b, h)
        BY <1>0, <4>2, RestForward
      <4>4. v[n] # Invalid
        BY <2>3, <4>1, GrownKids
      <4>5. PICK b : \E h \in n .. Len(in) + 1 : v[n] = Kids(b, h)
        BY <4>3, <4>4
      <4>6. PICK h \in n .. Len(in) + 1 : v[n] = Kids(b, h)
        BY <4>5
      <4>7. r = Invalid \/ r = Kids(a \o b, h)
        <5>1. r = Grown(a, Kids(b, h))
          BY <4>1, <4>6
        <5> QED BY <5>1, GrownKids
      <4>8. f = h
        BY <1>y, <2>3, <4>7
      <4>9. PICK q \in n .. L : Ends(in, end, q, h) /\ ContentsAt(g, in, end, n, q)
        <5>1. Good(n)
          BY <1>1, <4>2
        <5> QED BY <4>6, <5>1
      <4>10. ObjectAt(g, in, p, n)
        BY <2>0, <3>4 DEF ObjectsAt
      <4>11. q \in n .. Len(in) + 1 /\ q \in p .. L
        BY <1>0, <4>2
      <4>12. ContentsAt(g, in, end, p, q)
        BY <2>0, <4>9, <4>10, <4>11, OneMore
      <4> QED BY <4>8, <4>9, <4>11, <4>12
    <3> QED BY <3>1, <3>2, <3>3, <3>4 DEF Result
  <2> QED BY <2>5, <2>6
<1> HIDE DEF Good
<1>2. \A p \in 1 .. L : (\A n \in p + 1 .. L : n \in S) => p \in S
  BY <1>1
<1> HIDE DEF S
<1>3. o \in S
  BY <1>0, <1>2, Descending, ZenonT(60)
<1>4. Good(o)
  BY <1>3 DEF S
<1> QED BY <1>0, <1>4 DEF Good

\* What is not the end mark is not the object that looks like it.
LEMMA NotTheMark ==
    ASSUME NEW in \in Seq(Byte), NEW o \in Nat \ {0}, ~IsMark(in, o), NEW x, At(in, o, x.ber)
    PROVE  x # Primitive(<<0>>, <<>>)
<1> SUFFICES ASSUME x = Primitive(<< 0 >>, <<>>) PROVE FALSE
  OBVIOUS
<1>1. x.ber = <<0>> \o DerLength(0) \o <<>>
  <2>1. Len(<<>>) = 0
    OBVIOUS
  <2> QED BY <2>1 DEF Primitive
<1>2. DerLength(0) = <<0>>
  BY DEF DerLength
<1>3. <<0>> \o <<0>> = <<0, 0>>
  BY PrefixOne
<1>4. <<0, 0>> \o <<>> = <<0, 0>>
  OBVIOUS
<1>5. x.ber = <<0, 0>>
  BY <1>1, <1>2, <1>3, <1>4
<1> QED BY <1>5, MarkIs

\* What is an object of the grammar is found.
LEMMA ToFound ==
    ASSUME NEW A, A \subseteq Byte, NEW most \in Nat, NEW g, IsGrammar(g, A, most),
           NEW in \in Seq(A), NEW o \in Nat \ {0}, ~IsMark(in, o), NEW n \in Nat, n - o \in 0 .. most,
           NEW s, Tag(s), s \in Seq(A), NEW m \in Nat, NEW x, At(in, o, x.ber),
           \/ ShortObject(A, n - o, s, m, x)
           \/ LongObject(g, n - o, s, m, x)
           \/ OpenObject(g, n - o, s, m, x)
    PROVE  ObjectAt(g, in, o, n)
<1> DEFINE k == n - o
<1>1. x # Primitive(<<0>>, <<>>)
  BY SeqOfBytes, NotTheMark
<1>2. Len(s) \in Nat \ {0} /\ Len(DerLength(m)) \in 1 .. 4
  BY TagNat, DerLengthType
<1>3. Len(s) + Len(DerLength(m)) + m = k \/ Len(s) + m + 3 = k
  BY DEF ShortObject, LongObject, OpenObject
<1>4. k \in 0 .. most /\ k \in Nat
  OBVIOUS
<1>0. \/ ShortObject(A, k, s, m, x) \/ LongObject(g, k, s, m, x) \/ OpenObject(g, k, s, m, x)
  OBVIOUS
<1>6. \A x1 \in g[k].objects : At(in, o, x1.ber) => ObjectAt(g, in, o, n)
  BY DEF ObjectAt
<1> HIDE DEF k
<1>5. Len(s) \in 1 .. k - 1 /\ m \in 0 .. k - 1
  <2>1. \A i \in Nat \ {0}, j \in 1 .. 4 : i + j + m = k \/ i + m + 3 = k
            => i \in 1 .. k - 1 /\ m \in 0 .. k - 1
    BY <1>4
  <2> QED BY <1>2, <1>3, <2>1, Zenon
<1>7. IsObject(A, g, k, x)
  BY <1>0, <1>1, <1>5 DEF IsObject
<1>8. x \in ObjectsOf(A, g, k)
  BY <1>4, <1>7, ObjectsAre
<1>9. g[k].objects = ObjectsOf(A, g, k)
  BY <1>4, MemberOf, Zenon
<1> QED BY <1>6, <1>8, <1>9

\* Where the parts of an object are.
LEMMA TogetherAt ==
    ASSUME NEW in \in Seq(Byte), NEW o \in Nat \ {0}, NEW s, Tag(s), At(in, o, s),
           NEW k \in Nat, At(in, o + Len(s), DerLength(k)),
           NEW b, b = o + Len(s) + Len(DerLength(k)), NEW c \in Seq(Nat), At(in, b, c)
    PROVE  At(in, o, s \o DerLength(k) \o c)
<1> DEFINE D == DerLength(k)
<1>1. s \in Seq(Nat) /\ D \in Seq(Nat)
  BY TagNat, DerLengthType
<1>2. At(in, o, s) /\ At(in, o + Len(s), D) /\ At(in, o + Len(s) + Len(D), c)
  OBVIOUS
<1> HIDE DEF D
<1>3. At(in, o, s \o D \o c)
  BY <1>1, <1>2, AllOfThree
<1> QED BY <1>3 DEF D

\* The length of an object, from its parts.
LEMMA SumIs ==
    ASSUME NEW s, Tag(s), NEW o \in Nat \ {0}, NEW k \in Nat, NEW n \in Nat,
           n = o + Len(s) + Len(DerLength(k)) + k
    PROVE  Len(s) + Len(DerLength(k)) + k = n - o
<1>1. Len(s) \in Nat \ {0} /\ Len(DerLength(k)) \in 1 .. 4
  BY TagNat, DerLengthType
<1>2. \A i \in Nat \ {0}, j \in 1 .. 4 : n = o + i + j + k => i + j + k = n - o
  OBVIOUS
<1> QED BY <1>1, <1>2, Zenon

\* A tag, a length and as many bytes are a primitive object of the grammar.
LEMMA ShortFound ==
    ASSUME NEW A, A \subseteq Byte, NEW most \in Nat, NEW g, IsGrammar(g, A, most),
           NEW in \in Seq(A), NEW o \in Nat \ {0}, ~IsMark(in, o), NEW s, Tag(s), At(in, o, s),
           ~IsConstructed(s[1]), NEW k \in Nat, At(in, o + Len(s), DerLength(k)),
           NEW b, b = o + Len(s) + Len(DerLength(k)), NEW n \in Nat, n = b + k, n - o \in 0 .. most,
           NEW c \in Seq(A), Len(c) = k, At(in, b, c)
    PROVE  ObjectAt(g, in, o, n)
<1> DEFINE x == Primitive(s, c)
<1>1. in \in Seq(Byte) /\ c \in Seq(Nat)
  BY SeqOfBytes
<1>2. s \in Seq(A)
  BY <1>1, PartOf DEF Tag
<1>3. x.ber = s \o DerLength(k) \o c
  BY DEF Primitive
<1>4. At(in, o, s \o DerLength(k) \o c)
  BY <1>1, TogetherAt
<1>5. Len(s) + Len(DerLength(k)) + k = n - o
  BY SumIs
<1>6. ShortObject(A, n - o, s, k, x)
  BY <1>5 DEF ShortObject
<1>7. At(in, o, x.ber)
  BY <1>3, <1>4
<1> HIDE DEF x
<1> QED BY <1>2, <1>6, <1>7, ToFound

\* A tag, a length and contents as long are a constructed one.
LEMMA LongFound ==
    ASSUME NEW A, A \subseteq Byte, NEW most \in Nat, NEW g, IsGrammar(g, A, most),
           NEW in \in Seq(A), NEW o \in Nat \ {0}, ~IsMark(in, o), NEW s, Tag(s), At(in, o, s),
           IsConstructed(s[1]), NEW k \in 0 .. most, At(in, o + Len(s), DerLength(k)),
           NEW b, b = o + Len(s) + Len(DerLength(k)), NEW n \in Nat, n = b + k, n - o \in 0 .. most,
           NEW c \in g[k].contents, At(in, b, c.ber)
    PROVE  ObjectAt(g, in, o, n)
<1> DEFINE x == Definite(s, c)
<1>1. in \in Seq(Byte) /\ k \in Nat
  BY SeqOfBytes
<1>2. s \in Seq(A)
  BY <1>1, PartOf DEF Tag
<1>3. c.ber \in Seq(Nat) /\ Len(c.ber) = k
  <2>1. GoodContents(c, k)
    BY GrammarGood
  <2> QED BY <2>1 DEF GoodContents, Contents
<1>4. x.ber = s \o DerLength(k) \o c.ber
  BY <1>3 DEF Definite
<1>5. At(in, o, s \o DerLength(k) \o c.ber)
  BY <1>1, <1>3, TogetherAt
<1>6. Len(s) + Len(DerLength(k)) + k = n - o
  BY <1>1, SumIs
<1>7. LongObject(g, n - o, s, k, x)
  BY <1>6 DEF LongObject
<1>8. At(in, o, x.ber)
  BY <1>4, <1>5
<1> HIDE DEF x
<1> QED BY <1>1, <1>2, <1>7, <1>8, ToFound

\* The bytes that mark an indefinite length and its end.
LEMMA MarksAt ==
    ASSUME NEW in \in Seq(Byte), NEW p \in Nat, p <= Len(in)
    PROVE  /\ in[p] = 128 => At(in, p, <<128>>)
           /\ IsMark(in, p) => At(in, p, <<0, 0>>)
<1>0. Len(in) \in Nat
  OBVIOUS
<1>1. ASSUME in[p] = 128 PROVE At(in, p, <<128>>)
  <2> DEFINE l == <<128>>
  <2>1. Len(l) = 1 /\ l[1] = 128
    BY MarkBytes
  <2> HIDE DEF l
  <2>2. \A i \in 1 .. Len(l) : in[p + i - 1] = l[i]
    <3> SUFFICES ASSUME NEW i \in 1 .. Len(l) PROVE in[p + i - 1] = l[i]
      OBVIOUS
    <3>1. i = 1
      BY <2>1
    <3>2. p + i - 1 = p
      BY <3>1
    <3> QED BY <1>1, <2>1, <3>1, <3>2
  <2>3. p + Len(l) <= Len(in) + 1
    BY <1>0, <2>1
  <2>4. At(in, p, l)
    BY <2>2, <2>3 DEF At
  <2> QED BY <2>4 DEF l
<1>2. ASSUME IsMark(in, p) PROVE At(in, p, <<0, 0>>)
  <2> DEFINE t == <<0, 0>>
  <2>1. Len(t) = 2 /\ t[1] = 0 /\ t[2] = 0
    BY MarkBytes
  <2> HIDE DEF t
  <2>2. p < Len(in) /\ in[p] = 0 /\ in[p + 1] = 0
    BY <1>2 DEF IsMark
  <2>3. p + Len(t) <= Len(in) + 1
    BY <1>0, <2>1, <2>2
  <2>4. \A i \in 1 .. Len(t) : in[p + i - 1] = t[i]
    <3> SUFFICES ASSUME NEW i \in 1 .. Len(t) PROVE in[p + i - 1] = t[i]
      OBVIOUS
    <3>1. i = 1 \/ i = 2
      BY <2>1
    <3>2. p + 1 - 1 = p /\ p + 2 - 1 = p + 1
      OBVIOUS
    <3> QED BY <2>1, <2>2, <3>1, <3>2
  <2>5. At(in, p, t)
    BY <2>3, <2>4 DEF At
  <2> QED BY <2>5 DEF t
<1> QED BY <1>1, <1>2

\* A tag, the byte 128, contents and the end mark, in their places, are there together.
LEMMA MarkedAt ==
    ASSUME NEW in \in Seq(Byte), NEW o \in Nat \ {0}, NEW s, Tag(s), At(in, o, s),
           NEW c \in Seq(Nat), At(in, o + Len(s), << 128 >>), At(in, o + Len(s) + 1, c),
           At(in, o + Len(s) + 1 + Len(c), <<0, 0>>)
    PROVE  At(in, o, s \o <<128>> \o c \o <<0, 0>>)
<1> DEFINE l == <<128>>
           t == <<0, 0>>
           h == s \o l \o c
<1>1. s \in Seq(Nat) /\ l \in Seq(Nat) /\ t \in Seq(Nat) /\ Len(l) = 1 /\ Len(s) \in Nat \ {0}
  BY TagNat, MarkBytes
<1>2. At(in, o, s) /\ At(in, o + Len(s), l) /\ At(in, o + Len(s) + 1 + Len(c), t)
  OBVIOUS
<1> HIDE DEF l, t
<1>3. At(in, o + Len(s) + Len(l), c)
  BY <1>1
<1>4. At(in, o, h)
  BY <1>1, <1>2, <1>3, AllOfThree
<1>5. h \in Seq(Nat) /\ Len(h) = Len(s) + Len(l) + Len(c) /\ Len(c) \in Nat
  BY <1>1, ThreeParts, ZenonT(60)
<1> HIDE DEF h
<1>6. o + Len(h) = o + Len(s) + 1 + Len(c)
  BY <1>1, <1>5
<1>7. At(in, o, h \o t)
  BY <1>1, <1>2, <1>4, <1>5, <1>6, AtConcat
<1> QED BY <1>7 DEF h, l, t

\* And they are an object of the grammar.
LEMMA OpenFound ==
    ASSUME NEW A, A \subseteq Byte, NEW most \in Nat, NEW g, IsGrammar(g, A, most),
           NEW in \in Seq(A), NEW o \in Nat \ {0}, ~IsMark(in, o), NEW s, Tag(s), At(in, o, s),
           IsConstructed(s[1]), At(in, o + Len(s), << 128 >>),
           NEW k \in 0 .. most, NEW c \in g[k].contents, At(in, o + Len(s) + 1, c.ber),
           At(in, o + Len(s) + 1 + k, <<0, 0>>),
           NEW n \in Nat, n = o + Len(s) + 1 + k + 2, n - o \in 0 .. most
    PROVE  ObjectAt(g, in, o, n)
<1> DEFINE x == Indefinite(s, c)
<1>1. in \in Seq(Byte) /\ k \in Nat
  BY SeqOfBytes
<1>2. s \in Seq(A)
  BY <1>1, PartOf DEF Tag
<1>3. c.ber \in Seq(Nat) /\ Len(c.ber) = k
  <2>1. GoodContents(c, k)
    BY GrammarGood
  <2> QED BY <2>1 DEF GoodContents, Contents
<1>4. x.ber = s \o <<128>> \o c.ber \o <<0, 0>>
  BY DEF Indefinite
<1>5. At(in, o, s \o <<128>> \o c.ber \o <<0, 0>>)
  BY <1>1, <1>3, MarkedAt
<1>6. Len(s) + k + 3 = n - o
  <2>1. Len(s) \in Nat \ {0}
    BY TagNat
  <2>2. \A N \in Nat, O \in Nat \ {0}, K \in Nat, i \in Nat \ {0} :
            N = O + i + 1 + K + 2 => i + K + 3 = N - O
    OBVIOUS
  <2> QED BY <1>1, <2>1, <2>2, ZenonT(60)
<1>7. OpenObject(g, n - o, s, k, x)
  BY <1>6 DEF OpenObject
<1>8. At(in, o, x.ber)
  BY <1>4, <1>5
<1> HIDE DEF x
<1> QED BY <1>1, <1>2, <1>7, <1>8, ToFound

\* An object that is read is one of the grammar.
LEMMA BodyFound ==
    ASSUME NEW A, A \subseteq Byte, NEW most \in Nat, NEW g, IsGrammar(g, A, most),
           NEW in \in Seq(A), Len(in) <= most, Len(in) <= MaxBERSize,
           NEW deeper, Forward(in, deeper), ObjectsAt(g, in, deeper),
           NEW o \in 1 .. Len(in), ~IsMark(in, o), NEW d, NEW n \in o + 1 .. Len(in) + 1,
           ReadBERBody(in, deeper, o) = Read(d, n)
    PROVE  ObjectAt(g, in, o, n)
<1> DEFINE r == ReadBERBody(in, deeper, o)
<1>0. /\ in \in Seq(Byte) /\ Len(in) \in Nat /\ o \in Nat \ {0} /\ n \in Nat
      /\ n - o \in 0 .. most
  <2>1. in \in Seq(Byte) /\ Len(in) \in Nat
    BY SeqOfBytes
  <2> QED BY <2>1
<1>a. r # Invalid
  BY Fields
<1>b. \A a, m : r = Read(a, m) => m = n
  <2> SUFFICES ASSUME NEW a, NEW m, Read(a, m) = Read(d, n) PROVE m = n
    OBVIOUS
  <2>1. Read(a, m).next = m /\ Read(d, n).next = n
    BY Fields
  <2> QED BY <2>1
<1>1. PICK s : /\ Tag(s) /\ At(in, o, s)
               /\ \/ \E k \in Nat, b \in Nat \ {0} :
                        /\ Small(k) /\ At(in, o + Len(s), DerLength(k))
                        /\ b = o + Len(s) + Len(DerLength(k)) /\ b + k <= Len(in) + 1
                        /\ \/ /\ ~IsConstructed(s[1])
                              /\ r = Read(EncodeDERObject(s, SubSeq(in, b, b + k - 1)), b + k)
                           \/ /\ IsConstructed(s[1])
                              /\ \E v, c : \E e \in b .. Len(in) + 1 :
                                    /\ IsRest(v, in, deeper, b + k) /\ v[b] = Kids(c, e)
                                    /\ r = Read(EncodeDERObject(s, c), e)
                  \/ /\ o + Len(s) <= Len(in) /\ in[o + Len(s)] = 128 /\ IsConstructed(s[1])
                     /\ \E v, c : \E e \in o + Len(s) + 1 .. Len(in) + 1 :
                            /\ IsRest(v, in, deeper, 0) /\ v[o + Len(s) + 1] = Kids(c, e)
                            /\ r = Read(EncodeDERObject(s, c), e)
  BY <1>0, <1>a, BodySound
<1>c. Len(s) \in Nat \ {0}
  BY <1>1, TagNat
<1> HIDE DEF r
<1>2. ASSUME NEW k \in Nat, NEW b \in Nat \ {0}, At(in, o + Len(s), DerLength(k)),
             b = o + Len(s) + Len(DerLength(k)), b + k <= Len(in) + 1, ~IsConstructed(s[1]),
             r = Read(EncodeDERObject(s, SubSeq(in, b, b + k - 1)), b + k)
      PROVE  ObjectAt(g, in, o, n)
  <2>1. n = b + k
    BY <1>b, <1>2
  <2> DEFINE e == b + k - 1
             c == SubSeq(in, b, e)
  <2>2. b \in 1 .. Len(in) + 1 /\ e \in b - 1 .. Len(in) /\ e - b + 1 = k
    BY <1>0, <1>2
  <2> HIDE DEF e
  <2>3. c \in Seq(A) /\ Len(c) = k /\ At(in, b, c)
    BY <2>2, AtPart
  <2> HIDE DEF c
  <2> QED BY <1>0, <1>1, <1>2, <2>1, <2>3, ShortFound
<1>3. ASSUME NEW k \in Nat, NEW b \in Nat \ {0}, At(in, o + Len(s), DerLength(k)),
             b = o + Len(s) + Len(DerLength(k)), b + k <= Len(in) + 1, IsConstructed(s[1]),
             NEW v, NEW c, NEW e \in b .. Len(in) + 1, IsRest(v, in, deeper, b + k),
             v[b] = Kids(c, e), r = Read(EncodeDERObject(s, c), e)
      PROVE  ObjectAt(g, in, o, n)
  <2>1. n = e
    BY <1>b, <1>3
  <2> DEFINE end == b + k
  <2>2. b \in 1 .. Len(in) + 1 /\ end \in Nat /\ end # 0 /\ end - b = k /\ k \in 0 .. most
    BY <1>0, <1>3
  <2>3. IsRest(v, in, deeper, end)
    BY <1>3
  <2> HIDE DEF end
  <2>4. PICK q \in b .. Len(in) + 1 : Ends(in, end, q, e) /\ ContentsAt(g, in, end, b, q)
    BY <1>3, <2>2, <2>3, KidsFound
  <2>5. q = end /\ e = end
    BY <2>2, <2>4 DEF Ends
  <2>6. PICK x \in g[k].contents : At(in, b, x.ber)
    BY <2>2, <2>4, <2>5 DEF ContentsAt
  <2>7. n = b + k
    BY <2>1, <2>5 DEF end
  <2>8. Tag(s) /\ At(in, o, s)
    BY <1>1
  <2>9. /\ k \in 0 .. most /\ At(in, o + Len(s), DerLength(k)) /\ IsConstructed(s[1])
        /\ b = o + Len(s) + Len(DerLength(k)) /\ x \in g[k].contents /\ At(in, b, x.ber)
    BY <1>3, <2>2, <2>6
  <2> QED BY <1>0, <2>7, <2>8, <2>9, LongFound
<1>4. ASSUME o + Len(s) <= Len(in), in[o + Len(s)] = 128, IsConstructed(s[1]),
             NEW v, NEW c, NEW e \in o + Len(s) + 1 .. Len(in) + 1, IsRest(v, in, deeper, 0),
             v[o + Len(s) + 1] = Kids(c, e), r = Read(EncodeDERObject(s, c), e)
      PROVE  ObjectAt(g, in, o, n)
  <2>1. n = e
    BY <1>b, <1>4
  <2> DEFINE b == o + Len(s) + 1
  <2>2. b \in 1 .. Len(in) + 1 /\ 0 \in Nat /\ o + Len(s) \in Nat
    BY <1>0, <1>c, <1>4
  <2>3. v[b] = Kids(c, e)
    BY <1>4
  <2>4. At(in, o + Len(s), <<128>>)
    BY <1>0, <1>4, <2>2, MarksAt
  <2> HIDE DEF b
  <2>5. PICK q \in b .. Len(in) + 1 : Ends(in, 0, q, e) /\ ContentsAt(g, in, 0, b, q)
    BY <1>4, <2>2, <2>3, KidsFound
  <2>6. IsMark(in, q) /\ e = q + 2
    BY <2>5 DEF Ends
  <2>7. At(in, q, <<0, 0>>)
    <3>1. q \in Nat /\ q <= Len(in)
      BY <1>0, <2>2, <2>6 DEF IsMark
    <3> QED BY <1>0, <2>6, <3>1, MarksAt
  <2> DEFINE k == q - b
  <2>8. k \in 0 .. most /\ b + k = q
    BY <1>0, <2>2
  <2>9. PICK x \in g[k].contents : At(in, b, x.ber)
    BY <2>5 DEF ContentsAt
  <2> HIDE DEF k
  <2>10. At(in, o + Len(s) + 1, x.ber) /\ At(in, o + Len(s) + 1 + k, <<0, 0>>)
         /\ n = o + Len(s) + 1 + k + 2
    BY <2>1, <2>6, <2>7, <2>8, <2>9 DEF b
  <2> QED BY <1>0, <1>1, <1>4, <2>4, <2>8, <2>9, <2>10, OpenFound
<1> QED BY <1>1, <1>2, <1>3, <1>4

\* At every level.
LEMMA LevelsFound ==
    ASSUME NEW A, A \subseteq Byte, NEW most \in Nat, NEW g, IsGrammar(g, A, most),
           NEW in \in Seq(A), Len(in) <= most, Len(in) <= MaxBERSize,
           NEW n \in Nat, NEW w, IsLevels(w, in, n), NEW up \in 0 .. n
    PROVE  ObjectsAt(g, in, w[up])
<1> DEFINE S == {k \in Nat : k <= n => ObjectsAt(g, in, w[k])}
<1>0. in \in Seq(Byte) /\ Len(in) \in Nat
  BY SeqOfBytes
<1>1. 0 \in S
  <2>1. 0 \in 0 .. n
    OBVIOUS
  <2>2. \A o \in 1 .. Len(in) + 1 : w[0][o] = Invalid
    BY <2>1, LevelIs
  <2>3. \A d, m : Read(d, m) # Invalid
    BY Fields
  <2>4. ObjectsAt(g, in, w[0])
    BY <2>2, <2>3 DEF ObjectsAt
  <2> QED BY <2>4
<1>2. ASSUME NEW k \in Nat, k \in S PROVE k + 1 \in S
  <2> SUFFICES ASSUME k + 1 <= n, NEW o \in 1 .. Len(in) + 1, NEW d,
                      NEW m \in o + 1 .. Len(in) + 1, w[k + 1][o] = Read(d, m)
               PROVE  ObjectAt(g, in, o, m)
    BY DEF ObjectsAt
  <2>1. k + 1 \in 0 .. n /\ k \in 0 .. n /\ k <= n /\ k + 1 # 0 /\ (k + 1) - 1 = k
    OBVIOUS
  <2>2. w[k + 1][o] = ReadBERObject(in, w[k], o)
    BY <2>1, LevelIs
  <2>3. ObjectsAt(g, in, w[k])
    BY <1>2, <2>1
  <2>4. Forward(in, w[k])
    BY <1>0, <2>1, LevelsForward
  <2>5. ReadBERObject(in, w[k], o) # Invalid /\ \A i : ReadBERObject(in, w[k], o) # Mark(i)
    <3>1. Read(d, m) # Invalid /\ \A i : Read(d, m) # Mark(i)
      BY Fields
    <3> QED BY <2>2, <3>1
  <2>6. ~(o > Len(in)) /\ ~IsMark(in, o) /\ ReadBERObject(in, w[k], o) = ReadBERBody(in, w[k], o)
    BY <2>5, ObjectUnfold
  <2>7. o \in 1 .. Len(in)
    BY <1>0, <2>6
  <2> DEFINE deeper == w[k]
  <2>8. ReadBERBody(in, deeper, o) = Read(d, m) /\ Forward(in, deeper) /\ ObjectsAt(g, in, deeper)
    BY <2>2, <2>3, <2>4, <2>6
  <2> HIDE DEF deeper
  <2> QED BY <2>6, <2>7, <2>8, BodyFound
<1> HIDE DEF S
<1>3. up \in S
  <2>1. up \in Nat
    OBVIOUS
  <2> QED BY <1>1, <1>2, <2>1, NaturalInduction
<1> QED BY <1>3 DEF S
-----------------------------------------------------------------------------
(* BER: the conversion *)

Converted(d) == [ok |-> TRUE, der |-> d]

\* What is made of what is read at the first position.
LEMMA ConvertCases ==
    ASSUME NEW in \in Seq(Byte), NEW r, r = BERObjects(in)[1]
    PROVE  /\ Len(in) \notin 1 .. MaxBERSize => Convert(in) = Invalid
           /\ r = Invalid => Convert(in) = Invalid
           /\ (\E n : r = Mark(n)) => Convert(in) = Invalid
           /\ \A d, n : r = Read(d, n) =>
                Convert(in) = IF Len(in) \in 1 .. MaxBERSize /\ n = Len(in) + 1 THEN Converted(d)
                              ELSE Invalid
<1>1. Convert(in) = IF Len(in) \in 1 .. MaxBERSize /\ r.ok /\ ~r.eoc /\ r.next = Len(in) + 1
                    THEN Converted(r.der) ELSE Invalid
  BY DEF Convert, Converted
<1>2. r = Invalid => ~r.ok
  BY Fields
<1>3. \A n : r = Mark(n) => r.eoc
  BY Fields
<1>4. \A d, n : r = Read(d, n) => r.ok /\ ~r.eoc /\ r.der = d /\ r.next = n
  BY Fields
<1> QED BY <1>1, <1>2, <1>3, <1>4

\* An object of the grammar is converted to its DER, unless it is too deep or too long.
LEMMA MemberConverts ==
    ASSUME NEW x, Object(x), ObjectReads(x), Len(x.ber) <= MaxBERSize => x.ber \in Seq(Byte),
           Len(x.ber) <= MaxBERSize
    PROVE  Convert(x.ber) = DerOf(x)
<1> DEFINE in == x.ber
           top == MaxBERDepth + 1
<1>1. in \in Seq(Byte)
  OBVIOUS
<1>2. PICK w : IsLevels(w, in, top) /\ BERObjects(in) = w[top]
  BY BERObjectsUnfold
<1>3. top \in Nat /\ top \in 0 .. top /\ Len(in) \in 1 .. MaxBERSize /\ 1 \in 1 .. Len(in) + 1
      /\ 1 + Len(in) = Len(in) + 1
  <2>1. MaxBERDepth \in Nat /\ MaxBERSize \in Nat
    BY BerAssumption
  <2>2. Len(in) \in Nat \ {0}
    BY DEF Object
  <2> QED BY <2>1, <2>2
<1>4. At(in, 1, in)
  <2>1. \A i \in 1 .. Len(in) : 1 + i - 1 = i
    BY <1>3
  <2>2. 1 + Len(in) <= Len(in) + 1
    BY <1>3
  <2> QED BY <2>1, <2>2 DEF At
<1>5. x.depth < top <=> x.depth <= MaxBERDepth
  BY BerAssumption DEF Object
<1> HIDE DEF top
<1>6. w[top][1] = Expect(x, top, 1)
  BY <1>1, <1>2, <1>3, <1>4 DEF ObjectReads
<1>7. CASE x.depth < top /\ x.size <= MaxBERSize
  <2>1. BERObjects(in)[1] = Read(x.der, Len(in) + 1)
    BY <1>2, <1>3, <1>6, <1>7 DEF Expect
  <2>2. Convert(in) = Converted(x.der)
    BY <1>1, <1>3, <2>1, ConvertCases
  <2> QED BY <1>5, <1>7, <2>2 DEF DerOf, Converted
<1>8. CASE ~(x.depth < top /\ x.size <= MaxBERSize)
  <2>1. BERObjects(in)[1] = Invalid
    BY <1>2, <1>6, <1>8 DEF Expect
  <2>2. Convert(in) = Invalid
    BY <1>1, <2>1, ConvertCases
  <2> QED BY <1>5, <1>8, <2>2 DEF DerOf
<1> QED BY <1>7, <1>8

\* Too long an input, or too short a one, is refused whatever it is.
LEMMA LongRefused ==
    ASSUME NEW in, Len(in) \notin 1 .. MaxBERSize
    PROVE  Convert(in) = Invalid
  BY DEF Convert

\* An object that is too long is refused, as its DER would be.
LEMMA LongMemberConverts ==
    ASSUME NEW x, Object(x), ~(Len(x.ber) <= MaxBERSize)
    PROVE  Convert(x.ber) = DerOf(x)
<1>1. Len(x.ber) \notin 1 .. MaxBERSize
  OBVIOUS
<1> QED BY <1>1, LongRefused DEF DerOf

\* What is converted is an object of the grammar.
LEMMA ConvertedFound ==
    ASSUME NEW A, A \subseteq Byte, NEW most \in Nat, NEW in \in Seq(A), Len(in) <= most,
           Convert(in) # Invalid
    PROVE  \E x \in Grammar(A, most)[Len(in)].objects : x.ber = in
<1> DEFINE g == Grammar(A, most)
           top == MaxBERDepth + 1
           L == Len(in)
<1>1. IsGrammar(g, A, most)
  BY GrammarUnfold
<1>2. in \in Seq(Byte) /\ in \in Seq(Nat) /\ L \in Nat
  BY SeqOfBytes
<1> HIDE DEF g
<1>3. PICK w : IsLevels(w, in, top) /\ BERObjects(in) = w[top]
  BY BERObjectsUnfold
<1>4. top \in Nat /\ top \in 0 .. top
  BY BerAssumption
<1>5. L \in 1 .. MaxBERSize /\ L <= MaxBERSize
  BY <1>2, LongRefused, BerAssumption
<1> HIDE DEF top
<1>6. Result(in, 1, w[top][1])
  <2>1. Forward(in, w[top])
    BY <1>2, <1>3, <1>4, <1>5, LevelsForward
  <2>2. 1 \in 1 .. Len(in) + 1
    BY <1>5
  <2> QED BY <2>1, <2>2 DEF Forward
<1>7. w[top][1] # Invalid /\ \A n : w[top][1] # Mark(n)
  BY <1>2, <1>3, ConvertCases
<1>8. PICK d : \E n \in 1 + 1 .. L + 1 : w[top][1] = Read(d, n)
  BY <1>6, <1>7 DEF Result
<1>9. PICK n \in 1 + 1 .. L + 1 : w[top][1] = Read(d, n)
  BY <1>8
<1>10. n = L + 1 /\ n - 1 = L
  <2>1. n = L + 1
    BY <1>2, <1>3, <1>9, ConvertCases
  <2> QED BY <1>2, <2>1
<1>11. ObjectsAt(g, in, w[top])
  BY <1>1, <1>3, <1>4, <1>5, LevelsFound
<1>12. ObjectAt(g, in, 1, n)
  <2>1. 1 \in 1 .. Len(in) + 1 /\ n \in 1 + 1 .. Len(in) + 1
    BY <1>5, <1>9
  <2> QED BY <1>9, <1>11, <2>1 DEF ObjectsAt
<1>13. PICK x \in g[L].objects : At(in, 1, x.ber)
  BY <1>10, <1>12 DEF ObjectAt
<1>14. GoodObject(x, L)
  <2>1. L \in 0 .. most
    BY <1>2
  <2> QED BY <1>1, <2>1, GrammarGood
<1>15. Len(x.ber) = L /\ x.ber \in Seq(Nat)
  BY <1>14 DEF GoodObject, Object
<1>16. \A i \in 1 .. L : 1 + i - 1 = i
  BY <1>2
<1>17. \A i \in 1 .. L : in[i] = x.ber[i]
  BY <1>13, <1>15, <1>16 DEF At
<1>18. x.ber = in
  BY <1>2, <1>15, <1>17, SameSeq
<1> QED BY <1>13, <1>18 DEF g

\* Every string of an alphabet is converted exactly as the grammar says.
LEMMA StringsExact ==
    ASSUME NEW A, A \subseteq Byte, NEW most \in Nat, NEW in \in Seq(A), Len(in) <= most,
           NEW objects, objects = {o \in Grammar(A, most)[Len(in)].objects : o.ber = in}
    PROVE  Convert(in) = IF objects = {} THEN Invalid ELSE DerOf(CHOOSE o \in objects : TRUE)
<1>1. CASE objects = {}
  BY <1>1, ConvertedFound
<1>2. CASE objects # {}
  <2> DEFINE x == CHOOSE o \in objects : TRUE
  <2>1. x \in objects
    BY <1>2
  <2> HIDE DEF x
  <2>2. x \in Grammar(A, most)[Len(in)].objects /\ x.ber = in
    BY <2>1
  <2>3. IsGrammar(Grammar(A, most), A, most)
    BY GrammarUnfold
  <2>4. in \in Seq(Byte) /\ Len(in) \in 0 .. most
    BY SeqOfBytes
  <2>5. GoodObject(x, Len(in))
    BY <2>2, <2>3, <2>4, GrammarGood
  <2>6. Object(x) /\ ObjectReads(x)
    BY <2>5 DEF GoodObject
  <2>7. Convert(x.ber) = DerOf(x)
    <3>1. CASE Len(x.ber) <= MaxBERSize
      BY <2>2, <2>4, <2>6, <3>1, MemberConverts
    <3>2. CASE ~(Len(x.ber) <= MaxBERSize)
      BY <2>6, <3>2, LongMemberConverts
    <3> QED BY <3>1, <3>2
  <2>8. Convert(in) = DerOf(x)
    BY <2>2, <2>7
  <2> QED BY <1>2, <2>8 DEF x
<1> QED BY <1>1, <1>2
-----------------------------------------------------------------------------
(* BER: nested objects *)

\* Objects, and contents, of bytes if they are short enough to be read.
InBytes(x) == Len(x.ber) <= MaxBERSize => x.ber \in Seq(Byte)
Parsed(x) == Object(x) /\ ObjectReads(x) /\ InBytes(x)
Fits(c) == Contents(c) /\ ContentsRead(c) /\ InBytes(c)

\* An object that is read is converted, unless it is too long.
LEMMA ParsedConverts ==
    ASSUME NEW x, Parsed(x)
    PROVE  Convert(x.ber) = DerOf(x)
<1>1. CASE Len(x.ber) <= MaxBERSize
  BY <1>1, MemberConverts DEF Parsed, InBytes
<1>2. CASE ~(Len(x.ber) <= MaxBERSize)
  BY <1>2, LongMemberConverts DEF Parsed
<1> QED BY <1>1, <1>2

\* The first part of a string of bytes is one too.
LEMMA BytesOfParts ==
    ASSUME NEW a \in Seq(Nat), NEW b \in Seq(Nat), Len(a \o b) <= MaxBERSize,
           Len(a) <= MaxBERSize => a \in Seq(Byte), Len(b) <= MaxBERSize => b \in Seq(Byte)
    PROVE  a \o b \in Seq(Byte)
<1>1. Len(a) \in Nat /\ Len(b) \in Nat /\ Len(a \o b) = Len(a) + Len(b) /\ MaxBERSize \in Nat
  BY BerAssumption, Concat
<1>2. Len(a) <= MaxBERSize /\ Len(b) <= MaxBERSize
  BY <1>1
<1> QED BY <1>2, Concat

\* An object alone is contents.
LEMMA ObjectFits ==
    ASSUME NEW x, Parsed(x)
    PROVE  Fits(x)
<1>1. Object(x) /\ ObjectReads(x)
  BY DEF Parsed
<1>2. Contents(x)
  BY <1>1 DEF Object, Contents
<1> DEFINE c == Join(x, NoKids)
<1>3. ContentsRead(c)
  BY <1>1, NoKidsRead, JoinReads
<1>4. c.ber = x.ber /\ c.der = x.der /\ c.depth = x.depth
  <2>1. c.ber = x.ber \o <<>> /\ c.der = x.der \o <<>> /\ c.depth = Deeper(x.depth, -1)
    BY DEF Join, NoKids
  <2>2. \A s \in Seq(Nat) : s \o <<>> = s
    OBVIOUS
  <2>3. \A n \in Nat : Deeper(n, -1) = n
    BY DEF Deeper
  <2>4. x.ber \in Seq(Nat) /\ x.der \in Seq(Nat) /\ x.depth \in Nat
    BY <1>1 DEF Object
  <2> HIDE DEF c
  <2> QED BY <2>1, <2>2, <2>3, <2>4, Zenon
<1> HIDE DEF c
<1>5. ContentsRead(x)
  <2>1. \A up, e : ExpectKids(c, up, e) = ExpectKids(x, up, e)
    BY <1>4 DEF ExpectKids
  <2> SUFFICES ASSUME NEW in \in Seq(Byte), NEW n \in Nat, NEW w,
                      Len(in) <= MaxBERSize, IsLevels(w, in, n),
                      NEW up \in 0 .. n, NEW end \in Nat, NEW p \in 1 .. Len(in) + 1, NEW v, NEW e,
                      IsRest(v, in, w[up], end), At(in, p, x.ber),
                      end # 0 => p + Len(x.ber) <= end, v[p + Len(x.ber)] = Kids(<<>>, e)
               PROVE  v[p] = ExpectKids(x, up, e)
    BY DEF ContentsRead
  <2>2. v[p] = ExpectKids(c, up, e)
    <3>1. At(in, p, c.ber) /\ (end # 0 => p + Len(c.ber) <= end)
          /\ v[p + Len(c.ber)] = Kids(<<>>, e)
      BY <1>4
    <3> QED BY <1>3, <3>1 DEF ContentsRead
  <2> QED BY <2>1, <2>2
<1> QED BY <1>2, <1>5 DEF Fits, Parsed, InBytes

\* Objects, one after the other, are contents that fit.
LEMMA JoinFits ==
    ASSUME NEW a, NEW b, Parsed(a), Fits(b)
    PROVE  Fits(Join(a, b))
<1>1. Object(a) /\ ObjectReads(a) /\ Contents(b) /\ ContentsRead(b)
  BY DEF Parsed, Fits
<1>2. Contents(Join(a, b)) /\ ContentsRead(Join(a, b)) /\ Join(a, b).ber = a.ber \o b.ber
  BY <1>1, JoinType, JoinReads
<1>3. a.ber \in Seq(Nat) /\ b.ber \in Seq(Nat)
  BY <1>1 DEF Object, Contents
<1>4. InBytes(Join(a, b))
  BY <1>2, <1>3, BytesOfParts DEF InBytes, Parsed, Fits
<1> QED BY <1>2, <1>4 DEF Fits

\* The tags of a sequence and of an octet string, and the marks of indefinite length.
LEMMA Sequence ==
    /\ Tag(<<48>>) /\ IsConstructed(<<48>>[1]) /\ <<48>> \in Seq(Byte)
    /\ Tag(<<4>>) /\ ~IsConstructed(<<4>>[1]) /\ <<4>> \in Seq(Byte)
    /\ <<128>> \in Seq(Byte) /\ <<0, 0>> \in Seq(Byte)
<1>1. <<48>> \in Seq(Byte) /\ Len(<<48>>) = 1 /\ <<48>>[1] = 48
  BY DEF Byte
<1>2. <<4>> \in Seq(Byte) /\ Len(<<4>>) = 1 /\ <<4>>[1] = 4
  BY DEF Byte
<1>3. ~HighTag(48) /\ ~HighTag(4) /\ IsConstructed(48) /\ ~IsConstructed(4)
  BY DEF HighTag, IsConstructed
<1>4. <<128>> \in Seq(Byte) /\ <<0, 0>> \in Seq(Byte)
  BY DEF Byte
<1>5. 1 \in Nat \ {0}
  OBVIOUS
<1> QED BY <1>1, <1>2, <1>3, <1>4, <1>5 DEF Tag

\* A part is no longer than the whole.
LEMMA SumFits ==
    ASSUME NEW i \in Nat, NEW j \in Nat, NEW k \in Nat, NEW n \in Nat, i + j + k <= n
    PROVE  k <= n
  OBVIOUS

\* What is wrapped in a sequence of either form can be read.
LEMMA WrapFits ==
    ASSUME NEW c, Fits(c)
    PROVE  Parsed(Definite(<<48>>, c)) /\ Parsed(Indefinite(<<48>>, c))
<1> DEFINE s == <<48>>
           m == DerLength(Len(c.ber))
           l == <<128>>
           t == <<0, 0>>
           x == Definite(s, c)
           y == Indefinite(s, c)
<1>1. Tag(s) /\ IsConstructed(s[1]) /\ s \in Seq(Byte) /\ l \in Seq(Byte) /\ t \in Seq(Byte)
  BY Sequence
<1>2. Contents(c) /\ ContentsRead(c) /\ c.ber \in Seq(Nat) /\ Len(c.ber) \in Nat
  BY DEF Fits, Contents
<1>3. x.ber = s \o m \o c.ber
  BY DEF Definite
<1>4. y.ber = s \o l \o c.ber \o t
  BY DEF Indefinite
<1> HIDE DEF s, l, t
<1>5. Object(x) /\ ObjectReads(x) /\ Object(y) /\ ObjectReads(y)
  BY <1>1, <1>2, DefiniteReads, IndefiniteReads
<1>6. s \in Seq(Nat) /\ l \in Seq(Nat) /\ t \in Seq(Nat) /\ m \in Seq(Nat)
  BY <1>1, <1>2, BytesNat, DerLengthType
<1>7. InBytes(x)
  <2> SUFFICES ASSUME Len(x.ber) <= MaxBERSize PROVE x.ber \in Seq(Byte)
    BY DEF InBytes
  <2> HIDE DEF m
  <2>1. /\ Len(s) \in Nat /\ Len(m) \in Nat /\ s \o m \in Seq(Nat)
        /\ Len(s \o m \o c.ber) = Len(s) + Len(m) + Len(c.ber)
    BY <1>2, <1>6, ThreeParts, Concat
  <2>2. Len(c.ber) <= MaxBERSize
    <3>1. Len(s) + Len(m) + Len(c.ber) <= MaxBERSize
      BY <1>3, <2>1
    <3>2. MaxBERSize \in Nat
      BY BerAssumption
    <3> QED BY <1>2, <2>1, <3>1, <3>2, SumFits, Zenon
  <2>3. m \in Seq(Byte)
    <3>1. Small(Len(c.ber))
      BY <1>2, <2>2, BerAssumption, SmallLength
    <3> QED BY <1>2, <3>1, DerLengthType DEF m
  <2>4. c.ber \in Seq(Byte)
    BY <2>2 DEF Fits, InBytes
  <2>5. s \o m \in Seq(Byte)
    BY <1>1, <2>3, Concat
  <2>6. s \o m \o c.ber \in Seq(Byte)
    BY <2>4, <2>5, Concat
  <2> QED BY <1>3, <2>6
<1>8. InBytes(y)
  <2> SUFFICES ASSUME Len(y.ber) <= MaxBERSize PROVE y.ber \in Seq(Byte)
    BY DEF InBytes
  <2> DEFINE h == s \o l \o c.ber
  <2>1. /\ Len(s) \in Nat /\ Len(l) \in Nat /\ h \in Seq(Nat) /\ Len(t) \in Nat
        /\ Len(h) = Len(s) + Len(l) + Len(c.ber)
    BY <1>2, <1>6, ThreeParts
  <2>2. s \o l \in Seq(Byte)
    BY <1>1, Concat
  <2>3. c.ber \in Seq(Byte) => h \in Seq(Byte)
    BY <2>2, Concat
  <2>4. y.ber = h \o t
    BY <1>4
  <2> HIDE DEF h
  <2>5. Len(h \o t) = Len(h) + Len(t)
    BY <1>6, <2>1, Concat
  <2>6. Len(c.ber) <= MaxBERSize
    <3>1. Len(h) + Len(t) <= MaxBERSize
      BY <2>4, <2>5
    <3>2. MaxBERSize \in Nat
      BY BerAssumption
    <3>3. Len(h) \in Nat /\ Len(h) <= MaxBERSize
      <4>1. \A z \in Seq(Nat) : Len(z) \in Nat
        OBVIOUS
      <4>2. Len(h) \in Nat
        BY <2>1, <4>1, Zenon
      <4>3. \A i \in Nat, j \in Nat, k \in Nat : i + j <= k => i <= k
        OBVIOUS
      <4> QED BY <2>1, <3>1, <3>2, <4>2, <4>3, Zenon
    <3>4. Len(s) + Len(l) + Len(c.ber) <= MaxBERSize
      BY <2>1, <3>3
    <3> QED BY <1>2, <2>1, <3>2, <3>4, SumFits, Zenon
  <2>7. h \in Seq(Byte)
    BY <2>3, <2>6 DEF Fits, InBytes
  <2>8. h \o t \in Seq(Byte)
    BY <1>1, <2>7, Concat
  <2> QED BY <2>4, <2>8
<1>9. Parsed(x) /\ Parsed(y)
  BY <1>5, <1>7, <1>8 DEF Parsed
<1> QED BY <1>9 DEF s

\* An object starts with its tag.
LEMMA FirstByte ==
    ASSUME NEW a \in Seq(Nat), NEW b \in Seq(Nat), NEW c \in Seq(Nat), Len(a) = 1
    PROVE  (a \o b \o c)[1] = a[1]
<1> DEFINE ab == a \o b
<1>1. 1 \in 1 .. Len(a)
  OBVIOUS
<1>2. ab \in Seq(Nat) /\ Len(ab) = Len(a) + Len(b) /\ ab[1] = a[1]
  BY <1>1, Concat
<1> HIDE DEF ab
<1>3. 1 \in 1 .. Len(ab)
  BY <1>2
<1>4. (ab \o c)[1] = ab[1]
  BY <1>2, <1>3, Concat
<1> QED BY <1>2, <1>4 DEF ab

\* An octet string of any length.
LEMMA LongsFit ==
    ASSUME NEW n \in Nat
    PROVE  Parsed(Primitive(<<4>>, [i \in 1 .. n |-> 7]))
<1> DEFINE s == <<4>>
           c == [i \in 1 .. n |-> 7]
           m == DerLength(Len(c))
           x == Primitive(s, c)
<1>1. Tag(s) /\ ~IsConstructed(s[1]) /\ s \in Seq(Byte) /\ s[1] = 4 /\ Len(s) = 1
  BY Sequence
<1>2. c \in Seq(Byte) /\ Len(c) = n
  BY DEF Byte
<1>3. x.ber = s \o m \o c
  BY DEF Primitive
<1>4. Primitive(<<0>>, <<>>).ber = <<0>> \o DerLength(Len(<<>>)) \o <<>>
  BY DEF Primitive
<1> HIDE DEF s, c
<1>5. c \in Seq(Nat) /\ s \in Seq(Nat) /\ m \in Seq(Nat) /\ Len(m) \in 1 .. 4
  BY <1>1, <1>2, BytesNat, DerLengthType
<1>6. x # Primitive(<<0>>, <<>>)
  <2> DEFINE z == <<0>>
             k == DerLength(Len(<<>>))
  <2>1. z \in Seq(Nat) /\ Len(z) = 1 /\ z[1] = 0 /\ <<>> \in Seq(Nat) /\ Len(<<>>) \in Nat
    OBVIOUS
  <2>2. k \in Seq(Nat)
    BY <2>1, DerLengthType
  <2> HIDE DEF z, k, m
  <2>3. (s \o m \o c)[1] = 4
    BY <1>1, <1>5, FirstByte
  <2>4. (z \o k \o <<>>)[1] = 0
    BY <2>1, <2>2, FirstByte
  <2>5. Primitive(<<0>>, <<>>).ber = z \o k \o <<>>
    BY <1>4 DEF z, k
  <2> HIDE DEF x
  <2> DEFINE y == Primitive(<<0>>, <<>>)
  <2>6. x.ber[1] = 4
    BY <1>3, <2>3
  <2>7. y.ber[1] = 0
    BY <2>4, <2>5, Zenon
  <2> HIDE DEF y
  <2>8. 4 # 0
    OBVIOUS
  <2>9. x # y
    BY <2>6, <2>7, <2>8, Zenon
  <2> QED BY <2>9 DEF y
<1>7. Object(x) /\ ObjectReads(x)
  BY <1>1, <1>5, <1>6, PrimitiveReads
<1>8. InBytes(x)
  <2> SUFFICES ASSUME Len(x.ber) <= MaxBERSize PROVE x.ber \in Seq(Byte)
    BY DEF InBytes
  <2>1. Len(s \o m \o c) = Len(s) + Len(m) + n
    BY <1>2, <1>5, ThreeParts
  <2>2. Len(c) <= MaxBERSize /\ Len(c) \in Nat
    BY <1>1, <1>2, <1>3, <1>5, <2>1, BerAssumption
  <2>3. m \in Seq(Byte)
    <3>1. Small(Len(c))
      BY <2>2, BerAssumption, SmallLength
    <3> QED BY <2>2, <3>1, DerLengthType
  <2> HIDE DEF m
  <2>4. s \o m \in Seq(Byte)
    BY <1>1, <2>3, Concat
  <2>5. s \o m \o c \in Seq(Byte)
    BY <1>2, <2>4, Concat
  <2> QED BY <1>3, <2>5
<1> HIDE DEF x
<1>9. Parsed(x)
  BY <1>7, <1>8 DEF Parsed
<1> QED BY <1>9 DEF x, s, c

\* What is wrapped is read if what is inside is.
LEMMA WrapParsed ==
    ASSUME NEW S, \A x \in S : Parsed(x)
    PROVE  \A x \in Wrap(S) : Parsed(x)
<1> SUFFICES ASSUME NEW x \in Wrap(S) PROVE Parsed(x)
  OBVIOUS
<1>1. PICK c \in S : x = Definite(<<48>>, c) \/ x = Indefinite(<<48>>, c)
  BY DEF Wrap
<1>2. Fits(c)
  BY ObjectFits
<1> QED BY <1>1, <1>2, WrapFits

\* The long nested objects are read.
LEMMA NestedParsed == \A x \in Nested : Parsed(x)
<1> DEFINE W1 == Wrap(Longs)
           W2 == Wrap(W1)
           W3 == Wrap(W2)
<1>1. \A x \in Longs : Parsed(x)
  BY LongsFit, BerInputAssumption DEF Longs
<1>2. \A x \in W1 : Parsed(x)
  BY <1>1, WrapParsed
<1> HIDE DEF W1
<1>3. \A x \in W2 : Parsed(x)
  BY <1>2, WrapParsed
<1> HIDE DEF W2
<1>4. \A x \in W3 : Parsed(x)
  BY <1>3, WrapParsed
<1> HIDE DEF W3
<1>5. \A a, b \in W1 : Parsed(Definite(<<48>>, Join(a, b)))
  <2> SUFFICES ASSUME NEW a \in W1, NEW b \in W1 PROVE Parsed(Definite(<<48>>, Join(a, b)))
    OBVIOUS
  <2>1. Fits(b)
    BY <1>2, ObjectFits
  <2>2. Fits(Join(a, b))
    BY <1>2, <2>1, JoinFits
  <2> QED BY <2>2, WrapFits
<1>6. Nested = Longs \cup W1 \cup W2 \cup W3 \cup {Definite(<<48>>, Join(a, b)) : a, b \in W1}
  BY DEF Nested, W1, W2, W3
<1> QED BY <1>1, <1>2, <1>3, <1>4, <1>5, <1>6
-----------------------------------------------------------------------------
(* The specification *)

Given(of, in, out) == input = [of |-> of, in |-> in] /\ output = out

\* Whatever was evaluated was evaluated by the code its input is for.
Evaluated ==
    \/ input = [of |-> "none"]
    \/ \E in \in RouteInputs : Given("route", in, Routed(in))
    \/ \E b \in BerInputs : \E n \in 0 .. b.most : \E string \in [1 .. n -> b.alphabet] :
          Given("ber", [bound |-> b, string |-> string], Convert(string))
    \/ \E object \in Nested : Given("nested", object, Convert(object.ber))
    \/ \E in \in MessageInputs : Given("message", in, Decrypt("rsa1", Message(in)))
    \/ \E in \in MessageInputs : \E m \in Deviations(in) :
          Given("deviation", m, Decrypt("rsa1", m))
    \/ \E data \in PaddedInputs : Given("padded", data, UnpadPKCS7(data))
    \/ \E in \in EnvelopeInputs : Given("envelope", in, Recovered(in))
    \/ \E in \in ClientInputs : Given("client", in, Limits(in))
    \/ \E in \in DocumentInputs :
          Given("document", in, ValidateAt(ParseAttestationValidity(in.document), in.now))

\* Evaluated is an invariant: an input is evaluated once, by the action of its kind.
THEOREM EvaluatedInvariant == Spec => []Evaluated
<1>1. Init => Evaluated
  BY DEF Init, Evaluated
<1>2. Evaluated /\ [Next]_vars => Evaluated'
  <2> SUFFICES ASSUME Evaluated, [Next]_vars PROVE Evaluated'
    OBVIOUS
  <2>1. CASE UNCHANGED vars
    BY <2>1 DEF vars, Evaluated, Given
  <2>2. CASE EvaluateRoutes
    BY <2>2 DEF EvaluateRoutes, Evaluate, Evaluated, Given
  <2>3. CASE EvaluateBer
    BY <2>3 DEF EvaluateBer, Evaluate, Evaluated, Given
  <2>4. CASE EvaluateRecipient
    BY <2>4 DEF EvaluateRecipient, Evaluate, Evaluated, Given
  <2>5. CASE EvaluateEnvelope
    BY <2>5 DEF EvaluateEnvelope, Evaluate, Evaluated, Given
  <2>6. CASE EvaluateClient
    BY <2>6 DEF EvaluateClient, Evaluate, Evaluated, Given
  <2>7. CASE EvaluateDocument
    BY <2>7 DEF EvaluateDocument, Evaluate, Evaluated, Given
  <2> QED BY <2>1, <2>2, <2>3, <2>4, <2>5, <2>6, <2>7 DEF Next
<1> QED BY <1>1, <1>2, PTL DEF Spec

\* What is evaluated is of the kind its input says.
LEMMA KindOf ==
    ASSUME Evaluated
    PROVE  /\ input.of = "route" =>
                \E in \in RouteInputs : Given("route", in, Routed(in))
           /\ input.of = "ber" =>
                \E b \in BerInputs : \E n \in 0 .. b.most : \E string \in [1 .. n -> b.alphabet] :
                    Given("ber", [bound |-> b, string |-> string], Convert(string))
           /\ input.of = "nested" =>
                \E object \in Nested : Given("nested", object, Convert(object.ber))
           /\ input.of = "message" =>
                \E in \in MessageInputs : Given("message", in, Decrypt("rsa1", Message(in)))
           /\ input.of = "deviation" =>
                \E in \in MessageInputs : \E m \in Deviations(in) :
                    Given("deviation", m, Decrypt("rsa1", m))
           /\ input.of = "padded" =>
                \E data \in PaddedInputs : Given("padded", data, UnpadPKCS7(data))
           /\ input.of = "envelope" =>
                \E in \in EnvelopeInputs : Given("envelope", in, Recovered(in))
           /\ input.of = "client" =>
                \E in \in ClientInputs : Given("client", in, Limits(in))
           /\ input.of = "document" =>
                \E in \in DocumentInputs :
                    Given("document", in, ValidateAt(ParseAttestationValidity(in.document), in.now))
<1>1. input = [of |-> "none"] => input.of = "none"
  OBVIOUS
<1>2. \A of, in, out : Given(of, in, out) => input.of = of
  BY DEF Given
<1> QED BY <1>1, <1>2 DEF Evaluated

\* Two configurations that were checked apart agree on every route.
THEOREM RoutesAgree == Spec => []RouteAgrees
<1>1. ASSUME Evaluated PROVE RouteAgrees
  <2>1. CASE input.of = "route"
    <3>1. PICK in \in RouteInputs : Given("route", in, Routed(in))
      BY <1>1, <2>1, KindOf
    <3>2. in \in RouteInput /\ input.in = in /\ output = Routed(in)
      BY <3>1, RouteInputAssumption DEF Given
    <3> QED BY <3>2, RoutedAgrees
  <2>2. CASE input.of # "route"
    BY <2>2 DEF RouteAgrees
  <2> QED BY <2>1, <2>2
<1> QED BY <1>1, EvaluatedInvariant, PTL

\* What the reader makes of a string is what the grammar says.
THEOREM BerIsExact == Spec => []BerExact
<1>1. ASSUME Evaluated PROVE BerExact
  <2>1. CASE input.of = "nested"
    <3>1. PICK object \in Nested : Given("nested", object, Convert(object.ber))
      BY <1>1, <2>1, KindOf
    <3>2. input.in = object /\ output = Convert(object.ber)
      BY <3>1 DEF Given
    <3>3. Convert(object.ber) = DerOf(object)
      BY NestedParsed, ParsedConverts
    <3> QED BY <2>1, <3>2, <3>3 DEF BerExact
  <2>2. CASE input.of = "ber"
    <3>1. PICK b \in BerInputs : \E n \in 0 .. b.most : \E string \in [1 .. n -> b.alphabet] :
            Given("ber", [bound |-> b, string |-> string], Convert(string))
      BY <1>1, <2>2, KindOf
    <3>2. PICK n \in 0 .. b.most : \E string \in [1 .. n -> b.alphabet] :
            Given("ber", [bound |-> b, string |-> string], Convert(string))
      BY <3>1
    <3>3. PICK string \in [1 .. n -> b.alphabet] :
            Given("ber", [bound |-> b, string |-> string], Convert(string))
      BY <3>2
    <3>4. input.in.bound = b /\ input.in.string = string /\ output = Convert(string)
      BY <3>3 DEF Given
    <3>5. b.alphabet \subseteq Byte /\ b.most \in Nat
      BY BerInputAssumption DEF Byte
    <3> DEFINE objects == {o \in Grammar(b.alphabet, b.most)[Len(string)].objects : o.ber = string}
    <3>6. Readable[b] = Grammar(b.alphabet, b.most)
      BY DEF Readable
    <3>7. string \in Seq(b.alphabet) /\ Len(string) <= b.most
      <4>1. n \in Nat
        BY <3>5
      <4>2. Len(string) = n /\ string \in Seq(b.alphabet)
        BY <4>1
      <4> QED BY <3>5, <4>2
    <3> HIDE DEF objects
    <3>8. Convert(string) = IF objects = {} THEN Invalid ELSE DerOf(CHOOSE o \in objects : TRUE)
      <4> DEFINE A == b.alphabet
                 most == b.most
      <4>1. A \subseteq Byte /\ most \in Nat /\ string \in Seq(A) /\ Len(string) <= most
            /\ objects = {o \in Grammar(A, most)[Len(string)].objects : o.ber = string}
        BY <3>5, <3>7 DEF objects
      <4> HIDE DEF A, most
      <4> QED BY <4>1, StringsExact
    <3>9. output = LET os == {o \in Readable[input.in.bound][Len(string)].objects : o.ber = string}
                   IN  IF os = {} THEN Invalid ELSE DerOf(CHOOSE o \in os : TRUE)
      BY <3>4, <3>6, <3>8 DEF objects
    <3> QED BY <2>2, <3>4, <3>9 DEF BerExact
  <2>3. CASE input.of \notin {"nested", "ber"}
    BY <2>3 DEF BerExact
  <2> QED BY <2>1, <2>2, <2>3
<1> QED BY <1>1, EvaluatedInvariant, PTL

\* Every message of KMS is opened, no other one, and only padding is removed.
THEOREM RecipientIsExact == Spec => []RecipientExact
<1>1. ASSUME Evaluated PROVE RecipientExact
  <2>1. CASE input.of \in {"message", "deviation", "padded"}
    <3>1. \/ \E in \in [data : Seq(Nat), style : Styles] :
                Given("message", in, Decrypt("rsa1", Message(in)))
          \/ \E in \in [data : Seq(Nat), style : Styles] : \E m \in Deviations(in) :
                Given("deviation", m, Decrypt("rsa1", m))
          \/ \E data \in Seq(Nat) : Given("padded", data, UnpadPKCS7(data))
      BY <1>1, <2>1, KindOf, MessageInputAssumption
    <3> QED BY <3>1, RecipientAgrees DEF Given
  <2>2. CASE input.of \notin {"message", "deviation", "padded"}
    BY <2>2 DEF RecipientExact
  <2> QED BY <2>1, <2>2
<1> QED BY <1>1, EvaluatedInvariant, PTL

\* A key is recovered, and only the key, exactly when it can be.
THEOREM EnvelopesRecover == Spec => []EnvelopeRecovers
<1>1. ASSUME Evaluated PROVE EnvelopeRecovers
  <2>1. CASE input.of = "envelope"
    <3>1. PICK in \in EnvelopeInputs : Given("envelope", in, Recovered(in))
      BY <1>1, <2>1, KindOf
    <3>2. in \in EnvelopeInput
      BY EnvelopeInputAssumption
    <3> QED BY <3>1, <3>2, RecoveredAgrees DEF Given
  <2>2. CASE input.of # "envelope"
    BY <2>2 DEF EnvelopeRecovers
  <2> QED BY <2>1, <2>2
<1> QED BY <1>1, EvaluatedInvariant, PTL

\* Initialize is called once and within its time; other limits are as documented.
THEOREM ClientIsLimited == Spec => []ClientLimits
<1>1. ASSUME Evaluated PROVE ClientLimits
  <2>1. CASE input.of = "client"
    <3>1. PICK in \in ClientInputs : Given("client", in, Limits(in))
      BY <1>1, <2>1, KindOf
    <3>2. ClientInput(in) /\ input.in = in /\ output = Limits(in)
      BY <3>1, ClientInputAssumption, SMTT(40) DEF Given, ClientInput
    <3> QED BY <3>2, LimitsAgree
  <2>2. CASE input.of # "client"
    BY <2>2 DEF ClientLimits
  <2> QED BY <2>1, <2>2
<1> QED BY <1>1, EvaluatedInvariant, PTL

\* A document is taken to be valid exactly when each certificate of its chain is.
THEOREM WindowIsExact == Spec => []WindowExact
<1>1. ASSUME Evaluated PROVE WindowExact
  <2>1. CASE input.of = "document"
    <3>1. PICK in \in DocumentInputs :
            Given("document", in, ValidateAt(ParseAttestationValidity(in.document), in.now))
      BY <1>1, <2>1, KindOf
    <3>2. /\ in \in DocumentInput /\ input.in = in
          /\ output = ValidateAt(ParseAttestationValidity(in.document), in.now)
      BY <3>1, DocumentInputAssumption DEF Given
    <3> QED BY <3>2, WindowAgrees
  <2>2. CASE input.of # "document"
    BY <2>2 DEF WindowExact
  <2> QED BY <2>1, <2>2
<1> QED BY <1>1, EvaluatedInvariant, PTL
=============================================================================
