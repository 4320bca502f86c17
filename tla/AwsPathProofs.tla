--------------------------- MODULE AwsPathProofs ---------------------------
(***************************************************************************)
(* Where the bytes of a KMS client go, for any connections, regions, host  *)
(* configuration and number of slots.                                      *)
(***************************************************************************)
EXTENDS AwsPath, TLAPS

\* What the bridge of the vsock proxy has done at each of its stages; it does
\* not begin before a dialer has connected.
Staged(state, res) ==
    /\ state.enclave \in {"off", "backlog"} => state.dialer = "off"
    /\ state.dialer \in {"off", "dialing", "refused"} => state.host = "off"
    /\ state.host \notin {"read", "dial", "pipe"} => ~state.deadline /\ state.read = 0
    /\ state.host # "pipe" => state.upstream # "open" /\ state.passed = 0
    /\ state.host \in {"dial", "pipe"} =>
          /\ ~state.deadline /\ state.read = Header
          /\ state.target = Resolve(res, [service |-> "kms", region |-> state.region])
          /\ state.target # None
    /\ state.host = "pipe" => state.passed \in {0, Units}

StageInv == \A c \in Conns : Staged(conn[c], resolver)

PInv == TypeOK /\ StageInv
-----------------------------------------------------------------------------
LEMMA Bounds == {0, Header, Units} \subseteq 0..Units /\ {0, Header} \subseteq 0..Header
BY DEF Header, Units

LEMMA FreeStaged ==
    ASSUME NEW res PROVE Free \in Connections /\ Staged(Free, res)
<1>1. Free \in Connections
  BY Bounds DEF Free, Connections
<1> QED
  BY <1>1 DEF Free, Staged

LEMMA HostOverStaged ==
    ASSUME NEW res, NEW state \in Connections, Staged(state, res),
           state.host # "off"
    PROVE  HostOver(state) \in Connections /\ Staged(HostOver(state), res)
<1>1. HostOver(state) \in Connections
  BY Bounds DEF HostOver, Connections
<1>2. /\ HostOver(state).host = "over" /\ HostOver(state).upstream = "none"
      /\ HostOver(state).deadline = FALSE /\ HostOver(state).read = 0
      /\ HostOver(state).passed = 0
      /\ HostOver(state).enclave = state.enclave
      /\ HostOver(state).dialer = state.dialer
  BY DEF HostOver, Connections
<1> QED
  BY <1>1, <1>2 DEF Staged

LEMMA EnclaveOverStaged ==
    ASSUME NEW res, NEW state \in Connections, Staged(state, res), NEW n \in 0..Units
    PROVE  EnclaveOver(state, n) \in Connections /\ Staged(EnclaveOver(state, n), res)
<1>1. EnclaveOver(state, n) \in Connections
  BY DEF EnclaveOver, Connections, Units, Header
<1>2. /\ EnclaveOver(state, n).host = state.host
      /\ EnclaveOver(state, n).upstream = state.upstream
      /\ EnclaveOver(state, n).deadline = state.deadline
      /\ EnclaveOver(state, n).read = state.read
      /\ EnclaveOver(state, n).passed = state.passed
      /\ EnclaveOver(state, n).target = state.target
      /\ EnclaveOver(state, n).region = state.region
      /\ EnclaveOver(state, n).enclave = "over"
      /\ EnclaveOver(state, n).dialer = state.dialer
  BY DEF EnclaveOver, Connections
<1> QED
  BY <1>1, <1>2 DEF Staged

\* A step of one connection preserves the invariant if its record is staged.
LEMMA StepInv ==
    ASSUME PInv, NEW c \in Conns, NEW state \in Connections,
           Staged(state, resolver), Step(c, state)
    PROVE  PInv'
<1>1. /\ conn' = [conn EXCEPT ![c] = state] /\ conn \in [Conns -> Connections]
      /\ UNCHANGED <<transport, resolver, loop>>
  BY DEF PInv, TypeOK, Step
<1>2. TypeOK'
  BY <1>1 DEF PInv, TypeOK
<1>3. StageInv'
  BY <1>1 DEF PInv, StageInv
<1> QED
  BY <1>2, <1>3 DEF PInv

LEMMA InitInv == Init => PInv
<1> SUFFICES ASSUME Init PROVE PInv
  OBVIOUS
<1>1. TypeOK
  <2>1. /\ [local |-> TRUE, allowed |-> {}] \in [local : BOOLEAN, allowed : SUBSET Regions]
        /\ [local |-> FALSE, allowed |-> Allowed] \in [local : BOOLEAN, allowed : SUBSET Regions]
    BY PathAssumption
  <2>2. conn \in [Conns -> Connections]
    BY FreeStaged DEF Init
  <2> QED
    BY <2>1, <2>2 DEF Init, TypeOK, Resolvers
<1>2. StageInv
  BY FreeStaged DEF Init, StageInv
<1> QED
  BY <1>1, <1>2 DEF PInv
-----------------------------------------------------------------------------
(* One lemma per group of steps *)

LEMMA ClientStep ==
    ASSUME PInv, NEW c \in Conns,
           \/ \E region \in Commercial : Dial(c, region)
           \/ WriteAWSRoute(c) \/ Send(c) \/ Finish(c) \/ Forget(c)
    PROVE  PInv'
<1>1. conn[c] \in Connections /\ Staged(conn[c], resolver)
  BY DEF PInv, TypeOK, StageInv
<1>2. CASE \E region \in Commercial : Dial(c, region)
  <2> PICK region \in Commercial : Dial(c, region)
    BY <1>2
  <2> DEFINE s == [Free EXCEPT !.client = "on", !.region = region,
                               !.inner = "open", !.enclave = "backlog"]
  <2>1. s \in Connections
    BY FreeStaged DEF Connections
  <2>2. Staged(s, resolver)
    BY DEF Free, Staged
  <2> QED
    BY <2>1, <2>2, StepInv DEF Dial
<1>3. CASE WriteAWSRoute(c)
  <2> DEFINE s == [conn[c] EXCEPT !.wrote = Header]
  <2>1. s \in Connections
    BY <1>1 DEF Connections, Units, Header
  <2>2. Staged(s, resolver)
    BY <1>1 DEF Connections, Staged
  <2> QED
    BY <1>3, <2>1, <2>2, StepInv DEF WriteAWSRoute
<1>4. CASE Send(c)
  <2> DEFINE s == [conn[c] EXCEPT !.wrote = Units]
  <2>1. s \in Connections
    BY <1>1 DEF Connections, Units, Header
  <2>2. Staged(s, resolver)
    BY <1>1 DEF Connections, Staged
  <2> QED
    BY <1>4, <2>1, <2>2, StepInv DEF Send
<1>5. CASE Finish(c)
  <2> DEFINE s == [conn[c] EXCEPT !.client = "over", !.inner = "closed"]
  <2>1. s \in Connections
    BY <1>1 DEF Connections
  <2>2. Staged(s, resolver)
    BY <1>1 DEF Connections, Staged
  <2> QED
    BY <1>5, <2>1, <2>2, StepInv DEF Finish
<1>6. CASE Forget(c)
  BY <1>6, FreeStaged, StepInv DEF Forget
<1> QED
  BY <1>2, <1>3, <1>4, <1>5, <1>6

LEMMA EnclaveStep ==
    ASSUME PInv, NEW c \in Conns,
           AcceptInner(c) \/ TakeDialed(c) \/ AbandonVsockDial(c) \/ TcpDialEnds(c)
             \/ Drain(c) \/ EndInner(c) \/ DialReturns(c)
    PROVE  PInv'
<1>1. conn[c] \in Connections /\ Staged(conn[c], resolver)
  BY DEF PInv, TypeOK, StageInv
<1>2. 0 \in 0..Units
  BY DEF Units
<1>3. EnclaveOver(conn[c], 0) \in Connections /\ Staged(EnclaveOver(conn[c], 0), resolver)
  BY <1>1, <1>2, EnclaveOverStaged
<1> DEFINE over == [conn[c] EXCEPT !.dialer = "over"]
<1>4. CASE AcceptInner(c)
  <2> DEFINE s == [conn[c] EXCEPT !.enclave = "dial", !.dialer = "dialing"]
  <2>1. s \in Connections
    BY <1>1 DEF Connections
  <2>2. Staged(s, resolver)
    BY <1>1, <1>4 DEF AcceptInner, Connections, Staged
  <2> QED
    BY <1>3, <1>4, <2>1, <2>2, StepInv DEF AcceptInner
<1>5. CASE conn[c].dialer # "off" /\ Step(c, EnclaveOver(over, 0))
  <2>1. over \in Connections
    BY <1>1 DEF Connections
  <2>2. Staged(over, resolver)
    BY <1>1, <1>5 DEF Connections, Staged
  <2>3. EnclaveOver(over, 0) \in Connections /\ Staged(EnclaveOver(over, 0), resolver)
    BY <1>2, <2>1, <2>2, EnclaveOverStaged
  <2> QED
    BY <1>5, <2>3, StepInv
<1>6. CASE TakeDialed(c)
  <2> DEFINE s == [conn[c] EXCEPT !.dialer = "over", !.enclave = "pipe"]
  <2>1. s \in Connections
    BY <1>1 DEF Connections
  <2>2. CASE conn[c].dialer = "returned" /\ Step(c, s)
    <3>1. Staged(s, resolver)
      BY <1>1, <2>2 DEF Connections, Staged
    <3> QED
      BY <2>1, <2>2, <3>1, StepInv
  <2> QED
    BY <1>5, <1>6, <2>2 DEF TakeDialed
<1>7. CASE AbandonVsockDial(c) \/ TcpDialEnds(c)
  BY <1>3, <1>5, <1>7, StepInv DEF AbandonVsockDial, TcpDialEnds
<1>8. CASE Drain(c)
  <2> DEFINE v == IF conn[c].vsock = "open" THEN "closed" ELSE conn[c].vsock
             s == [conn[c] EXCEPT !.dialer = "over", !.vsock = v]
  <2>1. s \in Connections
    BY <1>1 DEF Connections
  <2>2. Staged(s, resolver)
    BY <1>1, <1>8 DEF Drain, Connections, Staged
  <2> QED
    BY <1>8, <2>1, <2>2, StepInv DEF Drain
<1>9. CASE EndInner(c)
  <2>1. PICK n \in conn[c].read..conn[c].wrote : Step(c, EnclaveOver(conn[c], n))
    BY <1>9 DEF EndInner
  <2>2. n \in 0..Units
    BY <1>1, <2>1 DEF Connections, Units, Header
  <2> QED
    BY <1>1, <2>1, <2>2, EnclaveOverStaged, StepInv
<1>10. CASE DialReturns(c)
  <2> DEFINE s == [conn[c] EXCEPT !.dialer = "returned", !.vsock = "open",
                                  !.host = "backlog"]
             r == [conn[c] EXCEPT !.dialer = "refused"]
  <2>1. s \in Connections /\ r \in Connections
    BY <1>1 DEF Connections
  <2>2. Staged(s, resolver) /\ Staged(r, resolver)
    BY <1>1, <1>10 DEF DialReturns, Connections, Staged
  <2> QED
    BY <1>10, <2>1, <2>2, StepInv DEF DialReturns
<1> QED
  BY <1>4, <1>6, <1>7, <1>8, <1>9, <1>10

LEMMA HostStep ==
    ASSUME PInv, NEW c \in Conns,
           AcceptVsock(c) \/ ReadUnit(c) \/ ResolveRoute(c) \/ ReadFails(c)
             \/ DialUpstream(c) \/ ForwardVsock(c) \/ EndVsock(c) \/ AwsCloses(c)
    PROVE  PInv'
<1>1. conn[c] \in Connections /\ Staged(conn[c], resolver)
  BY DEF PInv, TypeOK, StageInv
<1>2. CASE conn[c].host # "off" /\ Step(c, HostOver(conn[c]))
  BY <1>1, <1>2, HostOverStaged, StepInv
<1>3. CASE AcceptVsock(c)
  <2> DEFINE s == [conn[c] EXCEPT !.host = "read", !.deadline = TRUE]
  <2>1. s \in Connections
    BY <1>1 DEF Connections
  <2>2. Staged(s, resolver)
    BY <1>1, <1>3 DEF AcceptVsock, Connections, Staged
  <2> QED
    BY <1>2, <1>3, <2>1, <2>2, StepInv DEF AcceptVsock
<1>4. CASE ReadUnit(c)
  <2> DEFINE s == [conn[c] EXCEPT !.read = conn[c].read + 1]
  <2>1. conn[c].host = "read" /\ conn[c].read + 1 \in 0..Header
    BY <1>1, <1>4 DEF ReadUnit, Connections, Header
  <2>2. s \in Connections
    BY <1>1, <2>1 DEF Connections
  <2>3. Staged(s, resolver)
    BY <1>1, <2>1 DEF Connections, Staged
  <2> QED
    BY <1>4, <2>2, <2>3, StepInv DEF ReadUnit
<1>5. CASE ResolveRoute(c)
  <2> DEFINE endpoint == Resolve(resolver, Route(c))
             s == [conn[c] EXCEPT !.host = "dial", !.deadline = FALSE, !.target = endpoint]
  <2>1. CASE endpoint # None /\ Step(c, s)
    <3>1. endpoint \in Endpoints
      BY <1>1, <2>1, RouteAssumption
      DEF Resolve, Route, Endpoints, EndpointTemplate, PInv, TypeOK
    <3>2. s \in Connections
      BY <1>1, <3>1 DEF Connections
    <3>3. Staged(s, resolver)
      BY <1>1, <1>5, <2>1 DEF ResolveRoute, Connections, Staged, Route
    <3> QED
      BY <2>1, <3>2, <3>3, StepInv
  <2> QED
    BY <1>2, <1>5, <2>1 DEF ResolveRoute
<1>6. CASE ReadFails(c)
  BY <1>2, <1>6 DEF ReadFails
<1>7. CASE DialUpstream(c)
  <2> DEFINE s == [conn[c] EXCEPT !.host = "pipe", !.upstream = "open"]
  <2>1. s \in Connections
    BY <1>1 DEF Connections
  <2>2. Staged(s, resolver)
    BY <1>1, <1>7 DEF DialUpstream, Connections, Staged
  <2> QED
    BY <1>2, <1>7, <2>1, <2>2, StepInv DEF DialUpstream
<1>8. CASE ForwardVsock(c)
  <2> DEFINE next == IF conn[c].passed = 0 THEN conn[c].read + 1 ELSE conn[c].passed + 1
             s == [conn[c] EXCEPT !.passed = next]
  <2>1. conn[c].host = "pipe" /\ next <= Sent(c) /\ Step(c, s)
    BY <1>8 DEF ForwardVsock
  <2>2. Sent(c) <= Units
    BY <1>1 DEF Sent, Connections, Units
  <2>3. conn[c].read = Header /\ conn[c].passed \in {0, Units} /\ Sent(c) \in Int
    BY <1>1, <2>1 DEF Staged, Sent, Connections
  <2>4. next = Units
    BY <2>1, <2>2, <2>3 DEF Header, Units
  <2>5. s \in Connections
    BY <1>1, <2>4, Bounds DEF Connections
  <2>6. Staged(s, resolver)
    BY <1>1, <2>1, <2>4 DEF Connections, Staged
  <2> QED
    BY <2>1, <2>5, <2>6, StepInv
<1>9. CASE EndVsock(c)
  BY <1>2, <1>9 DEF EndVsock
<1>10. CASE AwsCloses(c)
  <2> DEFINE s == [conn[c] EXCEPT !.upstream = "closed"]
  <2>1. s \in Connections
    BY <1>1 DEF Connections
  <2>2. Staged(s, resolver)
    BY <1>1 DEF Connections, Staged
  <2> QED
    BY <1>10, <2>1, <2>2, StepInv DEF AwsCloses
<1> QED
  BY <1>3, <1>4, <1>5, <1>6, <1>7, <1>8, <1>9, <1>10

LEMMA SideStep ==
    ASSUME PInv, NEW side \in {"enclave", "host"}, AcceptBreaks(side) \/ Shutdown(side)
    PROVE  PInv'
<1>1. CASE AcceptBreaks(side)
  BY <1>1 DEF AcceptBreaks, PInv, TypeOK, StageInv
<1>2. CASE Shutdown(side)
  <2>1. ASSUME NEW c \in Conns
        PROVE  conn'[c] \in Connections /\ Staged(conn'[c], resolver)
    <3>1. conn[c] \in Connections /\ Staged(conn[c], resolver) /\ 0 \in 0..Units
      BY DEF PInv, TypeOK, StageInv, Units
    <3>2. CASE conn[c][side] # "backlog"
      BY <1>2, <3>1, <3>2 DEF Shutdown
    <3>3. CASE side = "enclave" /\ conn[c].enclave = "backlog"
      <4>1. conn'[c] = EnclaveOver(conn[c], 0)
        BY <1>2, <3>3 DEF Shutdown
      <4> QED
        BY <3>1, <4>1, EnclaveOverStaged
    <3>4. CASE side = "host" /\ conn[c].host = "backlog"
      <4>1. conn'[c] = HostOver(conn[c])
        BY <1>2, <3>4 DEF Shutdown
      <4> QED
        BY <3>1, <3>4, <4>1, HostOverStaged
    <3> QED
      BY <3>1, <3>2, <3>3, <3>4 DEF Connections
  <2>2. /\ conn' = [c \in Conns |-> conn'[c]] /\ UNCHANGED <<transport, resolver>>
        /\ loop' = [loop EXCEPT ![side] = "shut"]
    BY <1>2 DEF Shutdown
  <2>3. TypeOK'
    BY <2>1, <2>2 DEF PInv, TypeOK
  <2>4. StageInv'
    BY <2>1, <2>2 DEF StageInv
  <2> QED
    BY <2>3, <2>4 DEF PInv
<1> QED
  BY <1>1, <1>2

LEMMA Preserved == PInv /\ [Next]_vars => PInv'
<1> SUFFICES ASSUME PInv, [Next]_vars PROVE PInv'
  OBVIOUS
<1>1. CASE UNCHANGED vars
  BY <1>1 DEF vars, PInv, TypeOK, StageInv
<1>2. CASE Next
  BY <1>2, ClientStep, EnclaveStep, HostStep, SideStep DEF Next, Work
<1> QED
  BY <1>1, <1>2

LEMMA Always == Spec => []PInv
<1> QED
  BY InitInv, Preserved, PTL DEF Spec
-----------------------------------------------------------------------------
(* The theorems *)

\* The type invariant of the whole path.
THEOREM TypeCorrect == Spec => []TypeOK
<1>1. PInv => TypeOK
  BY DEF PInv
<1> QED
  BY <1>1, Always, PTL

\* The vsock proxy connects a client to the endpoint of its own region only
\* (or to LocalStack), only if the host has an ARN in it, and passes on all
\* that follows the route header and nothing else.
THEOREM OwnEndpointOnly == Spec => []RightEndpoint
<1>1. PInv => RightEndpoint
  <2> SUFFICES ASSUME PInv, NEW c \in Conns
               PROVE  /\ conn[c].upstream = "open" =>
                           \/ resolver.local /\ conn[c].target = TcpLocalstackEndpoint
                           \/ /\ ~resolver.local /\ conn[c].region \in resolver.allowed
                              /\ conn[c].target = [host |-> KmsHost(conn[c].region), port |-> 443]
                      /\ conn[c].passed # 0 =>
                           conn[c].read = Header /\ conn[c].passed = Units
    BY DEF RightEndpoint
  <2>1. Staged(conn[c], resolver) /\ resolver.local \in BOOLEAN
    BY DEF PInv, StageInv, TypeOK
  <2>2. ASSUME conn[c].upstream = "open"
        PROVE  \/ resolver.local /\ conn[c].target = TcpLocalstackEndpoint
               \/ /\ ~resolver.local /\ conn[c].region \in resolver.allowed
                  /\ conn[c].target = [host |-> KmsHost(conn[c].region), port |-> 443]
    <3>1. /\ conn[c].target = Resolve(resolver, [service |-> "kms", region |-> conn[c].region])
          /\ conn[c].target # None
      BY <2>1, <2>2 DEF Staged
    <3> QED
      BY <2>1, <3>1 DEF Resolve, EndpointTemplate, KmsHost
  <2>3. conn[c].passed # 0 => conn[c].read = Header /\ conn[c].passed = Units
    BY <2>1 DEF Staged
  <2> QED
    BY <2>2, <2>3
<1> QED
  BY <1>1, Always, PTL

\* Nothing else makes a piped bridge of the host end.
LEMMA OnlyEndVsock ==
    ASSUME PInv, Next, NEW c \in Conns, conn[c].host = "pipe", conn'[c].host = "over"
    PROVE  EndVsock(c)
<1>1. conn[c] \in Connections /\ conn \in [Conns -> Connections]
  BY DEF PInv, TypeOK
<1>2. ASSUME NEW state, Step(c, state), state.host # "over" PROVE FALSE
  BY <1>1, <1>2 DEF Step
<1>3. ASSUME NEW d \in Conns, NEW state, Step(d, state), d # c PROVE FALSE
  BY <1>1, <1>3 DEF Step
<1>4. ASSUME NEW side \in {"enclave", "host"}, AcceptBreaks(side) \/ Shutdown(side)
      PROVE  FALSE
  <2>1. conn'[c] = conn[c] \/ conn'[c] = EnclaveOver(conn[c], 0)
    BY <1>1, <1>4 DEF AcceptBreaks, Shutdown
  <2>2. EnclaveOver(conn[c], 0).host = conn[c].host
    BY <1>1 DEF EnclaveOver, Connections
  <2> QED
    BY <2>1, <2>2
<1>5. PICK d \in Conns :
          \/ \E region \in Commercial : Dial(d, region)
          \/ WriteAWSRoute(d) \/ Send(d) \/ Finish(d)
          \/ Work(d) \/ DialReturns(d) \/ AwsCloses(d) \/ Forget(d)
  BY <1>4 DEF Next
<1>6. d = c
  BY <1>3, <1>5
     DEF Dial, WriteAWSRoute, Send, Finish, Work, DialReturns, AwsCloses, Forget,
         AcceptInner, TakeDialed, AbandonVsockDial, TcpDialEnds, Drain, EndInner, AcceptVsock, ReadUnit,
         ResolveRoute, ReadFails, DialUpstream, ForwardVsock, EndVsock
<1>7. ASSUME NEW n, Step(c, EnclaveOver(conn[c], n)) PROVE FALSE
  BY <1>1, <1>2, <1>7 DEF EnclaveOver, Connections
<1>8. ASSUME NEW n, Step(c, EnclaveOver([conn[c] EXCEPT !.dialer = "over"], n)) PROVE FALSE
  BY <1>1, <1>2, <1>8 DEF EnclaveOver, Connections
<1>9. ~ \/ \E region \in Commercial : Dial(c, region)
        \/ WriteAWSRoute(c) \/ Send(c) \/ Finish(c) \/ Forget(c)
  BY <1>1, <1>2 DEF Dial, WriteAWSRoute, Send, Finish, Forget, Free, Connections
<1>10. ~(AcceptInner(c) \/ TakeDialed(c) \/ AbandonVsockDial(c) \/ TcpDialEnds(c)
          \/ Drain(c) \/ EndInner(c))
  <2>1. ~AcceptInner(c)
    BY <1>1, <1>2, <1>7 DEF AcceptInner, Connections
  <2>2. ~TakeDialed(c)
    BY <1>1, <1>2, <1>8 DEF TakeDialed, Connections
  <2>3. ~(AbandonVsockDial(c) \/ TcpDialEnds(c))
    BY <1>7, <1>8 DEF AbandonVsockDial, TcpDialEnds
  <2>4. ~Drain(c)
    BY <1>1, <1>2 DEF Drain, Connections
  <2>5. ~EndInner(c)
    BY <1>7 DEF EndInner
  <2> QED
    BY <2>1, <2>2, <2>3, <2>4, <2>5
<1>11. ~(DialReturns(c) \/ AwsCloses(c) \/ ForwardVsock(c))
  BY <1>1, <1>2 DEF DialReturns, AwsCloses, ForwardVsock, Connections
<1>12. ~(AcceptVsock(c) \/ ReadUnit(c) \/ ResolveRoute(c) \/ ReadFails(c) \/ DialUpstream(c))
  BY DEF AcceptVsock, ReadUnit, ResolveRoute, ReadFails, DialUpstream
<1> QED
  BY <1>5, <1>6, <1>9, <1>10, <1>11, <1>12 DEF Work

\* A piped connection is never ended by the deadline of its route header.
THEOREM NeverCutShort == Spec => Undisturbed
<1>1. ASSUME PInv, [Next]_vars
      PROVE  [\A c \in Conns :
                conn[c].host = "pipe" /\ conn'[c].host = "over" =>
                   "closed" \in {conn[c].vsock, conn[c].upstream} \/ loop["host"] = "shut"]_vars
  <2> SUFFICES ASSUME Next, NEW c \in Conns,
                      conn[c].host = "pipe", conn'[c].host = "over"
               PROVE  "closed" \in {conn[c].vsock, conn[c].upstream} \/ loop["host"] = "shut"
    BY <1>1
  <2>1. EndVsock(c) /\ ~conn[c].deadline
    BY <1>1, OnlyEndVsock DEF PInv, StageInv, Staged
  <2> QED
    BY <2>1 DEF EndVsock
<1> QED
  BY <1>1, Always, PTL DEF Spec, Undisturbed
=============================================================================
