------------------------------ MODULE AwsPath ------------------------------
(***************************************************************************)
(* The way of a KMS request out of the enclave: the SDK client dials the   *)
(* AWS proxy on loopback and writes a route header; the AWS proxy dials    *)
(* the host over vsock (TCP in development); the vsock proxy reads the     *)
(* header, resolves it, dials AWS and pipes the rest.  Both proxies are    *)
(* byte proxies, with the two dialers whose contract ByteProxy assumes.    *)
(*                                                                         *)
(* A stream is three units: two of the header, which a reader may find     *)
(* apart, and the SDK's own bytes (TLS or HTTP).  Units wait where they    *)
(* are until somebody wants them: what the AWS proxy has forwarded is      *)
(* settled when its bridge ends.  Answers flow back through the same       *)
(* bridges and are left out.  Each proxy's bridge is a field of a record   *)
(* here; its goroutines and its Shutdown are in ByteProxy.                 *)
(***************************************************************************)
EXTENDS KmsRoute, FiniteSets

CONSTANTS Conns,        \* client connections that exist at once
          MaxConns,     \* slots of each proxy
          Allowed       \* the regions of the host's ARNs

ASSUME PathAssumption ==
    /\ IsFiniteSet(Conns) /\ MaxConns \in Nat \ {0}
    /\ Allowed \subseteq Regions

VARIABLES
    transport,  \* of both proxies: "vsock" or "tcp"
    resolver,   \* the host's routeResolver
    loop,       \* the accept loop of each proxy
    conn        \* each connection, see Connections

vars == <<transport, resolver, loop, conn>>

Header == 2
Units == 3

Endpoints == {TcpLocalstackEndpoint} \cup {EndpointTemplate("kms", r) : r \in Regions}

\* client: the SDK's connection, and its region; inner, vsock, upstream: the
\* three connections; enclave, host: the bridges; dialer: the goroutine that
\* is in vsock.Dial; deadline: the host reads under its route deadline; wrote,
\* read, passed: the last unit that the client wrote, the route reader took, the
\* vsock proxy forwarded; target: the endpoint dialled.
Connections ==
    [client : {"off", "on", "over"}, region : Commercial \cup {None},
     inner : {"none", "open", "closed"}, vsock : {"none", "open", "closed"},
     upstream : {"none", "open", "closed"},
     enclave : {"off", "backlog", "dial", "pipe", "over"},
     dialer : {"off", "dialing", "returned", "refused", "over"},
     host : {"off", "backlog", "read", "dial", "pipe", "over"},
     deadline : BOOLEAN, wrote : 0..Units, read : 0..Header, passed : 0..Units,
     target : Endpoints \cup {None}]

Free ==
    [client |-> "off", region |-> None,
     inner |-> "none", vsock |-> "none", upstream |-> "none",
     enclave |-> "off", dialer |-> "off", host |-> "off",
     deadline |-> FALSE, wrote |-> 0, read |-> 0, passed |-> 0, target |-> None]

TypeOK ==
    /\ transport \in {"vsock", "tcp"}
    /\ resolver \in [local : BOOLEAN, allowed : SUBSET Regions]
    /\ loop \in [{"enclave", "host"} -> {"accept", "broken", "shut"}]
    /\ conn \in [Conns -> Connections]

Resolvers(kind) ==
    {r \in {[local |-> TRUE, allowed |-> {}], [local |-> FALSE, allowed |-> Allowed]} :
        r.local => kind = "tcp"}

\* Both proxies listen.
Init ==
    /\ transport \in {"vsock", "tcp"}
    /\ resolver \in Resolvers(transport)
    /\ loop = [side \in {"enclave", "host"} |-> "accept"]
    /\ conn = [c \in Conns |-> Free]

Step(c, state) ==
    /\ conn' = [conn EXCEPT ![c] = state]
    /\ UNCHANGED <<transport, resolver, loop>>

Bridges(side) == {c \in Conns : conn[c][side] \in {"read", "dial", "pipe"}}
-----------------------------------------------------------------------------
(* SDK client *)

\* awsproxyDialContext; no connection is used again (DisableKeepAlives).
Dial(c, region) ==
    /\ conn[c] = Free /\ loop["enclave"] # "shut"
    /\ Step(c, [Free EXCEPT !.client = "on", !.region = region,
                            !.inner = "open", !.enclave = "backlog"])

\* One Write of the whole header.
WriteAWSRoute(c) ==
    /\ conn[c].client = "on" /\ conn[c].inner = "open" /\ conn[c].wrote = 0
    /\ Step(c, [conn[c] EXCEPT !.wrote = Header])

\* The SDK starts TLS, or sends its request.
Send(c) ==
    /\ conn[c].client = "on" /\ conn[c].inner = "open" /\ conn[c].wrote = Header
    /\ Step(c, [conn[c] EXCEPT !.wrote = Units])

\* The answer, a closed connection, the HTTP timeout or the attempt's context:
\* the client closes its connection.
Finish(c) ==
    /\ conn[c].client = "on"
    /\ Step(c, [conn[c] EXCEPT !.client = "over", !.inner = "closed"])
-----------------------------------------------------------------------------
(* AWS proxy *)

\* The bridge ends and closes its connections.  Of the client's units it has
\* forwarded those that were read, and any number of the others.
EnclaveOver(state, forwarded) ==
    [state EXCEPT !.enclave = "over", !.inner = "closed", !.wrote = forwarded,
                  !.vsock = IF @ = "open" /\ state.enclave = "pipe" THEN "closed" ELSE @]

\* The accept loop starts a bridge, which starts vsock.Dial, or drops the
\* connection at its limit.
AcceptInner(c) ==
    /\ loop["enclave"] = "accept" /\ conn[c].enclave = "backlog"
    /\ \/ /\ Cardinality(Bridges("enclave")) < MaxConns
          /\ Step(c, [conn[c] EXCEPT !.enclave = "dial", !.dialer = "dialing"])
       \/ /\ Cardinality(Bridges("enclave")) >= MaxConns
          /\ Step(c, EnclaveOver(conn[c], 0))

\* The host's kernel takes the connection, or refuses it.
DialReturns(c) ==
    /\ conn[c].dialer = "dialing"
    /\ \/ /\ loop["host"] # "shut"
          /\ Step(c, [conn[c] EXCEPT !.dialer = "returned", !.vsock = "open",
                                     !.host = "backlog"])
       \/ Step(c, [conn[c] EXCEPT !.dialer = "refused"])

\* The bridge receives the dial's result.
TakeDialed(c) ==
    /\ conn[c].enclave = "dial"
    /\ \/ /\ conn[c].dialer = "returned"
          /\ Step(c, [conn[c] EXCEPT !.dialer = "over", !.enclave = "pipe"])
       \/ /\ conn[c].dialer = "refused"
          /\ Step(c, EnclaveOver([conn[c] EXCEPT !.dialer = "over"], 0))

\* Seeded bug: vsock.Dial is waited for, however long it takes.
AbandonNothing(c) ==
    /\ conn[c].enclave = "dial" /\ transport = "vsock" /\ loop["enclave"] = "shut"
    /\ Step(c, EnclaveOver(conn[c], 0))

\* The timeout of 10 s, or Shutdown, against the result of vsock.Dial, which
\* goes on without its bridge.
AbandonVsockDial(c) ==
    /\ conn[c].enclave = "dial" /\ transport = "vsock"
    /\ Step(c, EnclaveOver(conn[c], 0))

\* A TCP dial ends with its timeout or its context.
TcpDialEnds(c) ==
    /\ conn[c].enclave = "dial" /\ transport = "tcp" /\ conn[c].dialer = "dialing"
    /\ Step(c, EnclaveOver([conn[c] EXCEPT !.dialer = "over"], 0))

\* Seeded bug: what an abandoned dial returns is not looked at.
DrainNothing(c) ==
    /\ conn[c].enclave = "over" /\ conn[c].dialer = "refused"
    /\ Step(c, [conn[c] EXCEPT !.dialer = "over"])

\* drainVsockDial closes a connection that arrives late.
Drain(c) ==
    /\ conn[c].enclave = "over" /\ conn[c].dialer \in {"returned", "refused"}
    /\ Step(c, [conn[c] EXCEPT !.dialer = "over",
                    !.vsock = IF @ = "open" THEN "closed" ELSE @])

\* An end of the pipe is closed, or Shutdown was called.
EndInner(c) ==
    /\ conn[c].enclave = "pipe"
    /\ "closed" \in {conn[c].inner, conn[c].vsock} \/ loop["enclave"] = "shut"
    /\ \E forwarded \in conn[c].read..conn[c].wrote :
          Step(c, EnclaveOver(conn[c], forwarded))
-----------------------------------------------------------------------------
(* Vsock proxy *)

\* The bridge ends and closes its connections; nobody asks any more what it read.
HostOver(state) ==
    [state EXCEPT !.host = "over", !.vsock = "closed", !.upstream = "none",
                  !.deadline = FALSE, !.read = 0, !.passed = 0, !.target = None]

\* readRoute begins by setting its deadline of one second.
AcceptVsock(c) ==
    /\ loop["host"] = "accept" /\ conn[c].host = "backlog"
    /\ \/ /\ Cardinality(Bridges("host")) < MaxConns
          /\ Step(c, [conn[c] EXCEPT !.host = "read", !.deadline = TRUE])
       \/ /\ Cardinality(Bridges("host")) >= MaxConns
          /\ Step(c, HostOver(conn[c]))

\* What the AWS proxy can have forwarded by now.
Sent(c) == IF conn[c].enclave = "dial" THEN 0 ELSE conn[c].wrote

\* Seeded bug: the reader buffers what it finds.
ReadAhead(c) ==
    /\ conn[c].host = "read" /\ conn[c].read < Header /\ conn[c].read < Sent(c)
    /\ Step(c, [conn[c] EXCEPT !.read = Sent(c)])

\* io.ReadFull, first for the prefix and then for the payload.
ReadUnit(c) ==
    /\ conn[c].host = "read" /\ conn[c].read < Header /\ conn[c].read < Sent(c)
    /\ Step(c, [conn[c] EXCEPT !.read = @ + 1])

Route(c) == [service |-> "kms", region |-> conn[c].region]

\* Seeded bug: every region is allowed.
RouteUnchecked(c) ==
    /\ conn[c].host = "read" /\ conn[c].read = Header
    /\ Step(c, [conn[c] EXCEPT !.host = "dial", !.deadline = FALSE,
                               !.target = ResolveAny(resolver, Route(c))])

\* Seeded bug: the deadline stays.
RouteUnderDeadline(c) ==
    /\ conn[c].host = "read" /\ conn[c].read = Header
    /\ Resolve(resolver, Route(c)) # None
    /\ Step(c, [conn[c] EXCEPT !.host = "dial", !.target = Resolve(resolver, Route(c))])

\* readRoute clears the deadline; the route is resolved, or refused.
ResolveRoute(c) ==
    LET endpoint == Resolve(resolver, Route(c)) IN
    /\ conn[c].host = "read" /\ conn[c].read = Header
    /\ \/ /\ endpoint # None
          /\ Step(c, [conn[c] EXCEPT !.host = "dial", !.deadline = FALSE, !.target = endpoint])
       \/ /\ endpoint = None
          /\ Step(c, HostOver(conn[c]))

\* End of stream, the deadline, or Shutdown, which moves the deadline to now.
ReadFails(c) ==
    /\ conn[c].host = "read"
    /\ conn[c].read < Header \/ loop["host"] = "shut"
    /\ Step(c, HostOver(conn[c]))

\* The TCP dial to AWS: connected, or refused, timed out, cancelled.
DialUpstream(c) ==
    /\ conn[c].host = "dial"
    /\ \/ Step(c, [conn[c] EXCEPT !.host = "pipe", !.upstream = "open"])
       \/ Step(c, HostOver(conn[c]))

\* A copy; the first unit passed on is the one after those read.
ForwardVsock(c) ==
    LET next == IF conn[c].passed = 0 THEN conn[c].read + 1 ELSE conn[c].passed + 1 IN
    /\ conn[c].host = "pipe" /\ conn[c].upstream = "open" /\ next <= Sent(c)
    /\ Step(c, [conn[c] EXCEPT !.passed = next])

\* A read deadline that is still set ends a copy too.
EndVsock(c) ==
    /\ conn[c].host = "pipe"
    /\ \/ "closed" \in {conn[c].vsock, conn[c].upstream}
       \/ loop["host"] = "shut" \/ conn[c].deadline
    /\ Step(c, HostOver(conn[c]))
-----------------------------------------------------------------------------
(* AWS, and the end of the accept loops *)

AwsCloses(c) ==
    /\ conn[c].upstream = "open"
    /\ Step(c, [conn[c] EXCEPT !.upstream = "closed"])

\* An accept fails: the loop is over, its listener stays.
AcceptBreaks(side) ==
    /\ loop[side] = "accept"
    /\ loop' = [loop EXCEPT ![side] = "broken"]
    /\ UNCHANGED <<transport, resolver, conn>>

\* Shutdown closes the listener, and with it what is in its backlog.
Shutdown(side) ==
    /\ loop[side] # "shut"
    /\ loop' = [loop EXCEPT ![side] = "shut"]
    /\ conn' = [c \in Conns |->
                  CASE conn[c][side] # "backlog" -> conn[c]
                    [] side = "enclave" /\ conn[c].enclave = "backlog" ->
                         EnclaveOver(conn[c], 0)
                    [] side = "host" /\ conn[c].host = "backlog" ->
                         HostOver(conn[c])]
    /\ UNCHANGED <<transport, resolver>>

\* Nothing of c is left.
Settled(c) ==
    /\ conn[c].client \in {"off", "over"}
    /\ c \notin Bridges("enclave") \cup Bridges("host")
    /\ conn[c].dialer \in {"off", "over"}
    /\ "open" \notin {conn[c].inner, conn[c].vsock, conn[c].upstream}

Forget(c) == conn[c] # Free /\ Settled(c) /\ Step(c, Free)
-----------------------------------------------------------------------------
\* The steps of this program's goroutines.
Work(c) ==
    \/ AcceptInner(c) \/ TakeDialed(c) \/ AbandonVsockDial(c) \/ TcpDialEnds(c) \/ Drain(c)
    \/ EndInner(c)
    \/ AcceptVsock(c) \/ ReadUnit(c) \/ ResolveRoute(c) \/ ReadFails(c)
    \/ DialUpstream(c) \/ ForwardVsock(c) \/ EndVsock(c)

Next ==
    \/ \E c \in Conns :
          \/ \E region \in Commercial : Dial(c, region)
          \/ WriteAWSRoute(c) \/ Send(c) \/ Finish(c)
          \/ Work(c) \/ DialReturns(c) \/ AwsCloses(c) \/ Forget(c)
    \/ \E side \in {"enclave", "host"} : AcceptBreaks(side) \/ Shutdown(side)

\* Goroutines run and timers fire.  A vsock dial need not return, and AWS need
\* not answer.
Fairness == \A c \in Conns : WF_vars(Work(c)) /\ WF_vars(Finish(c))

Spec == Init /\ [][Next]_vars
FairSpec == Spec /\ Fairness
-----------------------------------------------------------------------------
(* Properties *)

\* The SDK's bytes reach only the endpoint of the region whose client wrote
\* them, one of the host's regions, or LocalStack; and they are all the endpoint gets,
\* without the header and from the first on, however the stream was cut.
RightEndpoint ==
    \A c \in Conns :
        /\ conn[c].upstream = "open" =>
              \/ resolver.local /\ conn[c].target = TcpLocalstackEndpoint
              \/ /\ ~resolver.local /\ conn[c].region \in resolver.allowed
                 /\ conn[c].target = [host |-> KmsHost(conn[c].region), port |-> 443]
        /\ conn[c].passed # 0 => conn[c].read = Header /\ conn[c].passed = Units

\* The vsock proxy ends a piped connection only because one of its ends is
\* closed, or it is shut down: never by what bounded the reading of the route.
Undisturbed ==
    [][\A c \in Conns :
         conn[c].host = "pipe" /\ conn'[c].host = "over" =>
            "closed" \in {conn[c].vsock, conn[c].upstream} \/ loop["host"] = "shut"]_vars

\* A vsock dial that never returned.  Its goroutine is lost, its slot is not.
Hung(c) == conn[c].dialer = "dialing" /\ conn[c].enclave = "over"

\* Whatever fails or hangs (a dial, AWS, an accept loop that broke), every
\* connection's slots, bridges and sockets are given back on both sides.
ReleasesAll == \A c \in Conns : conn[c] # Free ~> Settled(c) \/ Hung(c)
=============================================================================
