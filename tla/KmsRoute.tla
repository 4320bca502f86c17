------------------------------ MODULE KmsRoute ------------------------------
(***************************************************************************)
(* Which KMS endpoint a key ARN leads to.  Inside the enclave an ARN       *)
(* becomes an SDK client (awskms.go, awsconfig.go): the address it dials,  *)
(* the route header it writes, the server name it verifies.  On the host   *)
(* the route becomes an endpoint (vsockproxy/routing.go).  Both sides have *)
(* a configuration of their own.                                           *)
(*                                                                         *)
(* A parsed ARN is a record; a host name is the pair it is made of.        *)
(***************************************************************************)
EXTENDS Integers, Sequences

CONSTANTS Regions,      \* regions that ARNs name
          Commercial,   \* those of validateKMSRegion's list
          None

ASSUME RouteAssumption == Commercial \subseteq Regions /\ None \notin Regions

AWSServiceNames == <<"kms">>

NotParsed == [parses |-> FALSE, partition |-> None, service |-> None, region |-> None]

\* The region of an ARN may be empty.
Arns ==
    [parses : {TRUE}, partition : {"aws", "aws-cn"}, service : {"kms", "s3"},
     region : Regions \cup {None}]
    \cup {NotParsed}

KmsHost(region) == <<"kms", region>>
TcpLocalstackEndpoint == [host |-> <<"localstack", None>>, port |-> 4566]
-----------------------------------------------------------------------------
(* Enclave *)

ValidateKMSRegion(region) == region \in Commercial

ExtractRegion(arn) ==
    IF /\ arn.parses /\ arn.partition = "aws" /\ arn.service = "kms"
       /\ arn.region # None /\ ValidateKMSRegion(arn.region)
    THEN arn.region ELSE None

\* ValidateRegions, with which Initialize refuses a request early.
ValidateRegions(credentialsRegion, arns) ==
    /\ ValidateKMSRegion(credentialsRegion)
    /\ arns # <<>>
    /\ \A i \in DOMAIN arns : ExtractRegion(arns[i]) # None

\* The enclave does not start unless the SDK's dial target is the listener of
\* its own proxy.
ValidateAwsproxyConfig(endpoint, basePort) ==
    endpoint.host \in {"127.0.0.1", "localhost"} /\ endpoint.port = basePort

\* NewAWSProxy: where the listener of each service is.
ServicePort(basePort, service) ==
    basePort + (CHOOSE i \in DOMAIN AWSServiceNames : AWSServiceNames[i] = service) - 1

\* BuildConfig: LocalStack is spoken to over plain HTTP, at the proxy's address.
BaseEndpoint(endpoint, localstack) == IF localstack THEN endpoint ELSE None

\* newAwsproxyHTTPClient: whatever the SDK wants to dial, the client dials the
\* proxy, writes its route, and verifies this server name (None: no TLS).
HTTPClient(endpoint, route, serverName) ==
    [dials |-> endpoint, route |-> route, verifies |-> serverName]

\* Seeded bug: every client writes the first ARN's route.
ClientsOfOneRoute(arns, endpoint, localstack) ==
    [i \in DOMAIN arns |->
        HTTPClient(endpoint, [service |-> "kms", region |-> ExtractRegion(arns[1])],
                   IF BaseEndpoint(endpoint, localstack) = None
                   THEN KmsHost(ExtractRegion(arns[i])) ELSE None)]

\* initClients: one client per ARN, in order.
Clients(arns, endpoint, localstack) ==
    [i \in DOMAIN arns |->
        LET region == ExtractRegion(arns[i]) IN
        HTTPClient(endpoint, [service |-> "kms", region |-> region],
                   IF BaseEndpoint(endpoint, localstack) = None
                   THEN KmsHost(region) ELSE None)]
-----------------------------------------------------------------------------
(* Host *)

\* newRouteResolver.  LocalStack is for the TCP transport only; without it
\* the ARNs' regions are what is allowed.
ResolverAccepts(arns, localstack, transport) ==
    IF localstack THEN transport = "tcp"
    ELSE /\ arns # <<>>
         /\ \A i \in DOMAIN arns :
               arns[i].parses /\ arns[i].service = "kms" /\ arns[i].region # None

Resolver(arns, localstack) ==
    [local |-> localstack,
     allowed |-> IF localstack THEN {} ELSE {arns[i].region : i \in DOMAIN arns}]

\* The template of each service, for a region.
EndpointTemplate(service, region) == [host |-> <<service, region>>, port |-> 443]

\* Seeded bug: the regions of the ARNs are not looked at.
ResolveAny(resolver, route) ==
    IF resolver.local THEN TcpLocalstackEndpoint
    ELSE EndpointTemplate(route.service, route.region)

\* resolve, after the check that the route names the listener's service.
Resolve(resolver, route) ==
    CASE route.service # "kms" -> None
      [] route.service = "kms" /\ resolver.local -> TcpLocalstackEndpoint
      [] route.service = "kms" /\ ~resolver.local /\ route.region \notin resolver.allowed -> None
      [] OTHER -> EndpointTemplate(route.service, route.region)
=============================================================================
