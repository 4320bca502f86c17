# TLA+ models and proofs for arc-remote-signer

The signer keeps a validator key inside an AWS Nitro enclave. A host process
serves `PublicKey` and `Sign` to the validator; the enclave generates or recovers
the key through KMS, holds it in memory and signs with it; byte proxies on both
sides carry the enclave's KMS traffic. This directory holds TLA+ models of that
program, the TLC runs that check them on small instances, and TLAPS proofs for
all instances. Paths below are relative to the repository.

## Inventory

| Component (source) | State | Operations | Interacts with | What must hold |
| --- | --- | --- | --- | --- |
| Initialization gate (`internal/enclave/service/enclave`) | `ready` pointer, singleflight call | Initialize, GetPublicKey, SignMessage | host RPCs, KMS provider, NSM | one key per incarnation, shared attempts never mix key sources or cancellations, every RPC is answered |
| Startup retries (`internal/app/enclaveinit.go`) and KMS provider (`internal/enclave/provider/awskms`) | credentials cache, attempt counter, budget; ordered list of regional clients | Initialize with retries, GenerateDataKey and Decrypt with failover | gRPC client, gate, KMS through the proxies | an authentication error is never masked, credentials are replaced after it, one disrupted region does not fail the startup |
| AWS configuration in the enclave (`.../provider/awskms/awsconfig.go`) | none | one SDK client per key ARN: address, route header, server name | AWS proxy | every client writes its own region's route and verifies that region's name |
| Recipient decryption (`.../provider/enclave/kmsrecipient`) | none | BER to DER, checks of the CMS message, decryption | NSM, KMS replies | what KMS writes is opened in every encoding, anything else is refused |
| Enclave provider (`.../provider/enclave`) and envelopes (`service/enclave/envelope.go`) | the RSA key of the incarnation | attest, generate and load a key candidate | NSM device, KMS | a key generated by one enclave is recovered by any later one |
| Key lifecycle (`internal/app/service/signer/v1`, `internal/app/enclaveinit.go`, `docker/run.sh`) | cached key state; the stored secret | startup, store, PublicKey, Sign | enclave, Secrets Manager, supervisor | one key for ever, stored before it is seen; startup recovers from any half-done startup |
| Attestation refresh (`signer.go`, `attestation.go`) | document and its validity | refresh loop | GetPublicKey | never serves an expired document, validity never moves back |
| Byte proxy (`internal/common/byteproxy`) | listeners, in-flight set, semaphore | accept, bridge, Shutdown | TCP, vsock | bounded connections, complete shutdown, no leaked slot |
| AWS proxy (`internal/enclave/provider/awsproxy`) and vsock proxy (`internal/vsockproxy`) | a byte proxy each; an abandoned dial; a read deadline | vsock and TCP dial, read and resolve the route, dial AWS | SDK clients, each other, AWS | bytes reach their own region's endpoint only, nothing that hangs holds a slot |
| gRPC client (`internal/common/grpc/client`) | none | timeouts and attempts per method, from any configuration | host to enclave | Initialize is sent once per attempt, a configured limit is the one that holds |
| Lifecycle manager and servers (`internal/common/lifecycle`, `.../grpc/server`) | runnables, errors, signals | Run, Shutdown | signals, launcher | orderly stop in bounded time |
| Launcher (`docker/run.sh`) | child processes, the enclave's id, the readiness file | start, wait, stop | all processes | proxy before enclave before app, app before proxy before enclave, every stop ends |

Cryptographic primitives, configuration files, TLS, logging, metrics,
telemetry and the smoke tools keep no state of their own that the properties
are about, and are not modelled (see "Not modelled").

### Hard behaviours

Concurrent Initialize calls that share one detached attempt; a cached answer
that is replayed much later; a crash between the enclave holding a key and the
secret being stored; requests given up by their caller that act later; two
deployments of the enclave with different restart behaviour; credentials and
documents that expire; proxies at their connection limit; a dial that hangs or
returns after it was given up; a header that arrives in pieces; shutdown with
work in flight; a signal between any two commands of the launcher; bytes from
outside the enclave that no encoder of ours wrote. `PROJECT.json` lists each hazard at its line.

## Modules

`KeySource` holds what both state machines share: the key sources of a request
(`generate_new`, `existing_key`), the enclave's Ready state and the answer it
gives to a source (`ResponseFor` is `responseForFingerprint`). A private key,
its public key and its envelope are one value, since every key is wrapped once;
a fingerprint is the source it is computed from.

`KeyCell` is the abstract specification: a cell written once, and clients that
are told about its content only.

`InitGate` is one enclave incarnation. Each RPC moves through `load` (the fast
path), `join` (`DoChan`) and `wait` (the select); the singleflight call moves
through `start` (the closure's second look), `running` (`runInit`), `built`
(before `ready.Store`) and `returned` (its result not yet delivered). Every one
of these is a step of its own, so every interleaving of the goroutines is
explored. What a client is told is `answer`.

| Code | Action |
| --- | --- |
| `Service.Initialize` up to the gate | `Initialize`, `RejectInitialize` |
| `ensureInitialized`: fast path, `DoChan`, select | `LoadReady`, `DoChan`, `Receive`, `LeaveOnContext` |
| the closure | `Recheck`, `BuildCandidate`, `RunFail`, `RunTimeout`, `Publish` |
| singleflight `doCall` (external) | `Deliver` |
| `GetPublicKey`, `SignMessage` | `UseKey` |
| the RPC's context | `EndContext` |

`KeyLifecycle` composes incarnations: the host process, an enclave that answers
as `InitGate` does with one step per request, and the stored secret. The host
moves through `get` (read the secret), `call` (Initialize not yet at the gate),
`await` (waiting for an attempt), `putting` (PutSecretValue) and `serving`; every
error on the way ends the process (`app.Run` panics), which is `Exit`. The
deployment is chosen at the start: `colocated`, `run.sh` terminates the enclave when
the host ends; otherwise the enclave outlives its hosts, as README.md:214 describes. Hosts and enclaves
crash at any point, replies are lost, and a request given up by its host may
still start an attempt (`LateRequest`: a handler past gRPC but not yet at
`DoChan` does not look at its context). `calm` marks the moment from which
nothing fails any more; nothing requires it to come.

`ByteProxy` is one proxy process (the same package serves the host's vsock
proxy and the enclave's AWS proxy). Each accept loop moves through `accept`,
`check` (the second look at `shutdownCh`) and `admit` (the semaphore); each
connection through `backlog`, `held`, `dial`, `pipe`, `release` and `close`, the
last two being the deferred calls of its goroutine. `slots` are the tokens in
the semaphores, `tickets` the WaitGroup. `Shutdown` is split at every statement.

| Code | Action |
| --- | --- |
| `New`, `Run` | `Init`, `Run` |
| `acceptLoop` | `Accept`, `AcceptClosed`, `AcceptBreaks`, `CheckShutdown`, `Admit`, `Release`, `Finish` |
| `bridge` | `DialFails`, `DialSucceeds` |
| `pipe` and its copies | `ForwardEnds`, `BackwardEnds`, `PipeSeesShutdown`, `PipeEnds` |
| `Shutdown` | `Signal`, `CloseListeners`, `CancelDials`, `Drained`, `Expire`, `ShutdownAgain` |
| peers | `Connect`, `PeerCloses`, `PeerStalls` |

`AttestationRefresh` is the document of a serving host against a clock. The
background task is `loaded` (the secret is being stored), `off` (no attestation),
in `sleep` or in `call`; `known` is its local copy of the window, `doc` the one
that `PublicKey` checks. The enclave's answers (`Attest`) carry whatever window
the hypervisor's certificates have at that moment (`cert`), so that refreshes may
bring nothing newer. `calm` is the moment since when calls are answered within
`Latency` and certificates renewed `Margin` before they end; it comes and goes.
`RefreshAt` and `RetryDelay` are `attestationRefreshDelay`, with Go's truncating
division and the wrap-around of a Duration.

`EnclaveInit` is the same startup against time. The host moves through
`retrieve` (credentials), `call`, `await` and `backoff` until it is `ready` or
`failed`; `tries`, `timer` and `why` are its loop variable, the deadline it waits
for and its error. The attempt in the enclave names the region it is asking
(`at`), the credentials of the request that started it, whether a region rejected
them (`auth` is `authErr`), and two deadlines: the one of that region's client
and `runCtx`. A retry that finds it running joins it. `sick` are the regions
that are disrupted: they answer late, wrongly or not at all. The moving of a
client to the back of the list (`moveClientToBack`) is not modelled: every
attempt builds its provider and calls it once, so the order is never used again.

| Code | Action |
| --- | --- |
| `initializeEnclave` | `Retrieve`, `RetrieveFails`, `HostGets` (each outcome), `BackoffEnds` |
| client timeout and startup budget | `Call`, `RpcTimesOut`, `RpcLost` |
| `ensureInitialized` as the host sees it | `Joined`, `AttemptEnds`, `RunTimesOut`, `LocalFailure` |
| `provider.call` | `AskRegion`, `Reported` |

`KmsRoute` is what both sides make of a key ARN, each from a configuration of
its own: `Clients` (enclave: address, route, server name) and `Resolve` (host:
route to endpoint), with the checks each makes before it starts. `AwsPath`
composes both proxies, with the dialers and the route reader that `ByteProxy`
leaves abstract: each connection is a record with its client, its two bridges,
its three sockets and the goroutine that is in `vsock.Dial`. A stream is three
units, two of the route header and one of the client's bytes, so that a header
is found in pieces, or with what follows. Each proxy's slots are counted, its
goroutines and its Shutdown are one step each; `ByteProxy` has those.

| Code | Action |
| --- | --- |
| `awsproxyDialContext`, `writeAWSRoute`, SDK (external) | `Dial`, `WriteAWSRoute`, `Send`, `Finish` |
| `Proxy.bridge` and the dialers of awsproxy | `AcceptInner`, `DialReturns`, `TakeDialed`, `AbandonVsockDial`, `Drain`, `TcpDialEnds`, `EndInner` |
| the dialer of vsockproxy: `readRoute`, `resolve` | `AcceptVsock`, `ReadUnit`, `ResolveRoute`, `ReadFails`, `DialUpstream` |
| `pipe` | `ForwardVsock`, `EndVsock` |
| `acceptLoop`, `Shutdown` | `AcceptBreaks`, `Shutdown` |
| AWS, and the reuse of a connection's name | `AwsCloses`, `Forget` |

`Launch` is a Nitro container: `sh.at` is the next command of `docker/run.sh`,
`sh.pids` and `sh.id` what the script has recorded, `sh.waited` the seconds of
`wait_bounded`, `sh.signal` a signal whose trap has not run. The vsock proxy binds,
then renames its readiness file; the host application serves, then arms
`signal.Notify`, then stops gracefully with a `Sign` or a health `Watch` in
flight. A container may be killed and started again, with its files and with
an enclave left behind.

| Code | Action |
| --- | --- |
| `start_vsockproxy` | `ClearSentinel`, `SpawnProxy`, `RecordProxy`, `Poll` |
| `start_enclave`, `start_app` | `RunEnclave`, `EnclaveStarts`, `Describe`, `Sleep`, `SpawnApp`, `RecordApp` |
| `wait`, the traps, `shutdown`, `wait_bounded` | `WaitReturns`, `Trap`, `StopApp`, `AppReaped`, `KillApp`, `StopProxy`, `ProxyReaped`, `Terminate`, `Tick` |
| `cmd/vsockproxy/main.go` | `ProxyBinds`, `SignalReady`, `ProxyEnds` |
| `app.Run`, `Manager.Run`, gRPC server | `AppServes`, `AppArms`, `GracefulStop`, `AppCloses`, `AppCrashes`, `RpcStarts`, `RpcEnds` |
| container runtime, hypervisor | `Signal`, `Kill`, `Restart`, `EnclaveEnds` |

The pure parts of the code are operators, each checked against a reference that
is defined in another way. `Conversions` evaluates them on sets of inputs, and
holds the properties; `MCConversions` holds the bounded sets that TLC takes.

* `BerToDer`: `Convert` is `berToDER` on bytes; the reference is the grammar
  itself (`Primitive`, `Definite`, `Indefinite`), which builds pairs of a BER
  string and its DER.
* `KmsRecipient`: `Decrypt` with `parse`, `validateOAEP` and the constant-time
  `unpadPKCS7`, on records of what `asn1.Unmarshal` finds. The reference is
  `CiphertextForRecipient`, which writes a message in any style the
  standards leave open.
* `KeyEnvelope`: `GenerateEnvelopeCandidate` and `LoadKeyCandidate` with the
  provider's factory, its failover (`Call`) and the outcomes of NSM.
* `ClientConfig`: which timeout and how many attempts a call gets, from the
  method map in any spelling of its keys and from what is not configured.
* `AttestationDocument`: the window of a certificate chain
  (`parseAttestationValidity`).

Definitions headed "Seeded bug" are variants of the definition that follows
them. They are used by nothing: each shows, put in its place, that a property
would catch such a change in the code.

## Runs

| Run | Question | Bounds |
| --- | --- | --- |
| `gate` | Is what every caller is told right, does the gate implement the cell, is every RPC answered? | 2 concurrent RPCs, reused without bound, 3 keys, 2 algorithms |
| `lifecycle_crashes` | One key, stored before seen, never replaced; does every startup recover? | 3 keys, 2 algorithms, both deployments, unlimited crashes |
| `lifecycle_replay` | Does it recover even if a long-lived enclave's document expired? No. | the same |
| `proxy` | Is a slot ever lost, or left behind by Shutdown? Does everything end after Shutdown, and a slot come back when a peer dies? | 2 services, 2 connections, 1 slot per service |
| `refresh_safety` | Does `PublicKey` serve again after any outage, and keep serving? | clock 0..14, delays 2..3, life times 6 and 11, calls up to 2 (1 when well), margin 4 |
| `refresh_late` | Is every document renewed before it expires? No. | the same |
| `init_survives` | Do one disrupted region and two other faults fail a startup? | default timeouts in seconds but a startup budget of 45, 3 regions, 1 sick, 2 faults |
| `init_budget` | Are credentials replaced and the budget kept if everything hangs? | 2 regions, both sick, 2 faults, run timeout 15, RPC timeout 12 |
| `path` | Do bytes reach only the endpoint of their client's region, and does everything that hangs or fails let go of its slots and sockets? | 2 connections, 1 slot per proxy, 2 regions of which the host allows one, vsock, TCP and LocalStack |
| `launch_stop` | No enclave without its proxy, no `Sign` cut off by an orderly stop, every stop ends? | 2 polls, a ceiling of 4 s, a `Sign` of up to 2 s, unlimited restarts |
| `launch_orphan` | Does an orderly end of the launcher always end its enclave? No. | the same |
| `conversions` | Do the pure parts compute what their references say? | see below |

Two RPCs are what a race needs here: while one attempt ends, is published and
its caller comes back with another request, the other RPC can be anywhere
between its first look and its answer. RPC identities are reused without
bound. Two keys of one algorithm let two competing attempts draw different
keys; the third has another algorithm. One key's envelope exists before the
enclave starts. In `KeyLifecycle` a key that nobody holds, stores or saw can be
drawn again, which keeps the number of crashes unlimited with few keys; `Known`
names the holders.

With one slot and two connections a service is at its limit and rejects;
connections are reused without bound, so that the backlog fills while a bridge
is being released. The second service shows that slots are per service and that
Shutdown waits for all loops.

The time units of `AttestationRefresh` are scaled: the floor of 30 s is 2, the
calls of an enclave that is well take half of it, the longer life time spans
several retries. `Margin` is exactly `Floor + 2 * Latency`; with one less
`Available` fails. The clock is bounded, which leaves room for an outage, its
end, and two renewals.

`RegionLimit` is 10 s in `EnclaveInit`: three tries of 3 s with the SDK's backoff.
With the default budget of 30 s `Covered` holds for one sick region and one
fault. One sick region and two faults need 3 * 13 + 2 s, hence the 45 s of
`init_survives`; with 30 s the startup may indeed fail then. `init_budget` shortens the
timeouts so that an attempt outlives its RPC and is joined by a retry with newer
credentials. Three attempts is the code's constant.

In `path` the second connection finds the slot of either proxy taken, or takes it
while the first one's abandoned dial is still under way. More polls or seconds in
`Launch` repeat states; what matters is that `SignLimit` is shorter than the
ceiling by more than the second that `SECONDS` may be off (`LaunchAssumption`). The
defaults are 500 ms and one attempt (`ClientLimits` looks at them) against 35 s.

`conversions` evaluates: every pair of a configuration of the enclave and one of
the host with up to 2 ARNs each, out of 3 regions, malformed ones, another
partition and another service; every byte string of up to 6 bytes over an
alphabet of 6 (tags of both kinds, high tags, short, long and indefinite
lengths) and of up to 8 bytes over one of 4, and objects whose content takes
the one- and two-byte length forms, nested to one level more than the allowed
depth (2 here); contents of up to 4 bytes with blocks of 3 and keys of 4, in every
style, every single deviation, and every string of up to 2 blocks for the
unpadding; envelopes between two enclaves with two KMS keys, in any order,
up or down, replicas or not, and every outcome of NSM; method maps in all
spellings; certificate chains of up to 3. The limit on the size of input
and output of the conversion (`MaxBERSize`) is in the middle of the lengths of
the nested objects. An input within it whose DER content is beyond it takes
more than 65535 bytes (DER is longer than BER only where the three bytes of an
indefinite length, `80` and the end mark, become four), which is out of TLC's reach;
`DerOf` states what happens then all the same.

`refresh_late` is expected to fail: a document received with less than the floor
left, such as the cached answer of a long-lived enclave, is asked for again only
after it expired, which docs/architecture.md:1234 rules out. `WakesInTime`
states what does hold.

`launch_orphan` is expected to fail: a SIGTERM that arrives while `nitro-cli
run-enclave` is at work is handled when that command has returned, before the
script has asked for the enclave's id, and the trap then terminates nothing.
The enclave goes on, under the CID that the next start asks for
(docker/run.sh:6, 54, 86, 160).

`lifecycle_replay` is expected to fail. It shows the gap README.md:214-216 tells
operators to work around: the cached answer of a Ready enclave carries the
document made when the key was installed, `newKeyState` rejects it once expired,
and the host exits, starts and exits again.

### Fairness

`InitGate`: goroutines that can run do (weak fairness of `LoadReady`, `DoChan`,
`Receive`, `Recheck`, `Publish`, `Deliver`), and the attempt's timer fires
(`RunTimeout`, `context.WithTimeout` at initgate.go:80). Nothing is assumed of
KMS, nor of clients. `KeyLifecycle`: the supervisor restarts the host, and a
pending read, RPC, attempt or write ends, well or badly; each has a deadline in
the code or the AWS client. No fairness is assumed of `FaultsEnd`: the liveness
properties are about behaviours in which the faults happen to end. `ByteProxy`:
goroutines run, and a dial ends (the dialers of this repository time out after
10 s at most and honour their context). A copy ends if a connection under it is
closed here, or its source is gone and no peer has stopped reading; peers need
do nothing, and Shutdown need not be called. `AwsPath`: goroutines run, timers
fire, and a client gives up in the end (its HTTP timeout); a vsock dial need not
return, nor AWS answer or close. `Launch`: the shell runs its commands and
nitro-cli returns, time passes while the launcher waits, a `Sign` ends; no
process has to stop when it is asked to, and a health `Watch` need not end.

### Smaller divergences

Met while modelling, and too small for a run:

* internal/enclave/config.go:88 puts an Initialize call at about three times the
  HTTP timeout; each region that hangs takes that long, and the deadline of the
  attempt (30 s) is the bound that holds (`EnclaveInit`).
* docker/run.sh:76-78 lets the proxy "drain" before the enclave goes; its
  Shutdown closes the connections at once (`pipe`, byteproxy.go:378).
* internal/common/lifecycle/lifecycle.go:26 hands every runnable a context with
  the shutdown timeout; the gRPC server's `GracefulStop` does not look at it, so
  that the launcher's ceiling is what bounds a stop (`StopEnds`).

## Proofs

`InitGateProofs`, `KeyLifecycleProofs`, `ByteProxyProofs`,
`AttestationRefreshProofs`, `EnclaveInitProofs`, `AwsPathProofs`, `LaunchProofs`
and `ConversionProofs` are checked by TLAPS, for any sets of callers, keys,
algorithms, services, connections, regions and inputs, and all timeouts, under
these assumptions:
`SourceAssumption` (keys have algorithms, error codes are errors),
`NoneAssumption` and `NoSecretAssumption` (`None` is no key, source, state,
header), `StoredAssumption` and `ConfigsAssumption` (types), `ProxyAssumption`
(finitely many services and connections, at least one slot),
`TimingAssumption` (the floor does not exceed the ceiling, a call of a healthy
enclave takes no longer than the floor, life times are more than five such
calls, and `Margin`), `ParametersAssumption` (one region at least, times are
natural numbers), `RouteAssumption` and `PathAssumption` (sets of regions,
finitely many connections, at least one slot), `LaunchAssumption` (a `Sign` takes less
than the ceiling, by more than a second), `CipherAssumption` (blocks of more than
one byte, keys of at least one), `AbsentAssumption`, `FailedAssumption` and
`ClientAssumption` (what stands for "absent" or "failed" is no value; defaults
are positive), `BerAssumption` (tags may take two bytes or more, lengths within
the limit take at most three), and the types of the inputs in `Conversions` (`RouteInputAssumption`
to `DocumentInputAssumption`).

* Gate: `IInv` strengthens the type invariant with: while an attempt runs or
  holds a candidate, nothing is published (`AttemptInv`, what the second look
  buys); a result that is still to be delivered is an error or the published
  state (`AttemptInv`, `InboxInv`); a published state holds the key its source
  names (`ReadyInv`). From it follow `OneKey`, `NeverReplaced`,
  `AnswersCorrect`, `EnvelopesCorrect`, `RefusalsCorrect`,
  `CancellationsCorrect` and `Implementation` (refinement of `KeyCell`).
* Lifecycle: `LInv` says that whatever an enclave without a key may still do
  (its attempt, its late requests) fits the present secret (`EnclaveInv`), and
  that a host that is storing a key stands beside an enclave that holds that key,
  or one that has neither a key nor any work (`HostInv`). Without the second
  part, the write of the host would race an attempt for another key. From it
  follow `OneKey`, `NoOverwrite` and `Implementation`.
* Byte proxy: `PInv` adds to the counting invariants that a loop and the
  connection it has in hand name each other (`HeldInv`), that nothing waits
  in the backlog of a closed listener (`ConnInv`), and that nothing is accepted
  before `Run` (`OffInv`). The counts move by one element per step
  (`FS_AddElement`, `FS_RemoveElement`). From it follow `NoSlotLost`,
  `AllCounted` and `NothingLeft`.
* Attestation: `DelayBound` says of every delay that it is the floor, or ends
  early enough for a call before the document ends; overflow only brings the
  refresh forward (`WrappedBound`). `AInv` adds that the next answer comes
  in time, or within the first floor and call after all became well
  (`InTimeInv`), and that an answer to a call made since then leaves more than
  `Margin` (`WellInv`). From it follow `NeverOversleeps`, `Monotone`, `InSync`
  and `AlwaysAvailable`: bounded response is a safety property here, so it is
  proved rather than only model-checked.
* Startup: `IInv` orders credentials: nothing the host holds or will use is
  older than its last rejection (`CredsInv`), and the clock does not pass what is
  waited for (`TimeInv`). From it follow `Fresh` and `Punctual`. `Survives` is about
  parameters that satisfy `Covered`, and needs an account of both faults and
  time: `RoundInv` says that every failed attempt is explained by a lost RPC or
  a rejection of credentials older than the newest, and that n failed attempts
  took no more than n times the longest attempt and a backoff; `AttemptInv` that
  what is left of an attempt, `After`, fits its deadline and its RPC's. Then no
  deadline is reached, a healthy region refuses old credentials only, and there
  is an attempt left whenever a fault happens.
* Path: `Staged` says of each connection what its stage entails: the host's
  bridge has no deadline, has read the whole header and nothing else, and has
  a target that its resolver gave, from the moment it dials; nothing is passed
  on before. From it follow `OwnEndpointOnly` and `NeverCutShort`.
* Launcher: `Gated` says that the sentinel, once cleared, can only be this
  proxy's, and that a fresh one, or an enclave, stands for bound listeners.
  `Ordered` says that an application whose PID is known is stopped first, and
  that while the launcher waits for it, a `Sign` that it still answers has run
  for at least as long; since a `Sign` ends before the ceiling, none is left when the
  ceiling is reached. From them follow `GatedStart` and `OrderlyStop`.

* Conversions: `Evaluated` says that whatever has been evaluated is what the code
  makes of one of the inputs, and each property is then a fact about one operator,
  for all inputs. The code's loops are recursive functions (the intersection
  of the windows of a chain, the joining of fragments, the first key or spelling
  that answers). Induction over them is done on sets, without the library's
  operator-parameter theorems: `NaturalInduction` says that a set with 0 and every
  successor holds all numbers, and is applied to the set of numbers up to which a
  function that obeys the recursion exists; then the `CHOOSE` that stands for the
  definition is one. From it follow `RouteAgrees`, `ClientLimits`, `WindowExact`,
  `RecipientExact` (whatever KMS writes, cut into fragments of any sizes, for any
  block and key size, is recovered; every deviation listed in `Deviations` is
  refused; unpadding accepts exactly what padding makes) and `EnvelopeRecovers`
  (what one enclave generates any later one recovers, exactly if a key of its
  list is up and holds the material).
* BER: `BerExact` relates two recursions, the reader's by depth and position and
  the grammar's by length, for strings of any length over any bytes. One half
  (`ObjectReads`, `ContentsRead`) goes by the way objects are made: wherever in a
  message an object of the grammar is, the reader reads it up to its end, as
  the DER of the same value, if its depth and size are within the limits, and
  refuses it otherwise. The other half (`ObjectsAt`) goes by level, and within one by position from the end back: what is read between two positions is an object of the grammar (`ObjectAt`), or a
  run of them up to the parent's end or its end mark (`ContentsAt`). Tags and lengths
  are exact in both directions (`TagReads` and `TagSound`, `LengthReads` and
  `LengthSound`; the shortest form is the only one), and the one string that is
  both an object and the end mark, two zeros, is the mark. That no string is two
  objects is not needed: the DER is the same for each object it has.

Only model-checked: liveness (`EveryCallAnswered`, `Recovers`,
`ShutdownDrains`, `SlotFreed`, `ReleasesAll`, `StopEnds`), which is outside what
TLAPS proves.

## Assumptions

* One host process owns a secret at a time (README.md, "Deployment": 1-to-1
  sidecar), and a write sent by a host that died is applied, or lost, before its
  successor reads; `Update` is unconditional, so the code relies on this.
* Secrets Manager reads return the last write.
* AES-GCM, KMS, SHA-256 and key generation behave ideally: an envelope yields
  its own key or an error, fingerprints and keys do not collide.
* The host's wall clock and its timers advance together (no steps by NTP).
* The hypervisor's renewal margin is not in the repository: `Available` states
  how large it must be.
* In `EnclaveInit` the look into the cache, the fetch of credentials and an RPC on
  its way take no time; the credential source returns the newest credentials, and
  a healthy KMS takes these only. A request whose connection failed reaches the gate
  before the host's next step, or never; `KeyLifecycle` has the later ones.
* A supervisor outside the repository restarts the host container.
* The launcher is process 1 of its container, and `nitro-cli describe-enclaves`
  succeeds after `run-enclave` has.
* The vsock proxy and the AWS proxy run the same version of the route header.

A host that serves never initializes its enclave again. If the enclave crashes
alone, `run.sh` (which waits for the app only) does not restart it and `Sign`
answers `Internal` until the host is restarted. `Recovers` therefore speaks of
hosts that are down or starting.

## What could follow

* An abstract startup (decided once, by one of four reasons) refined by
  `EnclaveInit`, and the enclave of `KeyLifecycle` as a refinement mapping of
  `InitGate`; the two are kept together by sharing `KeySource` and by both
  implementing `KeyCell`.
* The host's vsock dialer to the enclave
  (`internal/app/provider/enclave/transport_vsock.go`): like the AWS proxy's it abandons
  a dial at its deadline, but it closes a connection that arrives late only
  within `cleanupTimeout`, 1 s; a later one is leaked. It matters only when the
  enclave's listener is overloaded.
* `Manager` with several servers that fail at once, and its order of shutdown.

## Not modelled

Key derivation, AES, RSA, BLS and Ed25519 (pure cryptography, tested with vectors;
ideal ciphers stand for them); the decoding of ASN.1, CBOR and X.509 by libraries,
which succeeds or fails; the loading of the TLS roots (`amazonroots.go`, data);
the host's vsock dialer and `moveClientToBack` (see above);
configuration loading, TLS set-up, logging, metrics, telemetry, profiling (no
protocol state); generated protobuf code; smoke tools and scripts for CI; IAM
and Terraform documentation.
