------------------------------- MODULE Launch -------------------------------
(***************************************************************************)
(* The launcher of a Nitro deployment (docker/run.sh) with what it starts: *)
(* the vsock proxy, the enclave and the host application with its gRPC     *)
(* server (lifecycle.Manager, grpc/server/runnable.go); how it stops them, *)
(* and how it starts again beside what a stopped container left behind.    *)
(*                                                                         *)
(* The launcher is process 1 of its container: signals without a trap do   *)
(* nothing, and its end kills whatever still runs, except the enclave.     *)
(* Bash runs a trap when the current command has ended, or at once during  *)
(* `wait`.  Time is counted while the launcher waits for a process to      *)
(* stop.  Exit statuses are left out.                                      *)
(***************************************************************************)
EXTENDS Integers

CONSTANTS MaxPolls,     \* VSOCKPROXY_READY_TIMEOUT_DECISECONDS
          Ceiling,      \* seconds wait_bounded waits for a process
          SignLimit     \* seconds within which a Sign is answered

\* SECONDS counts whole seconds, so that a wait may be one shorter.
ASSUME LaunchAssumption ==
    /\ MaxPolls \in Nat \ {0} /\ Ceiling \in Nat /\ SignLimit \in Nat
    /\ SignLimit < Ceiling - 1

VARIABLES
    sh,         \* the launcher: its next command, the PIDs and the enclave's
                \*   id it knows, its counters, a signal not yet handled
    sentinel,   \* the readiness file, and whether it is this proxy's
    proxy,      \* the vsock proxy, and whether it ever bound its listeners
    app,        \* the host application
    rpc,        \* an RPC in its public server, and how long it has run
    enclave     \* none, this launcher's, or one left by an earlier one

vars == <<sh, sentinel, proxy, app, rpc, enclave>>

Starting == {"clear", "spawnProxy", "recordProxy", "poll", "runEnclave",
             "running", "describe", "sleep", "spawnApp", "recordApp", "wait"}
Stopping == {"stopApp", "waitApp", "stopProxy", "waitProxy", "terminate"}
Ended == {"exited", "killed"}

Shells == [at : Starting \cup Stopping \cup Ended, pids : SUBSET {"proxy", "app"},
           id : BOOLEAN, polls : 0..MaxPolls, waited : 0..Ceiling, signal : BOOLEAN]

TypeOK ==
    /\ sh \in Shells
    /\ sentinel \in {"none", "stale", "fresh"}
    /\ proxy \in [at : {"off", "starting", "listening", "serving", "stopping", "dead"},
                  listened : BOOLEAN]
    /\ app \in {"off", "starting", "serving", "armed", "stopping", "closing", "dead"}
    /\ rpc \in [kind : {"none", "sign", "watch"}, age : 0..SignLimit]
    /\ enclave \in {"none", "old", "up"}

NewLauncher == [at |-> "clear", pids |-> {}, id |-> FALSE, polls |-> 0, waited |-> 0,
                signal |-> FALSE]
NoProxy == [at |-> "off", listened |-> FALSE]
Idle == [kind |-> "none", age |-> 0]

Init ==
    /\ sh = NewLauncher /\ proxy = NoProxy /\ app = "off" /\ rpc = Idle
    /\ sentinel \in {"none", "stale"} /\ enclave \in {"none", "old"}

\* The next command is this one: no signal waits for its trap.
At(command) == sh.at = command /\ ~sh.signal

Goto(command) == sh' = [sh EXCEPT !.at = command]

\* exit, or a failing command under -e: a trap, and shutdown resets the traps.
Exit == sh' = [sh EXCEPT !.at = "stopApp", !.signal = FALSE]
-----------------------------------------------------------------------------
(* Start: start_vsockproxy *)

\* Seeded bug: the sentinel of a previous run is left.
KeepSentinel ==
    /\ At("clear")
    /\ Goto("spawnProxy")
    /\ UNCHANGED <<sentinel, proxy, app, rpc, enclave>>

ClearSentinel ==
    /\ At("clear")
    /\ sentinel' = "none"
    /\ Goto("spawnProxy")
    /\ UNCHANGED <<proxy, app, rpc, enclave>>

SpawnProxy ==
    /\ At("spawnProxy")
    /\ proxy' = [proxy EXCEPT !.at = "starting"]
    /\ Goto("recordProxy")
    /\ UNCHANGED <<sentinel, app, rpc, enclave>>

RecordProxy ==
    /\ At("recordProxy")
    /\ sh' = [sh EXCEPT !.at = "poll", !.pids = @ \cup {"proxy"}]
    /\ UNCHANGED <<sentinel, proxy, app, rpc, enclave>>

\* Seeded bug: one poll more.
PollOneMore ==
    /\ At("poll")
    /\ \/ sentinel # "none" /\ proxy.at # "dead" /\ Goto("runEnclave")
       \/ proxy.at = "dead" /\ Exit
       \/ sentinel = "none" /\ proxy.at # "dead" /\ sh' = [sh EXCEPT !.polls = @ + 1]
    /\ UNCHANGED <<sentinel, proxy, app, rpc, enclave>>

\* One turn of the loop, or its end.
Poll ==
    /\ At("poll")
    /\ \/ sh.polls = MaxPolls /\ Exit
       \/ /\ sh.polls < MaxPolls
          /\ \/ sentinel # "none" /\ proxy.at # "dead" /\ Goto("runEnclave")
             \/ proxy.at = "dead" /\ Exit
             \/ sentinel = "none" /\ proxy.at # "dead" /\ sh' = [sh EXCEPT !.polls = @ + 1]
    /\ UNCHANGED <<sentinel, proxy, app, rpc, enclave>>
-----------------------------------------------------------------------------
(* Start: start_enclave, start_app *)

RunEnclave ==
    /\ At("runEnclave")
    /\ Goto("running")
    /\ UNCHANGED <<sentinel, proxy, app, rpc, enclave>>

\* nitro-cli returns: its CID is free and the enclave runs, or it fails.
EnclaveStarts ==
    /\ sh.at = "running"
    /\ \/ enclave = "none" /\ enclave' = "up" /\ Goto("describe")
       \/ Exit /\ UNCHANGED enclave
    /\ UNCHANGED <<sentinel, proxy, app, rpc>>

Describe ==
    /\ At("describe")
    /\ sh' = [sh EXCEPT !.at = "sleep", !.id = TRUE]
    /\ UNCHANGED <<sentinel, proxy, app, rpc, enclave>>

Sleep ==
    /\ At("sleep")
    /\ Goto("spawnApp")
    /\ UNCHANGED <<sentinel, proxy, app, rpc, enclave>>

SpawnApp ==
    /\ At("spawnApp")
    /\ app' = "starting"
    /\ Goto("recordApp")
    /\ UNCHANGED <<sentinel, proxy, rpc, enclave>>

RecordApp ==
    /\ At("recordApp")
    /\ sh' = [sh EXCEPT !.at = "wait", !.pids = @ \cup {"app"}]
    /\ UNCHANGED <<sentinel, proxy, app, rpc, enclave>>

\* wait returns: only the application is watched.
WaitReturns ==
    /\ At("wait") /\ app = "dead"
    /\ Exit
    /\ UNCHANGED <<sentinel, proxy, app, rpc, enclave>>
-----------------------------------------------------------------------------
(* Stop *)

\* The container runtime stops the container.
Signal ==
    /\ sh.at \in Starting /\ ~sh.signal
    /\ sh' = [sh EXCEPT !.signal = TRUE]
    /\ UNCHANGED <<sentinel, proxy, app, rpc, enclave>>

\* The trap runs between two commands, not during one.
Trap ==
    /\ sh.signal /\ sh.at \in Starting \ {"running"}
    /\ Exit
    /\ UNCHANGED <<sentinel, proxy, app, rpc, enclave>>

\* SIGTERM kills a process that has not asked for it (signal.Notify comes when
\* all runnables run), and is the end of Manager.Run's wait otherwise.
TermApp ==
    CASE app \in {"starting", "serving"} -> app' = "dead" /\ rpc' = Idle
      [] app = "armed" -> app' = "stopping" /\ UNCHANGED rpc
      [] OTHER -> UNCHANGED <<app, rpc>>

StopApp ==
    /\ sh.at = "stopApp"
    /\ \/ /\ "app" \in sh.pids
          /\ TermApp
          /\ sh' = [sh EXCEPT !.at = "waitApp", !.waited = 0]
       \/ "app" \notin sh.pids /\ Goto("stopProxy") /\ UNCHANGED <<app, rpc>>
    /\ UNCHANGED <<sentinel, proxy, enclave>>

AppReaped ==
    /\ sh.at = "waitApp" /\ app = "dead"
    /\ Goto("stopProxy")
    /\ UNCHANGED <<sentinel, proxy, app, rpc, enclave>>

\* Seeded bug: the ceiling is not waited for.
KillAppEarly ==
    /\ sh.at = "waitApp" /\ app # "dead"
    /\ app' = "dead" /\ rpc' = Idle
    /\ Goto("stopProxy")
    /\ UNCHANGED <<sentinel, proxy, enclave>>

\* Seeded bug: no SIGKILL.
KillAppNever == KillAppEarly /\ app = "off"

KillApp ==
    /\ sh.at = "waitApp" /\ app # "dead" /\ sh.waited >= Ceiling - 1
    /\ app' = "dead" /\ rpc' = Idle
    /\ Goto("stopProxy")
    /\ UNCHANGED <<sentinel, proxy, enclave>>

StopProxy ==
    /\ sh.at = "stopProxy"
    /\ \/ /\ "proxy" \in sh.pids
          /\ proxy' = [proxy EXCEPT !.at =
                         CASE @ \in {"starting", "listening"} -> "dead"
                           [] @ = "serving" -> "stopping"
                           [] OTHER -> @]
          /\ sh' = [sh EXCEPT !.at = "waitProxy", !.waited = 0]
       \/ "proxy" \notin sh.pids /\ Goto("terminate") /\ UNCHANGED proxy
    /\ UNCHANGED <<sentinel, app, rpc, enclave>>

\* The proxy is gone, or killed after the ceiling.
ProxyReaped ==
    /\ sh.at = "waitProxy"
    /\ proxy.at = "dead" \/ sh.waited >= Ceiling - 1
    /\ proxy' = [proxy EXCEPT !.at = "dead"]
    /\ Goto("terminate")
    /\ UNCHANGED <<sentinel, app, rpc, enclave>>

\* The last command, and the end of all processes with the first one.
Terminate ==
    /\ sh.at = "terminate"
    /\ enclave' = IF sh.id THEN "none" ELSE enclave
    /\ Goto("exited")
    /\ proxy' = [proxy EXCEPT !.at = "dead"] /\ app' = "dead" /\ rpc' = Idle
    /\ UNCHANGED sentinel

\* A second passes in wait_bounded; no Sign takes longer than it may.
Tick ==
    /\ sh.at \in {"waitApp", "waitProxy"} /\ sh.waited < Ceiling
    /\ rpc.kind = "sign" => rpc.age < SignLimit
    /\ sh' = [sh EXCEPT !.waited = @ + 1]
    /\ rpc' = IF rpc.kind = "sign" THEN [rpc EXCEPT !.age = @ + 1] ELSE rpc
    /\ UNCHANGED <<sentinel, proxy, app, enclave>>
-----------------------------------------------------------------------------
(* The vsock proxy and the application *)

\* New binds every listener.
ProxyBinds ==
    /\ proxy.at = "starting"
    /\ proxy' = [at |-> "listening", listened |-> TRUE]
    /\ UNCHANGED <<sh, sentinel, app, rpc, enclave>>

\* signalReady, by a rename, and Manager.Run.
SignalReady ==
    /\ proxy.at = "listening"
    /\ sentinel' = "fresh"
    /\ proxy' = [proxy EXCEPT !.at = "serving"]
    /\ UNCHANGED <<sh, app, rpc, enclave>>

\* The proxy fails, or has shut down.
ProxyEnds ==
    /\ proxy.at \in {"starting", "listening", "serving", "stopping"}
    /\ proxy' = [proxy EXCEPT !.at = "dead"]
    /\ UNCHANGED <<sh, sentinel, app, rpc, enclave>>

\* app.Run: it initializes the key, which takes an enclave, and Manager.Run
\* starts the servers ...
AppServes ==
    /\ app = "starting" /\ enclave = "up"
    /\ app' = "serving"
    /\ UNCHANGED <<sh, sentinel, proxy, rpc, enclave>>

\* ... before it asks for signals.
AppArms ==
    /\ app = "serving"
    /\ app' = "armed"
    /\ UNCHANGED <<sh, sentinel, proxy, rpc, enclave>>

\* GracefulStop takes no new RPC and waits for those it has, without a bound.
GracefulStop ==
    /\ app = "stopping" /\ rpc.kind = "none"
    /\ app' = "closing"
    /\ UNCHANGED <<sh, sentinel, proxy, rpc, enclave>>

\* The metrics server shuts down within the manager's deadline.
AppCloses ==
    /\ app = "closing"
    /\ app' = "dead"
    /\ UNCHANGED <<sh, sentinel, proxy, rpc, enclave>>

AppCrashes ==
    /\ app \in {"starting", "serving", "armed", "stopping", "closing"}
    /\ app' = "dead" /\ rpc' = Idle
    /\ UNCHANGED <<sh, sentinel, proxy, enclave>>

\* A Sign, or a Watch of the health service, which ends when its client likes.
RpcStarts(kind) ==
    /\ app \in {"serving", "armed"} /\ rpc.kind = "none"
    /\ rpc' = [kind |-> kind, age |-> 0]
    /\ UNCHANGED <<sh, sentinel, proxy, app, enclave>>

RpcEnds ==
    /\ rpc.kind # "none"
    /\ rpc' = Idle
    /\ UNCHANGED <<sh, sentinel, proxy, app, enclave>>
-----------------------------------------------------------------------------
(* The world *)

EnclaveEnds ==
    /\ enclave # "none"
    /\ enclave' = "none"
    /\ UNCHANGED <<sh, sentinel, proxy, app, rpc>>

\* The container is killed (out of memory, or a grace period that is too short).
Kill ==
    /\ sh.at \notin Ended
    /\ Goto("killed")
    /\ proxy' = [proxy EXCEPT !.at = "dead"] /\ app' = "dead" /\ rpc' = Idle
    /\ UNCHANGED <<sentinel, enclave>>

\* It is started again; its files may still be there.
Restart ==
    /\ sh.at \in Ended
    /\ sh' = NewLauncher /\ proxy' = NoProxy /\ app' = "off" /\ rpc' = Idle
    /\ sentinel' \in {"none", IF sentinel = "none" THEN "none" ELSE "stale"}
    /\ enclave' = IF enclave = "none" THEN "none" ELSE "old"
-----------------------------------------------------------------------------
Command ==
    \/ ClearSentinel \/ SpawnProxy \/ RecordProxy \/ Poll
    \/ RunEnclave \/ EnclaveStarts \/ Describe \/ Sleep \/ SpawnApp \/ RecordApp
    \/ WaitReturns \/ Trap
    \/ StopApp \/ AppReaped \/ KillApp \/ StopProxy \/ ProxyReaped \/ Terminate

Next ==
    \/ Command \/ Signal \/ Tick \/ Kill \/ Restart
    \/ ProxyBinds \/ SignalReady \/ ProxyEnds
    \/ AppServes \/ AppArms \/ GracefulStop \/ AppCloses \/ AppCrashes
    \/ RpcStarts("sign") \/ RpcStarts("watch") \/ RpcEnds
    \/ EnclaveEnds

\* The shell runs its commands and nitro-cli returns; time passes; a Sign ends.
Fairness == WF_vars(Command) /\ WF_vars(Tick) /\ WF_vars(rpc.kind = "sign" /\ RpcEnds)

Spec == Init /\ [][Next]_vars
FairSpec == Spec /\ Fairness
-----------------------------------------------------------------------------
(* Properties *)

\* This launcher's enclave runs only after this launcher's proxy has bound its
\* listeners, whatever an earlier container left.
EnclaveBehindProxy == enclave = "up" => proxy.listened

\* The launcher stops the application, the proxy and the enclave in this order, each
\* gone before the next: while a Sign is being answered it takes away neither
\* the application nor the proxy nor the enclave.  (That is, from an application
\* that has armed its signals and whose PID is known.)
SignsAnswered ==
    [][rpc.kind = "sign" /\ app # "serving" /\ "app" \in sh.pids
          /\ sh' # sh /\ sh'.at # "killed" =>
       rpc'.kind = "sign" /\ proxy' = proxy /\ enclave' = enclave]_vars

\* A signal, or the end of the application, ends the launcher, though GracefulStop
\* may wait for ever for a client that watches the health service.
StopEnds ==
    (sh.signal \/ (sh.at = "wait" /\ app = "dead")) ~> (sh.at \in Ended)

\* An orderly end leaves no enclave behind (docker/run.sh:54: "Shutdown the
\* enclave and all background processes.").
StopsEverything == sh.at = "exited" => enclave # "up"
=============================================================================
