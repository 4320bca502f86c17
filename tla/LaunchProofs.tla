---------------------------- MODULE LaunchProofs ----------------------------
(***************************************************************************)
(* Proofs about Launch, for every number of polls and all limits that      *)
(* satisfy LaunchAssumption.                                               *)
(***************************************************************************)
EXTENDS Launch, TLAPS

USE LaunchAssumption DEF Shells, Starting, Stopping, Ended

\* How far the launcher has come tells what it has seen: the sentinel is of this
\* proxy once the old one is removed, and exists only after the listeners.
Gated ==
    /\ sh.at \in Starting \ {"clear"} => sentinel # "stale"
    /\ sentinel = "fresh" \/ proxy.at = "listening" => proxy.listened
    /\ sh.at \in {"runEnclave", "running"} \/ enclave = "up" => proxy.listened

\* An application whose PID is known is stopped first: what the launcher has
\* waited for it, a Sign it still answers has run, too.
Ordered ==
    /\ rpc.kind # "none" => app \in {"serving", "armed", "stopping"}
    /\ "app" \in sh.pids => /\ sh.at \in {"wait"} \cup Stopping \cup Ended
                            /\ sh.at \in {"stopProxy", "waitProxy", "terminate"} => app = "dead"
                            /\ app # "off"
    /\ sh.at \in Starting \ {"recordApp", "wait"} => app = "off"
    /\ sh.at = "recordApp" => app # "off"
    /\ sh.at = "waitApp" => /\ app \in {"stopping", "closing", "dead"}
                            /\ rpc.kind = "sign" => sh.waited <= rpc.age
    /\ sh.at \in Ended => app = "dead"

LEMMA InitHolds == Init => TypeOK /\ Gated /\ Ordered
BY DEF Init, NewLauncher, NoProxy, Idle, TypeOK, Gated, Ordered

LEMMA TypeStep == TypeOK /\ [Next]_vars => TypeOK'
<1> SUFFICES ASSUME TypeOK, [Next]_vars PROVE TypeOK'
  OBVIOUS
<1>1. CASE ClearSentinel
  BY <1>1 DEF ClearSentinel, Goto, At, TypeOK
<1>2. CASE SpawnProxy
  BY <1>2 DEF SpawnProxy, Goto, At, TypeOK
<1>3. CASE RecordProxy
  BY <1>3 DEF RecordProxy, At, TypeOK
<1>4. CASE Poll
  <2>1. sh' \in Shells
    <3>1. CASE sh.polls < MaxPolls /\ sh' = [sh EXCEPT !.polls = sh.polls + 1]
      <4>1. sh.polls + 1 \in 0..MaxPolls
        BY <3>1 DEF TypeOK
      <4>2. sh \in Shells
        BY DEF TypeOK
      <4> QED
        BY <3>1, <4>1, <4>2 DEF Shells
    <3>2. CASE Exit
      BY <3>2 DEF Exit, TypeOK
    <3>3. CASE Goto("runEnclave")
      BY <3>3 DEF Goto, TypeOK
    <3>4. Exit \/ Goto("runEnclave")
          \/ (sh.polls < MaxPolls /\ sh' = [sh EXCEPT !.polls = sh.polls + 1])
      BY <1>4, Zenon DEF Poll
    <3> QED
      BY <3>1, <3>2, <3>3, <3>4
  <2> QED
    BY <1>4, <2>1 DEF Poll, TypeOK
<1>5. CASE RunEnclave
  BY <1>5 DEF RunEnclave, Goto, At, TypeOK
<1>6. CASE EnclaveStarts
  <2>1. CASE enclave = "none" /\ enclave' = "up" /\ Goto("describe")
    BY <1>6, <2>1 DEF EnclaveStarts, Goto, TypeOK
  <2>2. CASE Exit /\ UNCHANGED enclave
    BY <1>6, <2>2 DEF EnclaveStarts, Exit, TypeOK
  <2> QED
    BY <1>6, <2>1, <2>2 DEF EnclaveStarts
<1>7. CASE Describe
  BY <1>7 DEF Describe, At, TypeOK
<1>8. CASE Sleep
  BY <1>8 DEF Sleep, Goto, At, TypeOK
<1>9. CASE SpawnApp
  BY <1>9 DEF SpawnApp, Goto, At, TypeOK
<1>10. CASE RecordApp
  BY <1>10 DEF RecordApp, At, TypeOK
<1>11. CASE WaitReturns
  BY <1>11 DEF WaitReturns, At, Exit, TypeOK
<1>12. CASE Trap
  BY <1>12 DEF Trap, Exit, TypeOK
<1>13. CASE StopApp
  <2>1. sh' \in Shells
    BY <1>13, 0 \in 0..Ceiling DEF StopApp, Goto, TypeOK
  <2>2. /\ app' \in {"off", "starting", "serving", "armed", "stopping", "closing", "dead"}
        /\ rpc' \in [kind : {"none", "sign", "watch"}, age : 0..SignLimit]
    BY <1>13 DEF StopApp, TermApp, Idle, TypeOK
  <2> QED
    BY <1>13, <2>1, <2>2 DEF StopApp, TypeOK
<1>14. CASE AppReaped
  BY <1>14 DEF AppReaped, Goto, TypeOK
<1>15. CASE KillApp
  BY <1>15 DEF KillApp, Goto, Idle, TypeOK
<1>16. CASE StopProxy
  <2>1. sh' \in Shells
    BY <1>16, 0 \in 0..Ceiling DEF StopProxy, Goto, TypeOK
  <2>2. proxy' \in [at : {"off", "starting", "listening", "serving", "stopping", "dead"},
                   listened : BOOLEAN]
    BY <1>16 DEF StopProxy, TypeOK
  <2> QED
    BY <1>16, <2>1, <2>2 DEF StopProxy, TypeOK
<1>17. CASE ProxyReaped
  BY <1>17 DEF ProxyReaped, Goto, TypeOK
<1>18. CASE Terminate
  BY <1>18 DEF Terminate, Goto, Idle, TypeOK
<1>19. CASE Signal
  BY <1>19 DEF Signal, TypeOK
<1>20. CASE Tick
  BY <1>20 DEF Tick, TypeOK
<1>21. CASE Kill
  BY <1>21 DEF Kill, Goto, Idle, TypeOK
<1>22. CASE Restart
  BY <1>22 DEF Restart, Idle, NewLauncher, NoProxy, TypeOK
<1>23. CASE ProxyBinds
  BY <1>23 DEF ProxyBinds, TypeOK
<1>24. CASE SignalReady
  BY <1>24 DEF SignalReady, TypeOK
<1>25. CASE ProxyEnds
  BY <1>25 DEF ProxyEnds, TypeOK
<1>26. CASE AppServes
  BY <1>26 DEF AppServes, TypeOK
<1>27. CASE AppArms
  BY <1>27 DEF AppArms, TypeOK
<1>28. CASE GracefulStop
  BY <1>28 DEF GracefulStop, TypeOK
<1>29. CASE AppCloses
  BY <1>29 DEF AppCloses, TypeOK
<1>30. CASE AppCrashes
  BY <1>30 DEF AppCrashes, Idle, TypeOK
<1>31. CASE RpcStarts("sign")
  BY <1>31 DEF RpcStarts, TypeOK
<1>32. CASE RpcStarts("watch")
  BY <1>32 DEF RpcStarts, TypeOK
<1>33. CASE RpcEnds
  BY <1>33 DEF RpcEnds, Idle, TypeOK
<1>34. CASE EnclaveEnds
  BY <1>34 DEF EnclaveEnds, TypeOK
<1>35. CASE UNCHANGED vars
  BY <1>35 DEF vars, TypeOK
<1> QED
  BY <1>1, <1>2, <1>3, <1>4, <1>5, <1>6, <1>7, <1>8, <1>9, <1>10, <1>11,
     <1>12, <1>13, <1>14, <1>15, <1>16, <1>17, <1>18, <1>19, <1>20, <1>21,
     <1>22, <1>23, <1>24, <1>25, <1>26, <1>27, <1>28, <1>29, <1>30, <1>31,
     <1>32, <1>33, <1>34, <1>35 DEF Next, Command

LEMMA GatedStep == TypeOK /\ Gated /\ [Next]_vars => Gated'
<1> SUFFICES ASSUME TypeOK, Gated, [Next]_vars PROVE Gated'
  OBVIOUS
<1>1. CASE ClearSentinel
  BY <1>1 DEF ClearSentinel, Goto, At, Gated, TypeOK
<1>2. CASE SpawnProxy
  BY <1>2 DEF SpawnProxy, Goto, At, Gated, TypeOK
<1>3. CASE RecordProxy
  BY <1>3 DEF RecordProxy, At, Gated, TypeOK
<1>4. CASE Poll
  BY <1>4 DEF Poll, Goto, At, Exit, Gated, TypeOK
<1>5. CASE RunEnclave
  BY <1>5 DEF RunEnclave, Goto, At, Gated, TypeOK
<1>6. CASE EnclaveStarts
  BY <1>6 DEF EnclaveStarts, Goto, Exit, Gated, TypeOK
<1>7. CASE Describe
  BY <1>7 DEF Describe, At, Gated, TypeOK
<1>8. CASE Sleep
  BY <1>8 DEF Sleep, Goto, At, Gated, TypeOK
<1>9. CASE SpawnApp
  BY <1>9 DEF SpawnApp, Goto, At, Gated, TypeOK
<1>10. CASE RecordApp
  BY <1>10 DEF RecordApp, At, Gated, TypeOK
<1>11. CASE WaitReturns
  BY <1>11 DEF WaitReturns, At, Exit, Gated, TypeOK
<1>12. CASE Trap
  BY <1>12 DEF Trap, Exit, Gated, TypeOK
<1>13. CASE StopApp
  BY <1>13 DEF StopApp, Goto, TermApp, Idle, Gated, TypeOK
<1>14. CASE AppReaped
  BY <1>14 DEF AppReaped, Goto, Gated, TypeOK
<1>15. CASE KillApp
  BY <1>15 DEF KillApp, Goto, Idle, Gated, TypeOK
<1>16. CASE StopProxy
  BY <1>16 DEF StopProxy, Goto, Gated, TypeOK
<1>17. CASE ProxyReaped
  BY <1>17 DEF ProxyReaped, Goto, Gated, TypeOK
<1>18. CASE Terminate
  BY <1>18 DEF Terminate, Goto, Idle, Gated, TypeOK
<1>19. CASE Signal
  BY <1>19 DEF Signal, Gated, TypeOK
<1>20. CASE Tick
  BY <1>20 DEF Tick, Gated, TypeOK
<1>21. CASE Kill
  BY <1>21 DEF Kill, Goto, Idle, Gated, TypeOK
<1>22. CASE Restart
  BY <1>22 DEF Restart, Idle, NewLauncher, NoProxy, Gated, TypeOK
<1>23. CASE ProxyBinds
  BY <1>23 DEF ProxyBinds, Gated, TypeOK
<1>24. CASE SignalReady
  BY <1>24 DEF SignalReady, Gated, TypeOK
<1>25. CASE ProxyEnds
  BY <1>25 DEF ProxyEnds, Gated, TypeOK
<1>26. CASE AppServes
  BY <1>26 DEF AppServes, Gated, TypeOK
<1>27. CASE AppArms
  BY <1>27 DEF AppArms, Gated, TypeOK
<1>28. CASE GracefulStop
  BY <1>28 DEF GracefulStop, Gated, TypeOK
<1>29. CASE AppCloses
  BY <1>29 DEF AppCloses, Gated, TypeOK
<1>30. CASE AppCrashes
  BY <1>30 DEF AppCrashes, Idle, Gated, TypeOK
<1>31. CASE RpcStarts("sign")
  BY <1>31 DEF RpcStarts, Gated, TypeOK
<1>32. CASE RpcStarts("watch")
  BY <1>32 DEF RpcStarts, Gated, TypeOK
<1>33. CASE RpcEnds
  BY <1>33 DEF RpcEnds, Idle, Gated, TypeOK
<1>34. CASE EnclaveEnds
  BY <1>34 DEF EnclaveEnds, Gated, TypeOK
<1>35. CASE UNCHANGED vars
  BY <1>35 DEF vars, Gated, TypeOK
<1> QED
  BY <1>1, <1>2, <1>3, <1>4, <1>5, <1>6, <1>7, <1>8, <1>9, <1>10, <1>11,
     <1>12, <1>13, <1>14, <1>15, <1>16, <1>17, <1>18, <1>19, <1>20, <1>21,
     <1>22, <1>23, <1>24, <1>25, <1>26, <1>27, <1>28, <1>29, <1>30, <1>31,
     <1>32, <1>33, <1>34, <1>35 DEF Next, Command

LEMMA OrderedStep == TypeOK /\ Ordered /\ [Next]_vars => Ordered'
<1> SUFFICES ASSUME TypeOK, Ordered, [Next]_vars PROVE Ordered'
  OBVIOUS
<1>1. CASE ClearSentinel
  BY <1>1 DEF ClearSentinel, Goto, At, Ordered, TypeOK
<1>2. CASE SpawnProxy
  BY <1>2 DEF SpawnProxy, Goto, At, Ordered, TypeOK
<1>3. CASE RecordProxy
  BY <1>3 DEF RecordProxy, At, Ordered, TypeOK
<1>4. CASE Poll
  BY <1>4 DEF Poll, Goto, At, Exit, Ordered, TypeOK
<1>5. CASE RunEnclave
  BY <1>5 DEF RunEnclave, Goto, At, Ordered, TypeOK
<1>6. CASE EnclaveStarts
  BY <1>6 DEF EnclaveStarts, Goto, Exit, Ordered, TypeOK
<1>7. CASE Describe
  BY <1>7 DEF Describe, At, Ordered, TypeOK
<1>8. CASE Sleep
  BY <1>8 DEF Sleep, Goto, At, Ordered, TypeOK
<1>9. CASE SpawnApp
  BY <1>9 DEF SpawnApp, Goto, At, Ordered, TypeOK
<1>10. CASE RecordApp
  BY <1>10 DEF RecordApp, At, Ordered, TypeOK
<1>11. CASE WaitReturns
  BY <1>11 DEF WaitReturns, At, Exit, Ordered, TypeOK
<1>12. CASE Trap
  BY <1>12 DEF Trap, Exit, Ordered, TypeOK
<1>13. CASE StopApp
  <2>1. CASE "app" \notin sh.pids
    BY <1>13, <2>1 DEF StopApp, Goto, Ordered, TypeOK
  <2>2. CASE "app" \in sh.pids
    <3>1. /\ sh'.at = "waitApp" /\ sh'.waited = 0 /\ sh'.pids = sh.pids
          /\ TermApp
      BY <1>13, <2>2 DEF StopApp, TypeOK
    <3>2. /\ app' \in {"stopping", "closing", "dead"}
          /\ rpc'.kind # "none" => app' = "stopping"
          /\ 0 <= rpc'.age
      BY <1>13, <2>2, <3>1 DEF StopApp, TermApp, Idle, Ordered, TypeOK
    <3> QED
      BY <2>2, <3>1, <3>2 DEF Ordered
  <2> QED
    BY <2>1, <2>2
<1>14. CASE AppReaped
  BY <1>14 DEF AppReaped, Goto, Ordered, TypeOK
<1>15. CASE KillApp
  BY <1>15 DEF KillApp, Goto, Idle, Ordered, TypeOK
<1>16. CASE StopProxy
  BY <1>16 DEF StopProxy, Goto, Ordered, TypeOK
<1>17. CASE ProxyReaped
  BY <1>17 DEF ProxyReaped, Goto, Ordered, TypeOK
<1>18. CASE Terminate
  BY <1>18 DEF Terminate, Goto, Idle, Ordered, TypeOK
<1>19. CASE Signal
  BY <1>19 DEF Signal, Ordered, TypeOK
<1>20. CASE Tick
  BY <1>20 DEF Tick, Ordered, TypeOK
<1>21. CASE Kill
  BY <1>21 DEF Kill, Goto, Idle, Ordered, TypeOK
<1>22. CASE Restart
  BY <1>22 DEF Restart, Idle, NewLauncher, NoProxy, Ordered, TypeOK
<1>23. CASE ProxyBinds
  BY <1>23 DEF ProxyBinds, Ordered, TypeOK
<1>24. CASE SignalReady
  BY <1>24 DEF SignalReady, Ordered, TypeOK
<1>25. CASE ProxyEnds
  BY <1>25 DEF ProxyEnds, Ordered, TypeOK
<1>26. CASE AppServes
  BY <1>26 DEF AppServes, Ordered, TypeOK
<1>27. CASE AppArms
  BY <1>27 DEF AppArms, Ordered, TypeOK
<1>28. CASE GracefulStop
  BY <1>28 DEF GracefulStop, Ordered, TypeOK
<1>29. CASE AppCloses
  BY <1>29 DEF AppCloses, Ordered, TypeOK
<1>30. CASE AppCrashes
  BY <1>30 DEF AppCrashes, Idle, Ordered, TypeOK
<1>31. CASE RpcStarts("sign")
  BY <1>31 DEF RpcStarts, Ordered, TypeOK
<1>32. CASE RpcStarts("watch")
  BY <1>32 DEF RpcStarts, Ordered, TypeOK
<1>33. CASE RpcEnds
  BY <1>33 DEF RpcEnds, Idle, Ordered, TypeOK
<1>34. CASE EnclaveEnds
  BY <1>34 DEF EnclaveEnds, Ordered, TypeOK
<1>35. CASE UNCHANGED vars
  BY <1>35 DEF vars, Ordered, TypeOK
<1> QED
  BY <1>1, <1>2, <1>3, <1>4, <1>5, <1>6, <1>7, <1>8, <1>9, <1>10, <1>11,
     <1>12, <1>13, <1>14, <1>15, <1>16, <1>17, <1>18, <1>19, <1>20, <1>21,
     <1>22, <1>23, <1>24, <1>25, <1>26, <1>27, <1>28, <1>29, <1>30, <1>31,
     <1>32, <1>33, <1>34, <1>35 DEF Next, Command

\* No step of the launcher disturbs a Sign.
LEMMA UndisturbedStep ==
    TypeOK /\ Ordered /\ [Next]_vars =>
    [rpc.kind = "sign" /\ app # "serving" /\ "app" \in sh.pids
          /\ sh' # sh /\ sh'.at # "killed" =>
       rpc'.kind = "sign" /\ proxy' = proxy /\ enclave' = enclave]_vars
<1> SUFFICES ASSUME TypeOK, Ordered, Next, rpc.kind = "sign", app # "serving",
                    "app" \in sh.pids, sh' # sh, sh'.at # "killed"
             PROVE  rpc'.kind = "sign" /\ proxy' = proxy /\ enclave' = enclave
  OBVIOUS
<1>1. CASE ClearSentinel
  BY <1>1 DEF ClearSentinel, Goto, At, Ordered, TypeOK
<1>2. CASE SpawnProxy
  BY <1>2 DEF SpawnProxy, Goto, At, Ordered, TypeOK
<1>3. CASE RecordProxy
  BY <1>3 DEF RecordProxy, At, Ordered, TypeOK
<1>4. CASE Poll
  BY <1>4 DEF Poll, Goto, At, Exit, Ordered, TypeOK
<1>5. CASE RunEnclave
  BY <1>5 DEF RunEnclave, Goto, At, Ordered, TypeOK
<1>6. CASE EnclaveStarts
  BY <1>6 DEF EnclaveStarts, Goto, Exit, Ordered, TypeOK
<1>7. CASE Describe
  BY <1>7 DEF Describe, At, Ordered, TypeOK
<1>8. CASE Sleep
  BY <1>8 DEF Sleep, Goto, At, Ordered, TypeOK
<1>9. CASE SpawnApp
  BY <1>9 DEF SpawnApp, Goto, At, Ordered, TypeOK
<1>10. CASE RecordApp
  BY <1>10 DEF RecordApp, At, Ordered, TypeOK
<1>11. CASE WaitReturns
  BY <1>11 DEF WaitReturns, At, Exit, Ordered, TypeOK
<1>12. CASE Trap
  BY <1>12 DEF Trap, Exit, Ordered, TypeOK
<1>13. CASE StopApp
  BY <1>13 DEF StopApp, Goto, TermApp, Idle, Ordered, TypeOK
<1>14. CASE AppReaped
  BY <1>14 DEF AppReaped, Goto, Ordered, TypeOK
<1>15. CASE KillApp
  BY <1>15 DEF KillApp, Goto, Idle, Ordered, TypeOK
<1>16. CASE StopProxy
  BY <1>16 DEF StopProxy, Goto, Ordered, TypeOK
<1>17. CASE ProxyReaped
  BY <1>17 DEF ProxyReaped, Goto, Ordered, TypeOK
<1>18. CASE Terminate
  BY <1>18 DEF Terminate, Goto, Idle, Ordered, TypeOK
<1>19. CASE Signal
  BY <1>19 DEF Signal, Ordered, TypeOK
<1>20. CASE Tick
  BY <1>20 DEF Tick, Ordered, TypeOK
<1>21. CASE Kill
  BY <1>21 DEF Kill, Goto, Idle, Ordered, TypeOK
<1>22. CASE Restart
  BY <1>22 DEF Restart, Idle, NewLauncher, NoProxy, Ordered, TypeOK
<1>23. CASE ProxyBinds
  BY <1>23 DEF ProxyBinds, Ordered, TypeOK
<1>24. CASE SignalReady
  BY <1>24 DEF SignalReady, Ordered, TypeOK
<1>25. CASE ProxyEnds
  BY <1>25 DEF ProxyEnds, Ordered, TypeOK
<1>26. CASE AppServes
  BY <1>26 DEF AppServes, Ordered, TypeOK
<1>27. CASE AppArms
  BY <1>27 DEF AppArms, Ordered, TypeOK
<1>28. CASE GracefulStop
  BY <1>28 DEF GracefulStop, Ordered, TypeOK
<1>29. CASE AppCloses
  BY <1>29 DEF AppCloses, Ordered, TypeOK
<1>30. CASE AppCrashes
  BY <1>30 DEF AppCrashes, Idle, Ordered, TypeOK
<1>31. CASE RpcStarts("sign")
  BY <1>31 DEF RpcStarts, Ordered, TypeOK
<1>32. CASE RpcStarts("watch")
  BY <1>32 DEF RpcStarts, Ordered, TypeOK
<1>33. CASE RpcEnds
  BY <1>33 DEF RpcEnds, Idle, Ordered, TypeOK
<1>34. CASE EnclaveEnds
  BY <1>34 DEF EnclaveEnds, Ordered, TypeOK
<1>35. CASE UNCHANGED vars
  BY <1>35 DEF vars, Ordered, TypeOK
<1> QED
  BY <1>1, <1>2, <1>3, <1>4, <1>5, <1>6, <1>7, <1>8, <1>9, <1>10, <1>11,
     <1>12, <1>13, <1>14, <1>15, <1>16, <1>17, <1>18, <1>19, <1>20, <1>21,
     <1>22, <1>23, <1>24, <1>25, <1>26, <1>27, <1>28, <1>29, <1>30, <1>31,
     <1>32, <1>33, <1>34, <1>35 DEF Next, Command

-----------------------------------------------------------------------------
LEMMA Invariants == Spec => [](TypeOK /\ Gated /\ Ordered)
<1>1. Init => TypeOK /\ Gated /\ Ordered
  BY InitHolds
<1>2. TypeOK /\ Gated /\ Ordered /\ [Next]_vars => (TypeOK /\ Gated /\ Ordered)'
  BY TypeStep, GatedStep, OrderedStep
<1> QED
  BY <1>1, <1>2, PTL DEF Spec

\* The type invariant: the launcher polls no longer than it may, and no Sign
\* takes longer than its limit.
THEOREM TypeCorrect == Spec => []TypeOK
BY Invariants, PTL

\* The enclave of a launcher runs only behind its bound proxy, whatever sentinel
\* or enclave an earlier container left (start_vsockproxy, signalReady).
THEOREM GatedStart == Spec => []EnclaveBehindProxy
<1>1. Gated => EnclaveBehindProxy
  BY DEF Gated, EnclaveBehindProxy
<1> QED
  BY <1>1, Invariants, PTL

\* An orderly stop lets a Sign finish, as long as it may take less than the ceiling
\* of wait_bounded (shutdown, GracefulStop).
THEOREM OrderlyStop == Spec => SignsAnswered
<1>1. TypeOK /\ Gated /\ Ordered /\ [Next]_vars =>
      [rpc.kind = "sign" /\ app # "serving" /\ "app" \in sh.pids
          /\ sh' # sh /\ sh'.at # "killed" =>
       rpc'.kind = "sign" /\ proxy' = proxy /\ enclave' = enclave]_vars
  BY UndisturbedStep
<1> QED
  BY <1>1, Invariants, PTL DEF Spec, SignsAnswered
=============================================================================
