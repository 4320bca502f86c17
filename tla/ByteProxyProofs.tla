-------------------------- MODULE ByteProxyProofs --------------------------
(***************************************************************************)
(* Safety of the byte proxy, for any number of services and connections    *)
(* and any limit.                                                          *)
(***************************************************************************)
EXTENDS ByteProxy, FiniteSetTheorems, TLAPS

\* The goroutines that hold a ticket of the WaitGroup.
Running == {s \in Services : Alive(s)}
Bridged == {c \in Conns : conn[c].at \in {"dial", "pipe", "release", "close"}}

\* A loop has a connection in hand between Accept and admission only, and it
\* is one of its own service.
HeldInv ==
    \A s \in Services :
        /\ held[s] # None <=> loop[s] \in {"check", "admit"}
        /\ held[s] # None => conn[held[s]].at = "held" /\ conn[held[s]].svc = s

\* What is left of a connection at each stage.
ConnInv ==
    \A c \in Conns :
        /\ conn[c].at = "free" => conn[c] = Free
        /\ conn[c].at # "free" => conn[c].svc \in Services
        /\ conn[c].at = "held" => held[conn[c].svc] = c
        /\ conn[c].at = "backlog" => ~Unbound
        /\ "copying" \in {conn[c].fwd, conn[c].back} => conn[c].at = "pipe"

\* Loops start together, and nothing is accepted before.
OffInv ==
    /\ (\A s \in Services : loop[s] = "off") =>
            \A c \in Conns : conn[c].at \in {"free", "backlog"}
    /\ (\E s \in Services : loop[s] = "off") => \A s \in Services : loop[s] = "off"

PInv == TypeOK /\ HeldInv /\ ConnInv /\ OffInv
        /\ SlotsCounted /\ TicketsCounted /\ ShutdownComplete
-----------------------------------------------------------------------------
(* Counting *)

LEMMA Finite ==
    ASSUME NEW R \in SUBSET Services, NEW B \in SUBSET Conns
    PROVE  /\ IsFiniteSet(R) /\ IsFiniteSet(B)
           /\ Cardinality(R) \in Nat /\ Cardinality(B) \in Nat
           /\ Cardinality(R) + Cardinality(B)
                 \in 0..(Cardinality(Services) + Cardinality(Conns))
<1>1. /\ IsFiniteSet(R) /\ Cardinality(R) <= Cardinality(Services)
      /\ IsFiniteSet(B) /\ Cardinality(B) <= Cardinality(Conns)
  BY FS_Subset, ProxyAssumption
<1>2. /\ Cardinality(R) \in Nat /\ Cardinality(B) \in Nat
      /\ Cardinality(Services) \in Nat /\ Cardinality(Conns) \in Nat
  BY <1>1, FS_CardinalityType, ProxyAssumption
<1> QED
  BY <1>1, <1>2

\* After a step the counters are within the bounds of TypeOK if they count
\* what they should.
LEMMA CountsInRange ==
    ASSUME SlotsCounted', TicketsCounted', slots' \in [Services -> Int]
    PROVE  /\ slots' \in [Services -> 0..MaxConns]
           /\ tickets' \in 0..(Cardinality(Services) + Cardinality(Conns))
<1>1. tickets' = Cardinality(Running') + Cardinality(Bridged')
  BY DEF TicketsCounted, Running, Bridged
<1>2. Running' \in SUBSET Services /\ Bridged' \in SUBSET Conns
  BY DEF Running, Bridged
<1>3. tickets' \in 0..(Cardinality(Services) + Cardinality(Conns))
  BY <1>1, <1>2, Finite
<1>4. ASSUME NEW s \in Services PROVE slots'[s] \in 0..MaxConns
  <2>1. Bridges(s)' \in SUBSET Conns
    BY DEF Bridges
  <2>2. Cardinality(Bridges(s)') \in Nat
    BY <2>1, Finite
  <2>3. slots'[s] = Cardinality(Bridges(s)') /\ slots'[s] <= MaxConns
    BY DEF SlotsCounted
  <2> QED
    BY <2>2, <2>3, ProxyAssumption
<1> QED
  BY <1>3, <1>4

\* A step that changes no count and no count's set.
LEMMA CountsKept ==
    ASSUME SlotsCounted, TicketsCounted, UNCHANGED <<slots, tickets>>,
           \A s \in Services : Bridges(s)' = Bridges(s),
           Running' = Running, Bridged' = Bridged
    PROVE  SlotsCounted' /\ TicketsCounted'
BY DEF SlotsCounted, TicketsCounted, Running, Bridged

\* Inside the bridge goroutine, until it gives its slot back, nothing that is
\* counted changes.
LEMMA InnerStep ==
    ASSUME PInv, NEW c \in Conns, NEW state \in ConnStates, Step(c, state),
           conn[c].at \in {"dial", "pipe", "release"},
           state.at \in {"dial", "pipe", "release"},
           state.svc = conn[c].svc,
           "copying" \in {state.fwd, state.back} => state.at = "pipe"
    PROVE  PInv'
<1> USE DEF PInv
<1>1. /\ conn' = [conn EXCEPT ![c] = state]
      /\ UNCHANGED <<shutdown, loop, held, slots, tickets>>
      /\ conn \in [Conns -> ConnStates]
  BY DEF Step, TypeOK
<1>2. conn' \in [Conns -> ConnStates]
  BY <1>1
<1>3. \A s \in Services : Bridges(s)' = Bridges(s)
  BY <1>1 DEF Bridges
<1>4. Running' = Running /\ Bridged' = Bridged
  BY <1>1 DEF Running, Alive, Bridged
<1>5. SlotsCounted' /\ TicketsCounted'
  BY <1>1, <1>3, <1>4, CountsKept
<1>6. HeldInv'
  BY <1>1, ProxyAssumption DEF HeldInv, TypeOK
<1>7. ConnInv'
  BY <1>1 DEF ConnInv, Unbound
<1>8. OffInv'
  BY <1>1 DEF OffInv
<1>9. shutdown # "done"
  BY DEF ShutdownComplete, Free
<1> QED
  BY <1>1, <1>2, <1>5, <1>6, <1>7, <1>8, <1>9 DEF TypeOK, ShutdownComplete

LEMMA InitInv == Init => PInv
<1> SUFFICES ASSUME Init PROVE PInv
  OBVIOUS
<1> USE DEF Init
<1>1. Free \in ConnStates
  BY DEF Free, ConnStates
<1>2. Running = {} /\ Bridged = {} /\ \A s \in Services : Bridges(s) = {}
  BY DEF Running, Alive, Bridged, Bridges, Free
<1>3. SlotsCounted /\ TicketsCounted
  BY <1>2, FS_EmptySet, ProxyAssumption DEF SlotsCounted, TicketsCounted, Running, Bridged
<1>4. 0 \in 0..(Cardinality(Services) + Cardinality(Conns))
  BY FS_EmptySet, Finite, ProxyAssumption
<1>5. TypeOK
  BY <1>1, <1>4, ProxyAssumption DEF TypeOK
<1> QED
  BY <1>3, <1>5 DEF PInv, HeldInv, ConnInv, OffInv, ShutdownComplete, Free, Unbound

\* The inner steps of a bridge, one by one.
LEMMA BridgeInner ==
    ASSUME PInv, NEW c \in Conns,
           \/ DialFails(c) \/ DialSucceeds(c) \/ ForwardEnds(c) \/ BackwardEnds(c)
           \/ PipeSeesShutdown(c) \/ PipeEnds(c) \/ PeerStalls(c)
           \/ \E peer \in {"inbound", "upstream"} : PeerCloses(c, peer)
    PROVE  PInv'
<1> DEFINE st == conn[c]
<1>1. st \in ConnStates /\ ("copying" \in {st.fwd, st.back} => st.at = "pipe")
  BY DEF PInv, TypeOK, ConnInv
<1>2. CASE DialFails(c)
  BY <1>1, <1>2, InnerStep DEF DialFails, ConnStates
<1>3. CASE DialSucceeds(c)
  BY <1>1, <1>3, InnerStep DEF DialSucceeds, ConnStates
<1>4. CASE ForwardEnds(c)
  BY <1>1, <1>4, InnerStep DEF ForwardEnds, ConnStates
<1>5. CASE BackwardEnds(c)
  BY <1>1, <1>5, InnerStep DEF BackwardEnds, ConnStates
<1>6. CASE PipeSeesShutdown(c)
  BY <1>1, <1>6, InnerStep DEF PipeSeesShutdown, ConnStates
<1>7. CASE PipeEnds(c)
  BY <1>1, <1>7, InnerStep DEF PipeEnds, ConnStates
<1>8. CASE PeerStalls(c)
  BY <1>1, <1>8, InnerStep DEF PeerStalls, ConnStates
<1>9. ASSUME NEW peer \in {"inbound", "upstream"}, PeerCloses(c, peer) PROVE PInv'
  BY <1>1, <1>9, InnerStep DEF PeerCloses, ConnStates
<1> QED
  BY <1>2, <1>3, <1>4, <1>5, <1>6, <1>7, <1>8, <1>9

\* The slot goes back, then the ticket.
LEMMA ReleaseStep == ASSUME PInv, NEW c \in Conns, Release(c) PROVE PInv'
<1> USE DEF PInv, Release
<1> DEFINE t == conn[c].svc
<1>1. t \in Services /\ conn' \in [Conns -> ConnStates]
  BY DEF ConnInv, TypeOK, ConnStates
<1>2. Running' = Running /\ Bridged' = Bridged
  BY DEF Running, Alive, Bridged, TypeOK
<1>3. \A s \in Services : Bridges(s)' = Bridges(s) \ (IF s = t THEN {c} ELSE {})
  BY DEF Bridges, TypeOK, ConnStates
<1>4. c \in Bridges(t) /\ IsFiniteSet(Bridges(t))
  BY Finite DEF Bridges
<1>5. Cardinality(Bridges(t)') = Cardinality(Bridges(t)) - 1
  BY <1>1, <1>3, <1>4, FS_RemoveElement
<1>6. SlotsCounted' /\ slots' \in [Services -> Int]
  <2>1. slots' \in [Services -> Int]
    BY <1>1 DEF TypeOK
  <2>2. ASSUME NEW s \in Services, s # t
        PROVE  slots'[s] = Cardinality(Bridges(s)') /\ slots'[s] <= MaxConns
    BY <2>2, <1>3 DEF SlotsCounted, TypeOK
  <2>3. slots'[t] = Cardinality(Bridges(t)') /\ slots'[t] <= MaxConns
    BY <1>1, <1>5, ProxyAssumption DEF SlotsCounted, TypeOK
  <2> QED
    BY <2>1, <2>2, <2>3 DEF SlotsCounted
<1>7. TicketsCounted'
  BY <1>2 DEF TicketsCounted, Running, Bridged
<1>8. HeldInv' /\ ConnInv' /\ OffInv'
  BY ProxyAssumption DEF HeldInv, ConnInv, OffInv, TypeOK, Unbound
<1>9. ShutdownComplete'
  BY DEF ShutdownComplete, Free
<1> QED
  BY <1>1, <1>6, <1>7, <1>8, <1>9, CountsInRange DEF TypeOK

LEMMA FinishStep == ASSUME PInv, NEW c \in Conns, Finish(c) PROVE PInv'
<1> USE DEF PInv, Finish
<1>1. conn' \in [Conns -> ConnStates]
  BY DEF TypeOK, ConnStates, Free
<1>2. \A s \in Services : Bridges(s)' = Bridges(s)
  BY DEF Bridges, TypeOK, Free
<1>3. Running' = Running /\ Bridged' = Bridged \ {c} /\ c \in Bridged
  BY DEF Running, Alive, Bridged, TypeOK, Free
<1>4. Cardinality(Bridged') = Cardinality(Bridged) - 1
      /\ Cardinality(Running) \in Nat /\ Cardinality(Bridged) \in Nat
  <2>1. Bridged \in SUBSET Conns /\ Running \in SUBSET Services
    BY DEF Bridged, Running
  <2> QED
    BY <2>1, <1>3, Finite, FS_RemoveElement
<1>5. SlotsCounted' /\ slots' \in [Services -> Int]
  BY <1>2 DEF SlotsCounted, TypeOK
<1>6. TicketsCounted'
  <2>1. tickets = Cardinality(Running) + Cardinality(Bridged)
    BY DEF TicketsCounted, Running, Bridged
  <2>2. tickets' = Cardinality(Running') + Cardinality(Bridged')
    BY <2>1, <1>3, <1>4
  <2> QED
    BY <2>2 DEF TicketsCounted, Running, Bridged
<1>7. HeldInv' /\ ConnInv' /\ OffInv'
  BY ProxyAssumption DEF HeldInv, ConnInv, OffInv, TypeOK, Unbound, Free
<1>8. ShutdownComplete'
  BY DEF ShutdownComplete, Free
<1> QED
  BY <1>1, <1>5, <1>6, <1>7, <1>8, CountsInRange DEF TypeOK
-----------------------------------------------------------------------------
(* Accept loops and Shutdown *)

\* Admission takes a slot and a ticket, or rejects the connection in hand.
LEMMA AdmitStep == ASSUME PInv, NEW s \in Services, Admit(s) PROVE PInv'
<1> USE DEF PInv
<1> DEFINE c == held[s]
<1>1. /\ c \in Conns /\ conn[c].at = "held" /\ conn[c].svc = s
      /\ loop[s] = "admit" /\ loop' = [loop EXCEPT ![s] = "accept"]
      /\ held' = [held EXCEPT ![s] = None] /\ shutdown' = shutdown
  BY DEF Admit, Reject, HeldInv, TypeOK
<1>2. Running' = Running
  BY <1>1 DEF Running, Alive, TypeOK
<1>3. Running \in SUBSET Services /\ Bridged \in SUBSET Conns /\ Bridges(s) \in SUBSET Conns
  BY DEF Running, Bridged, Bridges
<1>4. shutdown # "done"
  BY <1>1 DEF ShutdownComplete, Alive
<1>5. CASE /\ slots[s] < MaxConns /\ slots' = [slots EXCEPT ![s] = @ + 1]
           /\ tickets' = tickets + 1
           /\ conn' = [conn EXCEPT ![c].at = "dial"]
  <2>1. conn' \in [Conns -> ConnStates]
    BY <1>1, <1>5 DEF TypeOK, ConnStates
  <2>2. Bridged' = Bridged \cup {c} /\ c \notin Bridged
    BY <1>1, <1>5 DEF Bridged, TypeOK, ConnStates
  <2>3. Bridges(s)' = Bridges(s) \cup {c} /\ c \notin Bridges(s)
    BY <1>1, <1>5 DEF Bridges, TypeOK, ConnStates
  <2>4. \A t \in Services \ {s} : Bridges(t)' = Bridges(t)
    BY <1>1, <1>5 DEF Bridges, TypeOK, ConnStates
  <2>5. /\ Cardinality(Bridged') = Cardinality(Bridged) + 1
        /\ Cardinality(Bridges(s)') = Cardinality(Bridges(s)) + 1
        /\ Cardinality(Running) \in Nat /\ Cardinality(Bridged) \in Nat
    BY <1>3, <2>2, <2>3, Finite, FS_AddElement
  <2>6. SlotsCounted' /\ slots' \in [Services -> Int]
    <3>1. slots' \in [Services -> Int]
      BY <1>5 DEF TypeOK
    <3>2. ASSUME NEW t \in Services, t # s
          PROVE  slots'[t] = Cardinality(Bridges(t)') /\ slots'[t] <= MaxConns
      BY <3>2, <1>5, <2>4 DEF SlotsCounted, TypeOK
    <3>3. slots'[s] = Cardinality(Bridges(s)') /\ slots'[s] <= MaxConns
      BY <1>5, <2>5, ProxyAssumption DEF SlotsCounted, TypeOK
    <3> QED
      BY <3>1, <3>2, <3>3 DEF SlotsCounted
  <2>7. TicketsCounted'
    <3>1. tickets = Cardinality(Running) + Cardinality(Bridged)
      BY DEF TicketsCounted, Running, Bridged
    <3>2. tickets' = Cardinality(Running') + Cardinality(Bridged')
      BY <3>1, <1>2, <1>5, <2>5
    <3> QED
      BY <3>2 DEF TicketsCounted, Running, Bridged
  <2>8. HeldInv'
    BY <1>1, <1>5, ProxyAssumption DEF HeldInv, TypeOK, ConnStates
  <2>9. ConnInv'
    BY <1>1, <1>5 DEF ConnInv, TypeOK, ConnStates, Unbound
  <2> QED
    BY <1>1, <1>4, <2>1, <2>6, <2>7, <2>8, <2>9, CountsInRange
       DEF TypeOK, OffInv, ShutdownComplete
<1>6. CASE UNCHANGED <<slots, tickets>> /\ conn' = [conn EXCEPT ![c] = Free]
  <2>1. conn' \in [Conns -> ConnStates]
    BY <1>6 DEF TypeOK, ConnStates, Free
  <2>2. Bridged' = Bridged /\ \A t \in Services : Bridges(t)' = Bridges(t)
    BY <1>1, <1>6 DEF Bridged, Bridges, TypeOK, Free
  <2>3. SlotsCounted' /\ TicketsCounted'
    BY <1>2, <1>6, <2>2, CountsKept
  <2>4. HeldInv'
    BY <1>1, <1>6, ProxyAssumption DEF HeldInv, TypeOK
  <2>5. ConnInv'
    BY <1>1, <1>6 DEF ConnInv, TypeOK, Unbound, Free
  <2> QED
    BY <1>1, <1>4, <1>6, <2>1, <2>3, <2>4, <2>5 DEF TypeOK, OffInv, ShutdownComplete
<1> QED
  BY <1>5, <1>6 DEF Admit, Reject

\* A loop that ends gives its ticket back, closing what it has in hand.
LEMMA ExitStep ==
    ASSUME PInv, NEW s \in Services, loop[s] \in {"accept", "check"}, Exit(s),
           UNCHANGED <<shutdown, slots>>,
           \/ loop[s] = "accept" /\ UNCHANGED <<held, conn>>
           \/ loop[s] = "check" /\ Reject(s)
    PROVE  PInv'
<1> USE DEF PInv
<1>1. /\ loop' = [loop EXCEPT ![s] = "exited"] /\ tickets' = tickets - 1
      /\ held' = [held EXCEPT ![s] = None]
  BY DEF Exit, Reject, HeldInv, TypeOK
<1>2. \/ loop[s] = "accept" /\ conn' = conn /\ held[s] = None
      \/ /\ loop[s] = "check" /\ held[s] \in Conns
         /\ conn[held[s]].at = "held" /\ conn[held[s]].svc = s
         /\ conn' = [conn EXCEPT ![held[s]] = Free]
  BY DEF Reject, HeldInv, TypeOK
<1>3. conn' \in [Conns -> ConnStates]
  <2>1. Free \in ConnStates
    BY DEF Free, ConnStates
  <2> QED
    BY <1>2, <2>1 DEF TypeOK
<1>4. Bridged' = Bridged /\ \A t \in Services : Bridges(t)' = Bridges(t)
  BY <1>2 DEF Bridged, Bridges, TypeOK, Free
<1>5. Running' = Running \ {s} /\ s \in Running
  BY <1>1 DEF Running, Alive, TypeOK
<1>6. /\ Cardinality(Running') = Cardinality(Running) - 1
      /\ Cardinality(Running) \in Nat /\ Cardinality(Bridged) \in Nat
  <2>1. Bridged \in SUBSET Conns /\ Running \in SUBSET Services
    BY DEF Bridged, Running
  <2> QED
    BY <2>1, <1>5, Finite, FS_RemoveElement
<1>7. SlotsCounted' /\ slots' \in [Services -> Int]
  BY <1>4 DEF SlotsCounted, TypeOK
<1>8. TicketsCounted'
  <2>1. tickets = Cardinality(Running) + Cardinality(Bridged)
    BY DEF TicketsCounted, Running, Bridged
  <2>2. tickets' = Cardinality(Running') + Cardinality(Bridged')
    BY <2>1, <1>1, <1>4, <1>6
  <2> QED
    BY <2>2 DEF TicketsCounted, Running, Bridged
<1>9. HeldInv'
  BY <1>1, <1>2, ProxyAssumption DEF HeldInv, TypeOK
<1>10. ConnInv'
  <2>1. CASE conn' = conn /\ held[s] = None
    BY <1>1, <2>1, ProxyAssumption DEF ConnInv, TypeOK, Unbound
  <2>2. CASE held[s] \in Conns /\ conn' = [conn EXCEPT ![held[s]] = Free]
             /\ conn[held[s]].svc = s
    BY <1>1, <2>2 DEF ConnInv, TypeOK, Unbound, Free
  <2> QED
    BY <1>2, <2>1, <2>2
<1>11. shutdown # "done"
  BY <1>5 DEF ShutdownComplete, Running
<1>12. OffInv'
  BY <1>1, <1>2 DEF OffInv, TypeOK, Free
<1> QED
  BY <1>1, <1>3, <1>7, <1>8, <1>9, <1>10, <1>11, <1>12, CountsInRange
     DEF TypeOK, ShutdownComplete

\* All loops start.
LEMMA RunStep == ASSUME PInv, Run PROVE PInv'
<1> USE DEF PInv, Run
<1>1. Running' = Services
  BY DEF Running, Alive
<1>2. \A c \in Conns : conn[c].at \in {"free", "backlog"}
  BY DEF OffInv
<1>3. Bridged' = {} /\ \A s \in Services : Bridges(s)' = Bridges(s)
  BY <1>2 DEF Bridged, Bridges
<1>4. tickets' = Cardinality(Running') + Cardinality(Bridged')
  BY <1>1, <1>3, FS_EmptySet, Finite
<1>5. SlotsCounted' /\ TicketsCounted'
  BY <1>3, <1>4 DEF SlotsCounted, TicketsCounted, Running, Bridged
<1>6. HeldInv' /\ ConnInv' /\ OffInv'
  BY <1>2 DEF HeldInv, ConnInv, OffInv, Unbound
<1> QED
  BY <1>5, <1>6, CountsInRange DEF TypeOK, ShutdownComplete, Signalled

\* A connection enters the backlog, or is taken from it.
LEMMA ConnectStep ==
    ASSUME PInv, NEW c \in Conns, NEW s \in Services, Connect(c, s)
    PROVE  PInv'
<1> USE DEF Connect
<1>1. TypeOK /\ HeldInv /\ ConnInv /\ OffInv
  BY DEF PInv
<1>2. /\ conn \in [Conns -> ConnStates] /\ conn[c].at = "free" /\ ~Unbound
      /\ conn' = [conn EXCEPT ![c] = [Free EXCEPT !.at = "backlog", !.svc = s, !.inb = "open"]]
      /\ UNCHANGED <<shutdown, loop, held, slots, tickets>>
  BY <1>1 DEF TypeOK
<1>3. [Free EXCEPT !.at = "backlog", !.svc = s, !.inb = "open"] \in ConnStates
  BY DEF ConnStates, Free
<1>4. conn' \in [Conns -> ConnStates]
  BY ONLY <1>2, <1>3
<1>5. conn'[c].at = "backlog" /\ conn'[c].svc = s /\ {conn'[c].fwd, conn'[c].back} = {"off"}
  BY <1>2 DEF Free
<1>6. \A d \in Conns \ {c} : conn'[d] = conn[d]
  BY <1>2
<1>7. Running' = Running /\ Bridged' = Bridged /\ \A t \in Services : Bridges(t)' = Bridges(t)
  BY <1>2, <1>5, <1>6 DEF Running, Alive, Bridged, Bridges
<1>8. SlotsCounted' /\ TicketsCounted'
  BY <1>7, CountsKept DEF PInv
<1>9. HeldInv'
  <2>1. \A t \in Services : held[t] # None => held[t] \in Conns \ {c}
    BY <1>1, <1>2 DEF HeldInv, TypeOK
  <2> QED
    BY ONLY <2>1, <1>1, <1>2, <1>6 DEF HeldInv
<1>10. ConnInv'
  BY <1>1, <1>2, <1>5, <1>6 DEF ConnInv, Unbound
<1>11. OffInv'
  BY <1>1, <1>2, <1>5, <1>6 DEF OffInv
<1> QED
  BY <1>1, <1>2, <1>4, <1>8, <1>9, <1>10, <1>11 DEF PInv, TypeOK, ShutdownComplete, Unbound

LEMMA AcceptStep ==
    ASSUME PInv, NEW c \in Conns, NEW s \in Services, Accept(s, c)
    PROVE  PInv'
<1> USE DEF Accept
<1>1. TypeOK /\ HeldInv /\ ConnInv /\ OffInv
  BY DEF PInv
<1>2. /\ conn \in [Conns -> ConnStates] /\ ~Unbound
      /\ conn[c].at = "backlog" /\ conn[c].svc = s /\ loop[s] = "accept"
      /\ conn' = [conn EXCEPT ![c] = [conn[c] EXCEPT !.at = "held"]]
      /\ held' = [held EXCEPT ![s] = c] /\ loop' = [loop EXCEPT ![s] = "check"]
      /\ UNCHANGED <<shutdown, slots, tickets>>
  BY <1>1 DEF TypeOK
<1>3. [conn[c] EXCEPT !.at = "held"] \in ConnStates
  BY <1>2 DEF ConnStates
<1>4. conn' \in [Conns -> ConnStates]
  BY ONLY <1>2, <1>3
<1>5. conn'[c].at = "held" /\ conn'[c].svc = s
      /\ conn'[c].fwd = conn[c].fwd /\ conn'[c].back = conn[c].back
  BY <1>2 DEF ConnStates
<1>6. \A d \in Conns \ {c} : conn'[d] = conn[d]
  BY <1>2
<1>7. Running' = Running /\ Bridged' = Bridged /\ \A t \in Services : Bridges(t)' = Bridges(t)
  <2>1. Running' = Running
    BY <1>1, <1>2 DEF Running, Alive, TypeOK
  <2> QED
    BY <2>1, <1>2, <1>5, <1>6 DEF Bridged, Bridges
<1>8. SlotsCounted' /\ TicketsCounted'
  BY <1>2, <1>7, CountsKept DEF PInv
<1>9. held[s] = None /\ \A t \in Services : held[t] # None => held[t] \in Conns \ {c}
  BY <1>1, <1>2 DEF HeldInv, TypeOK
<1>10. held'[s] = c /\ loop'[s] = "check" /\ c # None
       /\ \A t \in Services \ {s} : held'[t] = held[t] /\ loop'[t] = loop[t]
  BY <1>1, <1>2, ProxyAssumption DEF TypeOK
<1>11. HeldInv'
  BY ONLY <1>1, <1>5, <1>6, <1>9, <1>10 DEF HeldInv
<1>12. ConnInv'
  BY <1>1, <1>2, <1>5, <1>6, <1>9, <1>10, ProxyAssumption DEF ConnInv, Unbound
<1>13. OffInv'
  BY <1>1, <1>2, <1>10 DEF OffInv
<1>14. TypeOK'
  BY <1>1, <1>2, <1>4 DEF TypeOK
<1> QED
  BY <1>2, <1>8, <1>11, <1>12, <1>13, <1>14 DEF PInv, ShutdownComplete, Unbound

\* The other steps that touch neither a counter nor what it counts.
LEMMA OuterStep ==
    ASSUME PInv,
           \/ \E s \in Services :
                 CheckShutdown(s) /\ loop' = [loop EXCEPT ![s] = "admit"]
                 /\ UNCHANGED <<held, conn, tickets>>
           \/ ShutdownStep
           \/ UNCHANGED vars
    PROVE  PInv'
<1> USE DEF PInv
<1>1. ASSUME NEW s \in Services, CheckShutdown(s),
             loop' = [loop EXCEPT ![s] = "admit"], UNCHANGED <<held, conn, tickets>>
      PROVE  PInv'
  <2> USE <1>1 DEF CheckShutdown
  <2>1. Running' = Running /\ Bridged' = Bridged /\ \A t \in Services : Bridges(t)' = Bridges(t)
    BY DEF Running, Alive, Bridged, Bridges, TypeOK
  <2>2. SlotsCounted' /\ TicketsCounted'
    BY <2>1, CountsKept
  <2>3. HeldInv' /\ ConnInv' /\ OffInv'
    BY DEF HeldInv, ConnInv, OffInv, TypeOK, Unbound
  <2>4. shutdown # "done"
    BY DEF ShutdownComplete, Alive
  <2> QED
    BY <2>2, <2>3, <2>4 DEF TypeOK, ShutdownComplete
<1>2. CASE Drained
  <2> USE <1>2 DEF Drained
  <2>1. Running = {} /\ Bridged = {}
    <3>1. Running \in SUBSET Services /\ Bridged \in SUBSET Conns
      BY DEF Running, Bridged
    <3>2. Cardinality(Running) + Cardinality(Bridged) = 0
      BY DEF TicketsCounted, Running, Bridged
    <3>3. Cardinality(Running) = 0 /\ Cardinality(Bridged) = 0
      BY <3>1, <3>2, Finite
    <3> QED
      BY <3>1, <3>3, Finite, FS_EmptySet
  <2>2. ASSUME NEW c \in Conns PROVE conn[c] = Free
    <3>1. conn[c].at \notin {"dial", "pipe", "release", "close"}
      BY <2>1 DEF Bridged
    <3>2. conn[c].at # "backlog"
      BY DEF ConnInv, Unbound
    <3>3. conn[c].at # "held"
      BY <2>1, ProxyAssumption DEF ConnInv, HeldInv, Running, Alive
    <3> QED
      BY <3>1, <3>2, <3>3 DEF TypeOK, ConnStates, ConnInv
  <2>3. \A s \in Services : ~Alive(s)
    BY <2>1 DEF Running
  <2>4. Running' = Running /\ Bridged' = Bridged /\ \A t \in Services : Bridges(t)' = Bridges(t)
    BY DEF Running, Alive, Bridged, Bridges
  <2>5. SlotsCounted' /\ TicketsCounted'
    BY <2>4, CountsKept
  <2> QED
    BY <2>2, <2>3, <2>5 DEF TypeOK, HeldInv, ConnInv, OffInv, ShutdownComplete, Unbound, Alive
<1>3. CASE CloseListeners
  <2> USE <1>3 DEF CloseListeners
  <2>1. conn' \in [Conns -> ConnStates]
    BY DEF TypeOK, ConnStates, Free
  <2>2. Running' = Running /\ Bridged' = Bridged /\ \A t \in Services : Bridges(t)' = Bridges(t)
    BY DEF Running, Alive, Bridged, Bridges, TypeOK, Free
  <2>3. SlotsCounted' /\ TicketsCounted'
    BY <2>2, CountsKept
  <2>4. HeldInv' /\ ConnInv' /\ OffInv'
    BY ProxyAssumption DEF HeldInv, ConnInv, OffInv, TypeOK, Unbound, Free
  <2> QED
    BY <2>1, <2>3, <2>4 DEF TypeOK, ShutdownComplete
<1>4. CASE Signal \/ CancelDials \/ Expire \/ ShutdownAgain \/ UNCHANGED vars
  <2> USE <1>4 DEF Signal, CancelDials, Expire, ShutdownAgain, vars
  <2>1. Running' = Running /\ Bridged' = Bridged /\ \A t \in Services : Bridges(t)' = Bridges(t)
    BY DEF Running, Alive, Bridged, Bridges
  <2>2. SlotsCounted' /\ TicketsCounted'
    BY <2>1, CountsKept
  <2> QED
    BY <2>2 DEF TypeOK, HeldInv, ConnInv, OffInv, ShutdownComplete, Unbound, Alive
<1> QED
  BY <1>1, <1>2, <1>3, <1>4 DEF ShutdownStep
-----------------------------------------------------------------------------
(* The theorems *)

LEMMA StepInv == PInv /\ [Next]_vars => PInv'
<1> SUFFICES ASSUME PInv, [Next]_vars PROVE PInv'
  OBVIOUS
<1>1. CASE Run
  BY <1>1, RunStep
<1>2. CASE ShutdownStep \/ UNCHANGED vars
  BY <1>2, OuterStep
<1>3. ASSUME NEW s \in Services, LoopStep(s) \/ AcceptBreaks(s) PROVE PInv'
  <2>1. CASE \E c \in Conns : Accept(s, c)
    BY <2>1, AcceptStep
  <2>2. CASE AcceptClosed(s) \/ AcceptBreaks(s)
    BY <2>2, ExitStep DEF AcceptClosed, AcceptBreaks
  <2>3. CASE CheckShutdown(s)
    <3>1. CASE Reject(s) /\ Exit(s)
      BY <2>3, <3>1, ExitStep DEF CheckShutdown
    <3>2. CASE loop' = [loop EXCEPT ![s] = "admit"] /\ UNCHANGED <<held, conn, tickets>>
      BY <2>3, <3>2, OuterStep
    <3> QED
      BY <2>3, <3>1, <3>2 DEF CheckShutdown
  <2>4. CASE Admit(s)
    BY <2>4, AdmitStep
  <2> QED
    BY <1>3, <2>1, <2>2, <2>3, <2>4 DEF LoopStep
<1>4. ASSUME NEW c \in Conns, BridgeStep(c) \/ PeerStep(c) PROVE PInv'
  <2>1. CASE \E s \in Services : Connect(c, s)
    BY <2>1, ConnectStep
  <2>2. CASE Release(c)
    BY <2>2, ReleaseStep
  <2>3. CASE Finish(c)
    BY <2>3, FinishStep
  <2> QED
    BY <1>4, <2>1, <2>2, <2>3, BridgeInner DEF BridgeStep, PeerStep
<1> QED
  BY <1>1, <1>2, <1>3, <1>4 DEF Next

THEOREM Inductive == Spec => []PInv
<1> QED
  BY InitInv, StepInv, PTL DEF Spec

\* The variables keep their types, the counters their bounds.
THEOREM TypeCorrect == Spec => []TypeOK
<1>1. PInv => TypeOK
  BY DEF PInv
<1> QED
  BY <1>1, Inductive, PTL

\* However connections end (a refused dial, either copy, a shutdown), every
\* token in a semaphore belongs to one bridge, and a service never bridges
\* more than MaxConns connections.
THEOREM NoSlotLost == Spec => []SlotsCounted
<1>1. PInv => SlotsCounted
  BY DEF PInv
<1> QED
  BY <1>1, Inductive, PTL

\* The WaitGroup counts exactly the loops and bridges that run.
THEOREM AllCounted == Spec => []TicketsCounted
<1>1. PInv => TicketsCounted
  BY DEF PInv
<1> QED
  BY <1>1, Inductive, PTL

\* A Shutdown that reports success left no loop and no connection behind.
THEOREM NothingLeft == Spec => []ShutdownComplete
<1>1. PInv => ShutdownComplete
  BY DEF PInv
<1> QED
  BY <1>1, Inductive, PTL
=============================================================================
