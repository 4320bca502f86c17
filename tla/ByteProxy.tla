----------------------------- MODULE ByteProxy -----------------------------
(***************************************************************************)
(* The byte proxy (internal/common/byteproxy): one listener and accept     *)
(* loop per service, a semaphore of MaxConns slots per service, one bridge *)
(* goroutine per connection with two copying goroutines, and Shutdown,     *)
(* which waits for all of them on a WaitGroup.                             *)
(*                                                                         *)
(* Bytes are left out: a copy runs until one of its connections is closed  *)
(* here, or its peer is gone.  DialFunc is any dialer that keeps the       *)
(* contract of byteproxy.go: it returns, at the latest when its timeout    *)
(* passes or its context is cancelled.  The count of dropped connections   *)
(* is left out.                                                            *)
(***************************************************************************)
EXTENDS Integers, FiniteSets

CONSTANTS Services,
          Conns,        \* inbound connections that exist at once
          MaxConns,     \* slots per service
          None

ASSUME ProxyAssumption ==
    /\ IsFiniteSet(Services) /\ IsFiniteSet(Conns)
    /\ MaxConns \in Nat \ {0}
    /\ None \notin Services \cup Conns

VARIABLES
    shutdown,   \* how far Shutdown has come
    loop,       \* each accept loop
    held,       \* the connection each accept loop has in hand, or None
    slots,      \* tokens in each semaphore channel
    tickets,    \* the WaitGroup's counter
    conn        \* each connection: where its bridge stands, its service, its
                \*   two ends, the two copies, which peers are gone, whether
                \*   a peer stopped reading, and whether pipe forced it closed

vars == <<shutdown, loop, held, slots, tickets, conn>>

\* shutdownCh is closed, the listeners are closed, dialCtx is cancelled.
Signalled == shutdown # "idle"
Unbound == shutdown \notin {"idle", "signalled"}
Cancelled == shutdown \notin {"idle", "signalled", "unbound"}

Free == [at |-> "free", svc |-> None, inb |-> "none", up |-> "none",
         fwd |-> "off", back |-> "off", gone |-> {}, stalled |-> FALSE,
         forced |-> FALSE]

ConnStates ==
    [at : {"free", "backlog", "held", "dial", "pipe", "release", "close"},
     svc : Services \cup {None},
     inb : {"none", "open", "closed"}, up : {"none", "open", "closed"},
     fwd : {"off", "copying", "done"}, back : {"off", "copying", "done"},
     gone : SUBSET {"inbound", "upstream"}, stalled : BOOLEAN,
     forced : BOOLEAN]

TypeOK ==
    /\ shutdown \in {"idle", "signalled", "unbound", "waiting", "done", "expired"}
    /\ loop \in [Services -> {"off", "accept", "check", "admit", "exited"}]
    /\ held \in [Services -> Conns \cup {None}]
    /\ slots \in [Services -> 0..MaxConns]
    /\ tickets \in 0..(Cardinality(Services) + Cardinality(Conns))
    /\ conn \in [Conns -> ConnStates]

\* New has bound every listener.
Init ==
    /\ shutdown = "idle"
    /\ loop = [s \in Services |-> "off"]
    /\ held = [s \in Services |-> None]
    /\ slots = [s \in Services |-> 0]
    /\ tickets = 0
    /\ conn = [c \in Conns |-> Free]

Alive(s) == loop[s] \in {"accept", "check", "admit"}
-----------------------------------------------------------------------------
(* Accept loops *)

\* One goroutine per listener; never after Shutdown was called.
Run ==
    /\ ~Signalled /\ \A s \in Services : loop[s] = "off"
    /\ loop' = [s \in Services |-> "accept"]
    /\ tickets' = Cardinality(Services)
    /\ UNCHANGED <<shutdown, held, slots, conn>>

\* A peer connects and waits in the kernel's backlog.
Connect(c, s) ==
    /\ ~Unbound /\ conn[c].at = "free"
    /\ conn' = [conn EXCEPT ![c] = [Free EXCEPT !.at = "backlog", !.svc = s,
                                                !.inb = "open"]]
    /\ UNCHANGED <<shutdown, loop, held, slots, tickets>>

Accept(s, c) ==
    /\ loop[s] = "accept" /\ ~Unbound
    /\ conn[c].at = "backlog" /\ conn[c].svc = s
    /\ held' = [held EXCEPT ![s] = c]
    /\ conn' = [conn EXCEPT ![c].at = "held"]
    /\ loop' = [loop EXCEPT ![s] = "check"]
    /\ UNCHANGED <<shutdown, slots, tickets>>

Exit(s) ==
    /\ loop' = [loop EXCEPT ![s] = "exited"]
    /\ tickets' = tickets - 1

\* Accept fails because the listener is closed.
AcceptClosed(s) ==
    /\ loop[s] = "accept" /\ Unbound
    /\ Exit(s)
    /\ UNCHANGED <<shutdown, held, slots, conn>>

\* Accept fails for a reason of its own: this too ends the loop.
AcceptBreaks(s) ==
    /\ loop[s] = "accept" /\ ~Unbound
    /\ Exit(s)
    /\ UNCHANGED <<shutdown, held, slots, conn>>

\* The loop closes the connection it has in hand.
Reject(s) ==
    /\ conn' = [conn EXCEPT ![held[s]] = Free]
    /\ held' = [held EXCEPT ![s] = None]

\* The second look at shutdownCh, for what was queued in the kernel.
CheckShutdown(s) ==
    /\ loop[s] = "check"
    /\ \/ Signalled /\ Reject(s) /\ Exit(s)
       \/ ~Signalled /\ loop' = [loop EXCEPT ![s] = "admit"]
          /\ UNCHANGED <<held, conn, tickets>>
    /\ UNCHANGED <<shutdown, slots>>

\* Seeded bug: the bridge goroutine takes no ticket.
AdmitWithoutTicket(s) ==
    /\ loop[s] = "admit"
    /\ loop' = [loop EXCEPT ![s] = "accept"]
    /\ \/ /\ slots[s] < MaxConns
          /\ slots' = [slots EXCEPT ![s] = @ + 1]
          /\ conn' = [conn EXCEPT ![held[s]].at = "dial"]
          /\ held' = [held EXCEPT ![s] = None]
          /\ UNCHANGED tickets
       \/ slots[s] = MaxConns /\ Reject(s) /\ UNCHANGED <<slots, tickets>>
    /\ UNCHANGED shutdown

\* Seeded bug: the limit is compared with <=.
AdmitOneMore(s) ==
    /\ loop[s] = "admit" /\ slots[s] <= MaxConns
    /\ loop' = [loop EXCEPT ![s] = "accept"]
    /\ slots' = [slots EXCEPT ![s] = @ + 1]
    /\ tickets' = tickets + 1
    /\ conn' = [conn EXCEPT ![held[s]].at = "dial"]
    /\ held' = [held EXCEPT ![s] = None]
    /\ UNCHANGED shutdown

\* Take a slot and start the bridge, or drop the connection.
Admit(s) ==
    /\ loop[s] = "admit"
    /\ loop' = [loop EXCEPT ![s] = "accept"]
    /\ \/ /\ slots[s] < MaxConns
          /\ slots' = [slots EXCEPT ![s] = @ + 1]
          /\ tickets' = tickets + 1
          /\ conn' = [conn EXCEPT ![held[s]].at = "dial"]
          /\ held' = [held EXCEPT ![s] = None]
       \/ slots[s] = MaxConns /\ Reject(s) /\ UNCHANGED <<slots, tickets>>
    /\ UNCHANGED shutdown
-----------------------------------------------------------------------------
(* The bridge of connection c *)

\* The goroutines of c do this to it and leave everything else alone.
Step(c, state) ==
    /\ conn' = [conn EXCEPT ![c] = state]
    /\ UNCHANGED <<shutdown, loop, held, slots, tickets>>

\* Seeded bug: the slot is freed on the way out of pipe only.
DialFailsLeaks(c) == conn[c].at = "dial" /\ Step(c, [conn[c] EXCEPT !.at = "close"])

\* Refused, timed out, cancelled, or the route header was bad.
DialFails(c) == conn[c].at = "dial" /\ Step(c, [conn[c] EXCEPT !.at = "release"])

DialSucceeds(c) ==
    /\ conn[c].at = "dial"
    /\ Step(c, [conn[c] EXCEPT !.at = "pipe", !.up = "open",
                               !.fwd = "copying", !.back = "copying"])

\* io.Copy can return: a connection is closed here, or a peer is gone.
Broken(c) == conn[c].inb = "closed" \/ conn[c].up = "closed" \/ conn[c].gone # {}

\* Seeded bug: the end of one copy does not reach the other.
ForwardEndsAlone(c) ==
    /\ conn[c].fwd = "copying" /\ Broken(c)
    /\ Step(c, [conn[c] EXCEPT !.fwd = "done"])

\* A copy ends and closes the other side.
ForwardEnds(c) ==
    /\ conn[c].fwd = "copying" /\ Broken(c)
    /\ Step(c, [conn[c] EXCEPT !.fwd = "done", !.up = "closed"])

BackwardEnds(c) ==
    /\ conn[c].back = "copying" /\ Broken(c)
    /\ Step(c, [conn[c] EXCEPT !.back = "done", !.inb = "closed"])

\* Seeded bug: pipe waits for its copies only.
PipeIgnoresShutdown(c) == conn[c].at = "none" /\ Step(c, conn[c])

\* pipe sees shutdownCh closed and closes both sides, once.
PipeSeesShutdown(c) ==
    /\ conn[c].at = "pipe" /\ Signalled /\ ~conn[c].forced
    /\ {conn[c].fwd, conn[c].back} # {"done"}
    /\ Step(c, [conn[c] EXCEPT !.inb = "closed", !.up = "closed", !.forced = TRUE])

\* pipe has heard of both copies; bridge closes the upstream.
PipeEnds(c) ==
    /\ conn[c].at = "pipe" /\ conn[c].fwd = "done" /\ conn[c].back = "done"
    /\ Step(c, [conn[c] EXCEPT !.at = "release", !.up = "closed"])

\* The deferred calls of the goroutine: first the slot, then the connection
\* and the ticket.
Release(c) ==
    /\ conn[c].at = "release"
    /\ slots' = [slots EXCEPT ![conn[c].svc] = @ - 1]
    /\ conn' = [conn EXCEPT ![c].at = "close"]
    /\ UNCHANGED <<shutdown, loop, held, tickets>>

Finish(c) ==
    /\ conn[c].at = "close"
    /\ tickets' = tickets - 1
    /\ conn' = [conn EXCEPT ![c] = Free]
    /\ UNCHANGED <<shutdown, loop, held, slots>>

\* A peer closes its end, or stops reading what is sent to it.
PeerCloses(c, peer) ==
    /\ conn[c].at = "pipe" /\ peer \notin conn[c].gone
    /\ Step(c, [conn[c] EXCEPT !.gone = @ \cup {peer}])

PeerStalls(c) ==
    /\ conn[c].at = "pipe" /\ ~conn[c].stalled
    /\ Step(c, [conn[c] EXCEPT !.stalled = TRUE])
-----------------------------------------------------------------------------
(* Shutdown *)

Signal ==
    /\ shutdown = "idle"
    /\ shutdown' = "signalled"
    /\ UNCHANGED <<loop, held, slots, tickets, conn>>

\* All listeners at once, since no code looks at two of them.  The kernel
\* resets what waits in the backlog of a closed listener.
CloseListeners ==
    /\ shutdown = "signalled"
    /\ shutdown' = "unbound"
    /\ conn' = [c \in Conns |-> IF conn[c].at = "backlog" THEN Free ELSE conn[c]]
    /\ UNCHANGED <<loop, held, slots, tickets>>

CancelDials ==
    /\ shutdown = "unbound"
    /\ shutdown' = "waiting"
    /\ UNCHANGED <<loop, held, slots, tickets, conn>>

\* The WaitGroup drains, or the deadline passes; the one who called Shutdown
\* may call it again.
Drained ==
    /\ shutdown = "waiting" /\ tickets = 0
    /\ shutdown' = "done"
    /\ UNCHANGED <<loop, held, slots, tickets, conn>>

Expire ==
    /\ shutdown = "waiting"
    /\ shutdown' = "expired"
    /\ UNCHANGED <<loop, held, slots, tickets, conn>>

ShutdownAgain ==
    /\ shutdown \in {"done", "expired"}
    /\ shutdown' = "waiting"
    /\ UNCHANGED <<loop, held, slots, tickets, conn>>
-----------------------------------------------------------------------------
LoopStep(s) ==
    \/ \E c \in Conns : Accept(s, c)
    \/ AcceptClosed(s) \/ CheckShutdown(s) \/ Admit(s)

BridgeStep(c) ==
    \/ DialFails(c) \/ DialSucceeds(c)
    \/ ForwardEnds(c) \/ BackwardEnds(c)
    \/ PipeSeesShutdown(c) \/ PipeEnds(c) \/ Release(c) \/ Finish(c)

PeerStep(c) ==
    \/ \E s \in Services : Connect(c, s)
    \/ \E peer \in {"inbound", "upstream"} : PeerCloses(c, peer)
    \/ PeerStalls(c)

ShutdownStep ==
    \/ Signal \/ CloseListeners \/ CancelDials \/ Drained \/ Expire \/ ShutdownAgain

Next ==
    \/ Run \/ ShutdownStep
    \/ \E s \in Services : LoopStep(s) \/ AcceptBreaks(s)
    \/ \E c \in Conns : BridgeStep(c) \/ PeerStep(c)

\* A copy must return if a connection is closed here, or the peer it reads
\* from is gone and no write of its own is stuck on a peer that stopped
\* reading.
Ends(c) ==
    \/ conn[c].inb = "closed" \/ conn[c].up = "closed"
    \/ ~conn[c].stalled

\* Goroutines run and dials end (by their timeouts, if nothing else); peers
\* need not do anything, and nobody need call Shutdown.
Fairness ==
    /\ \A s \in Services : WF_vars(LoopStep(s))
    /\ WF_vars(CloseListeners) /\ WF_vars(CancelDials)
    /\ \A c \in Conns :
          /\ WF_vars(DialFails(c) \/ DialSucceeds(c))
          /\ WF_vars("inbound" \in conn[c].gone /\ Ends(c) /\ ForwardEnds(c))
          /\ WF_vars("upstream" \in conn[c].gone /\ Ends(c) /\ BackwardEnds(c))
          /\ WF_vars((conn[c].inb = "closed" \/ conn[c].up = "closed")
                        /\ (ForwardEnds(c) \/ BackwardEnds(c)))
          /\ WF_vars(PipeSeesShutdown(c)) /\ WF_vars(PipeEnds(c))
          /\ WF_vars(Release(c)) /\ WF_vars(Finish(c))

Spec == Init /\ [][Next]_vars
FairSpec == Spec /\ Fairness
-----------------------------------------------------------------------------
(* Properties *)

\* The bridges of service s that hold a slot.
Bridges(s) == {c \in Conns : conn[c].svc = s /\ conn[c].at \in {"dial", "pipe", "release"}}

\* Every slot taken belongs to a bridge that will give it back, and no service
\* has more than MaxConns bridges, whichever way connections end.
SlotsCounted ==
    \A s \in Services : slots[s] = Cardinality(Bridges(s)) /\ slots[s] <= MaxConns

\* The WaitGroup counts the goroutines Shutdown has to wait for.
TicketsCounted ==
    tickets = Cardinality({s \in Services : Alive(s)})
              + Cardinality({c \in Conns : conn[c].at \in {"dial", "pipe", "release", "close"}})

\* When Shutdown reports success no loop runs and no connection is left open,
\* also those accepted, or dialled, while it ran.
ShutdownComplete ==
    shutdown = "done" =>
        /\ \A s \in Services : ~Alive(s)
        /\ \A c \in Conns : conn[c] = Free

\* However many peers hang or stop reading, everything ends once Shutdown is
\* called.
ShutdownDrains == Signalled ~> tickets = 0

\* A connection one of whose peers is gone gives its slot back, unless the
\* other peer stops reading.
SlotFreed ==
    \A c \in Conns :
        conn[c].at = "pipe" /\ conn[c].gone # {} ~> conn[c].at = "free" \/ conn[c].stalled
=============================================================================
