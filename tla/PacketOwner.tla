------------------------------ MODULE PacketOwner ------------------------------
(* The native packet owner of the port daemon: one receive and one transmit
   thread per lane (ffn_packet.c, ffn_aggregate_packet.inc), the barrier at
   which they park, the lease that stops them when the daemon's loop goes
   silent, and the inspection engine the loop replaces under them
   (ffn_portd.c).  A section under p->control is one step; the packets of a
   burst are abstracted to the engine their scan reads. *)
EXTENDS FfnCommon, Naturals, FiniteSets

CONSTANTS
    Worker,       \* the threads: two per lane
    Engine,       \* addresses an inspection engine can be allocated at
    PktLease      \* clock steps before a silent loop's lease ends (3 s)

ASSUME PktAssumption == PktLease \in Nat

VARIABLES
    pktPc,           \* where each thread is
    paused,       \* lane->paused
    wake,         \* the eventfd of each thread is readable
    request,      \* p->pause_requested
    stopped,      \* p->stopped
    pktFault,        \* p->fault is set
    pktAge,          \* clock steps since the last resume
    scan,         \* p->inspection
    handle,       \* inspector.handle
    listed,       \* the policy's ports name this owner's
    alive,        \* engines allocated and not destroyed
    loop,         \* where the daemon's loop is in this owner
    aggregate     \* TRUE: hosted by aggregate_tick; FALSE: by port_tick

pktVars == <<pktPc, paused, wake, request, stopped, pktFault, pktAge, scan, handle, listed, alive, loop,
             aggregate>>
barrier == <<request, stopped, pktFault>>
engines == <<scan, handle, listed, alive>>

PktTypeOK ==
    /\ pktPc \in [Worker -> {"none", "top", "parked", "poll", "burst", "failing", "ending", "gone"}]
    /\ paused \in [Worker -> BOOLEAN] /\ wake \in [Worker -> BOOLEAN]
    /\ request \in BOOLEAN /\ stopped \in BOOLEAN /\ pktFault \in BOOLEAN
    /\ pktAge \in 0..PktLease
    /\ scan \in Engine \cup {None} /\ handle \in Engine \cup {None}
    /\ listed \in BOOLEAN /\ alive \subseteq Engine
    \* a fault is only ever recorded together with the stop
    /\ pktFault => stopped
    /\ loop \in {"start", "starting", "idle", "tick", "sync", "pausing", "paused", "resume",
                "failed", "closing", "closed", "hung"}

Started == {w \in Worker : pktPc[w] # "none"}

\* Mutant: the barrier trusts the request instead of the threads' answers.
AllPausedOnce == \E w \in Worker : paused[w]
AllPaused == \A w \in Started : paused[w]

\* ---- the threads -------------------------------------------------------

Expired(w) == ~stopped /\ pktAge = PktLease

Park(w) ==
    /\ request /\ ~stopped
    /\ paused' = [paused EXCEPT ![w] = TRUE]
    /\ pktPc' = [pktPc EXCEPT ![w] = "parked"]
    /\ UNCHANGED barrier

PktPass(w) ==
    /\ ~request \/ stopped
    /\ paused' = [paused EXCEPT ![w] = FALSE]
    /\ pktFault' = (pktFault \/ Expired(w))
    /\ stopped' = (stopped \/ Expired(w))
    /\ pktPc' = [pktPc EXCEPT ![w] = IF stopped \/ Expired(w) THEN "ending" ELSE "poll"]
    /\ UNCHANGED request

Top(w) ==
    /\ \/ pktPc[w] = "top" /\ (Park(w) \/ PktPass(w))
       \/ pktPc[w] = "parked" /\ PktPass(w)
    /\ UNCHANGED <<wake, pktAge, engines, loop>>

\* poll() returned: the wake event first, else a burst, a dead descriptor or
\* nothing within 20 ms.
PktPoll(w) ==
    /\ pktPc[w] = "poll"
    /\ wake' = [wake EXCEPT ![w] = FALSE]
    /\ \E to \in IF wake[w] THEN {"top"} ELSE {"top", "burst", "failing"} :
          pktPc' = [pktPc EXCEPT ![w] = to]
    /\ UNCHANGED <<paused, barrier, pktAge, engines, loop>>

\* receive_burst or transmit_burst returns.
PktBurst(w) ==
    /\ pktPc[w] = "burst"
    /\ \E to \in {"top", "failing"} : pktPc' = [pktPc EXCEPT ![w] = to]
    /\ UNCHANGED <<paused, wake, barrier, pktAge, engines, loop>>

PktFail(w) ==
    /\ pktPc[w] = "failing"
    /\ pktFault' = TRUE /\ stopped' = TRUE
    /\ pktPc' = [pktPc EXCEPT ![w] = "ending"]
    /\ UNCHANGED <<paused, wake, request, pktAge, engines, loop>>

PktEnd(w) ==
    /\ pktPc[w] = "ending"
    /\ paused' = [paused EXCEPT ![w] = TRUE]
    /\ pktPc' = [pktPc EXCEPT ![w] = "gone"]
    /\ UNCHANGED <<wake, barrier, pktAge, engines, loop>>

WorkerStep(w) ==
    /\ Top(w) \/ PktPoll(w) \/ PktBurst(w) \/ PktFail(w) \/ PktEnd(w)
    /\ UNCHANGED aggregate

\* ---- the daemon's loop -------------------------------------------------

\* ffn_packet_start_lanes: every thread, parked, or some of them and a fault.
PktStart ==
    /\ loop = "start"
    /\ \E made \in SUBSET Worker :
          /\ pktPc' = [w \in Worker |-> IF w \in made THEN "top" ELSE "none"]
          /\ pktFault' = (made # Worker) /\ stopped' = (made # Worker)
          /\ loop' = IF made = Worker THEN "starting" ELSE "failed"
    /\ request' = TRUE
    /\ UNCHANGED <<paused, wake, pktAge, engines>>

\* inspection_tick: the policy file is as before or refused, or it changed: the
\* new engine (none for mode "off") replaces the old one, which is destroyed.
InspectionTick ==
    /\ loop = IF aggregate THEN "idle" ELSE "tick"
    /\ \/ UNCHANGED <<handle, listed, alive>>
       \/ \E new \in (Engine \ alive) \cup {None}, ports \in BOOLEAN :
             /\ handle' = new /\ listed' = ports
             /\ alive' = (alive \ {handle}) \cup ({new} \ {None})
    /\ loop' = IF aggregate THEN "sync" ELSE "paused"
    /\ UNCHANGED <<pktPc, paused, wake, barrier, pktAge, scan>>

\* The engine this owner's packets are to be scanned with.
Wanted == IF listed THEN handle ELSE None

\* ffn_packet_pause asks and wakes every thread; aggregate_tick calls it when
\* what it would push changed or the second is over, port_tick every time.
PauseFrom == IF aggregate THEN "sync" ELSE "idle"
\* Mutant: the request is taken for the answer.
PauseNoWait ==
    /\ loop = PauseFrom
    /\ request' = TRUE
    /\ wake' = [w \in Worker |-> TRUE]
    /\ loop' = IF pktFault THEN "failed" ELSE IF aggregate THEN "paused" ELSE "tick"
    /\ UNCHANGED <<pktPc, paused, stopped, pktFault, pktAge, engines>>
PktPause ==
    /\ loop = PauseFrom
    /\ request' = TRUE
    /\ wake' = [w \in Worker |-> TRUE]
    /\ loop' = IF pktFault THEN "failed" ELSE "pausing"
    /\ UNCHANGED <<pktPc, paused, stopped, pktFault, pktAge, engines>>

NothingToPush ==
    /\ aggregate /\ loop = "sync" /\ scan = Wanted
    /\ loop' = IF pktFault THEN "failed" ELSE "idle"
    /\ UNCHANGED <<pktPc, paused, wake, barrier, pktAge, engines>>

Paused ==
    /\ loop \in {"starting", "pausing"} /\ (AllPaused \/ stopped)
    /\ loop' = CASE pktFault -> "failed"
                 [] ~pktFault /\ loop = "starting" -> "idle"
                 [] ~pktFault /\ loop = "pausing" -> IF aggregate THEN "paused" ELSE "tick"
    /\ UNCHANGED <<pktPc, paused, wake, barrier, pktAge, engines>>

\* ffn_packet_configure and ffn_aggregate_gates: refused unless all are parked.
Configure ==
    /\ loop = "paused"
    /\ LET free == request /\ AllPaused /\ (aggregate => ~stopped) IN
          /\ scan' = IF free THEN Wanted ELSE scan
          /\ loop' = IF free THEN "resume" ELSE "failed"
    /\ UNCHANGED <<pktPc, paused, wake, barrier, pktAge, handle, listed, alive>>

PktResume ==
    /\ loop = "resume"
    /\ IF stopped THEN loop' = "failed" /\ UNCHANGED <<request, pktAge>>
                  ELSE loop' = "idle" /\ request' = FALSE /\ pktAge' = 0
    /\ UNCHANGED <<pktPc, paused, wake, stopped, pktFault, engines>>

\* port_detach or shutdown_owner: the threads are joined, then the engine goes.
Close ==
    /\ loop \in {"idle", "failed"}
    /\ stopped' = TRUE
    /\ loop' = "closing"
    /\ UNCHANGED <<pktPc, paused, wake, request, pktFault, pktAge, engines, aggregate>>

PktClosed ==
    /\ loop = "closing" /\ \A w \in Started : pktPc[w] = "gone"
    /\ alive' = alive \ {handle} /\ handle' = None
    /\ loop' = "closed"
    /\ UNCHANGED <<pktPc, paused, wake, barrier, pktAge, scan, listed>>

LoopStep ==
    /\ \/ PktStart \/ InspectionTick \/ PktPause \/ NothingToPush \/ Paused
       \/ Configure \/ PktResume \/ PktClosed \/ (loop = "failed" /\ Close)
    /\ UNCHANGED aggregate

\* The loop is held up in another owner's work, for good.
PktHang ==
    /\ loop = "idle"
    /\ loop' = "hung"
    /\ UNCHANGED <<pktPc, paused, wake, barrier, pktAge, engines, aggregate>>

Clock ==
    /\ pktAge < PktLease /\ pktAge' = pktAge + 1
    /\ UNCHANGED <<pktPc, paused, wake, barrier, engines, loop, aggregate>>

PktInit ==
    /\ pktPc = [w \in Worker |-> "none"]
    /\ paused = [w \in Worker |-> FALSE] /\ wake = [w \in Worker |-> FALSE]
    /\ request = FALSE /\ stopped = FALSE /\ pktFault = FALSE
    /\ pktAge = PktLease
    /\ scan = None /\ handle = None /\ listed = FALSE /\ alive = {}
    /\ loop = "start" /\ aggregate \in BOOLEAN

PktNext == LoopStep \/ Close \/ PktHang \/ Clock \/ \E w \in Worker : WorkerStep(w)

\* The scheduler runs every thread, poll() and the socket calls return.
PktFairness == WF_pktVars(LoopStep) /\ WF_pktVars(Clock) /\ \A w \in Worker : WF_pktVars(WorkerStep(w))
PktSpec == PktInit /\ [][PktNext]_pktVars /\ PktFairness

\* ---- properties --------------------------------------------------------

\* No thread scans a packet with an engine that was destroyed: the barrier and
\* the join order make the reload of a policy and the release of the port safe.
EngineAlive == (\E w \in Worker : pktPc[w] = "burst") => scan \in alive \cup {None}
\* The same for the owners of single ports.
PortEngineAlive == ~aggregate => EngineAlive

\* What the threads read during a burst never changes under it.
ConfigQuiet == [][scan' # scan => \A w \in Worker : pktPc[w] # "burst" /\ pktPc'[w] # "burst"]_pktVars

\* A loop that has gone silent takes its threads with it: from some point on
\* none of them moves a packet.
SilentLoopStops == (loop = "hung") ~> [](\A w \in Worker : pktPc[w] \notin {"poll", "burst"})

\* Waiting for the barrier ends, whatever the threads meet, and so does a close.
WaitsEnd == (loop \in {"starting", "pausing", "closing"}) ~> (loop \notin {"starting", "pausing", "closing"})

\* A port that is used has its engine alive.
PktSafe ==
  /\ PktTypeOK
  /\ PortEngineAlive
================================================================================
