-------------------------------- MODULE MC_Ports --------------------------------
(*
   The port daemon and what it hosts, and the switch daemon, on small
   instances. The focus of a behaviour says which of them moves; they share
   no state here. *)
EXTENDS AggregateOwner, PortTable, LacpEngine, PacketOwner, SwitchDaemon

VARIABLE focus

MCNetOf == [r \in 1 .. 3 |-> IF r = 3 THEN 2 ELSE r]
MCTabMembers == [g \in {"ae1", "ae2"} |-> {1, 2}]
MCRows == {<<"l3", "l3">>, <<"ae1", "ae1">>, <<"disabled", "ae2">>}
LacpPdu(sys, port, act, coll) == [sys |-> sys, port |-> port, agg |-> TRUE, sync |-> TRUE,
                                     coll |-> coll, match |-> TRUE, act |-> act]
LacpPdus == {LacpPdu(1, 1, TRUE, TRUE), LacpPdu(1, 2, TRUE, TRUE), LacpPdu(1, 2, TRUE, FALSE),
             LacpPdu(2, 1, FALSE, TRUE)}
MCBcmMembers == [c \in {"a", "b"} |-> IF c = "a" THEN "p12" ELSE "p34"]
MCBcmOffers == [c \in {"a", "b"} |-> IF c = "a" THEN {"sync", "create",
  "destroy"} ELSE {"on", "off", "create"}]

Focus == {"Own", "Tab", "Lacp", "Pkt", "Bcm"}

MCInit ==
  /\ focus \in Focus
  /\ OwnInit
  /\ TabInit
  /\ LacpInit
  /\ PktInit
  /\ BcmInit
  \* a component that never moves needs one initial state only
  /\ focus # "Lacp" => active = FALSE
  /\ focus # "Pkt" => aggregate = FALSE

\* One component moves, the others keep their initial state.
MCNext ==
  \/ /\ focus = "Own" /\ OwnNext
     /\ UNCHANGED <<focus, tabVars, lacpVars, pktVars, bcmVars>>
  \/ /\ focus = "Tab" /\ TabNext
     /\ UNCHANGED <<focus, ownVars, lacpVars, pktVars, bcmVars>>
  \/ /\ focus = "Lacp" /\ LacpNext
     /\ UNCHANGED <<focus, ownVars, tabVars, pktVars, bcmVars>>
  \/ /\ focus = "Pkt" /\ PktNext
     /\ UNCHANGED <<focus, ownVars, tabVars, lacpVars, bcmVars>>
  \/ /\ focus = "Bcm" /\ BcmNext
     /\ UNCHANGED <<focus, ownVars, tabVars, lacpVars, pktVars>>

\* The fairness each component's module states, while it is the one that moves.
MCFairness ==
  /\ WF_ownVars(focus = "Own" /\ OwnRestart)
  /\ WF_ownVars(focus = "Own" /\ OwnSweep)
  /\ WF_ownVars(focus = "Own" /\ (\E e \in BOOLEAN : OwnTick(e)))
  /\ WF_ownVars(focus = "Own" /\ OwnExpire)
  /\ WF_ownVars(focus = "Own" /\ WorkerRuns)
  /\ WF_ownVars(focus = "Own" /\ WorkerEnds)
  /\ WF_ownVars(focus = "Own" /\ HookLocks)
  /\ WF_ownVars(focus = "Own" /\ HookEnds)
  /\ WF_tabVars(focus = "Tab" /\ TabPass)
  /\ WF_tabVars(focus = "Tab" /\ TabRestart)
  /\ SF_tabVars(focus = "Tab" /\ TabPass /\ 2 \in attached')
  /\ WF_pktVars(focus = "Pkt" /\ LoopStep)
  /\ WF_pktVars(focus = "Pkt" /\ Clock)
  /\ \A w \in {1, 2} : WF_pktVars(focus = "Pkt" /\ WorkerStep(w))
  /\ \A c \in {"a", "b"} : WF_bcmVars(focus = "Bcm" /\ ClientStep(c))

MCSpec == MCInit /\ [][MCNext]_<<focus, ownVars, tabVars, lacpVars, pktVars,
  bcmVars>> /\ MCFairness

-----------------------------------------------------------------------------
MCStalledRetired == (focus = "Own") => StalledRetired

MCRequestAttempted == (focus = "Own") => RequestAttempted

MCWantedAttached == (focus = "Tab") => WantedAttached

MCSilentMpDropsCarrier == (focus = "Tab") => SilentMpDropsCarrier

\* A loop that has gone silent takes its threads with it: from some point on
\* none of them moves a packet.
MCSilentLoopStops == (focus = "Pkt") => SilentLoopStops

\* Waiting for the barrier ends, whatever the threads meet, and so does a
\* close.
MCWaitsEnd == (focus = "Pkt") => WaitsEnd

\* Every request is answered, with the chip dead, busy or silent.
MCAnswered == (focus = "Bcm") => Answered

\* What the port daemon, its packet owners and the switch daemon come to in
\* the end.
PortsProgress ==
  /\ MCStalledRetired
  /\ MCRequestAttempted
  /\ MCWantedAttached
  /\ MCSilentMpDropsCarrier
  /\ MCSilentLoopStops
  /\ MCWaitsEnd
  /\ MCAnswered

=============================================================================
