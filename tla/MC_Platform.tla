------------------------------ MODULE MC_Platform ------------------------------
(*
   The restart of the processors, the flow table of the forwarder, and the
   kernel driver and the cages of the switch. The focus of a behaviour says
   which of them moves; they share no state here. *)
EXTENDS PlaneRestart, DpFlow, BdeDriver, SfpCages

VARIABLE focus

FlowRow(match, ports, act, pinned) == [match |-> match, ports |-> ports, act |-> act, pinned |-> pinned]
FlowBanks ==
  {<<FlowRow({1} \X {1, 2}, TRUE, "inspect", FALSE), FlowRow({3} \X {1}, FALSE, "forward", TRUE)>>}
MCFlowHome == [k \in {1, 2, 3} |-> IF k = 3 THEN 3 ELSE 2]
MCRoutes == {<<"ok", "none">>}
MCPageKind == <<"reserved", "ram", "reserved", "hole", "ram", "hole">>
MCPools == {[first |-> 1, last |-> 3], [first |-> 4, last |-> 6]}
MCSfpRequests == {[enabled |-> TRUE, speed |-> "auto"], [enabled |-> FALSE,
  speed |-> None]}

Focus == {"Rst", "Flow", "Bde", "Sfp"}

MCInit ==
  /\ focus \in Focus
  /\ RstInit
  /\ FlowInit
  /\ BdeInit
  /\ SfpInit
  \* a component that never moves needs one initial state only
  /\ focus # "Bde" => smp = FALSE

\* One component moves, the others keep their initial state.
MCNext ==
  \/ /\ focus = "Rst" /\ RstNext
     /\ UNCHANGED <<focus, flowVars, bdeVars, sfpVars>>
  \/ /\ focus = "Flow" /\ FlowNext
     /\ UNCHANGED <<focus, rstVars, bdeVars, sfpVars>>
  \/ /\ focus = "Bde" /\ BdeNext
     /\ UNCHANGED <<focus, rstVars, flowVars, sfpVars>>
  \/ /\ focus = "Sfp" /\ SfpNext
     /\ UNCHANGED <<focus, rstVars, flowVars, bdeVars>>

\* The fairness each component's module states, while it is the one that moves.
MCFairness ==
  /\ WF_rstVars(focus = "Rst" /\ Age)
  /\ \A id \in Id : WF_rstVars(focus = "Rst" /\ Work(id))
  /\ \A r \in Role : WF_rstVars(focus = "Rst" /\ Own(r))
  /\ WF_flowVars(focus = "Flow" /\ FlowPoll)
  /\ WF_bdeVars(focus = "Bde" /\ Isr)
  /\ \A t \in {"intr", "main"} : SF_bdeVars(focus = "Bde" /\ Ioctl(t))
  /\ \A t \in {"intr", "main"} : SF_bdeVars(focus = "Bde" /\ Sdk(t))
  /\ WF_sfpVars(focus = "Sfp" /\ SfpWatcher)
  /\ WF_sfpVars(focus = "Sfp" /\ SfpFaceplate)

MCSpec == MCInit /\ [][MCNext]_<<focus, rstVars, flowVars, bdeVars, sfpVars>>
  /\ MCFairness

-----------------------------------------------------------------------------
\* Restarting does not stay blocked: whoever died or hung up, another restart
\* can be requested in the end.
MCUnblocks == (focus = "Rst") => Unblocks

\* "An incremental sweep reclaims flows idle for DP_FLOW_IDLE_MS": no flow
\* sits in the table idle for ever, whatever is shifted around the sweep's
\* position.
MCIdleReclaimed == (focus = "Flow") => IdleReclaimed

\* Command 9 keeps nobody out while it waits: the SDK can enable interrupts
\* again.
MCOthersEnter == (focus = "Bde") => OthersEnter

\* What the chip raises is served by the SDK, whatever it enabled and disabled
\* meanwhile, as long as a handler is installed and one core runs both.
MCInterruptServed == (focus = "Bde") => InterruptServed

MCCheckRuns == (focus = "Sfp") => CheckRuns

\* What the restarts, the flow table, the driver and the cage watch come to in
\* the end.
PlatformProgress ==
  /\ MCUnblocks
  /\ MCIdleReclaimed
  /\ MCOthersEnter
  /\ MCInterruptServed
  /\ MCCheckRuns

=============================================================================
