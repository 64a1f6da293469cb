-------------------------------- MODULE MC_Fe100 --------------------------------
(*
   The FE100 owners on small instances. The focus of a behaviour says which
   of them moves; they share no state here. *)
EXTENDS Fe100Sessions, Fe100FlowNamespace, SessionStream, Fe100Commission,
  Fe100Guard

VARIABLE focus


Focus == {"Ses", "Ns", "Obs", "Com", "Grd"}

MCInit ==
  /\ focus \in Focus
  /\ Init
  /\ NsInit
  /\ ObsInit
  /\ ComInit
  /\ GrdInit

\* One component moves, the others keep their initial state.
MCNext ==
  \/ /\ focus = "Ses" /\ Next
     /\ UNCHANGED <<focus, nsVars, obsVars, comVars, grdVars>>
  \/ /\ focus = "Ns" /\ NsNext
     /\ UNCHANGED <<focus, vars, obsVars, comVars, grdVars>>
  \/ /\ focus = "Obs" /\ ObsNext
     /\ UNCHANGED <<focus, vars, nsVars, comVars, grdVars>>
  \/ /\ focus = "Com" /\ ComNext
     /\ UNCHANGED <<focus, vars, nsVars, obsVars, grdVars>>
  \/ /\ focus = "Grd" /\ GrdNext
     /\ UNCHANGED <<focus, vars, nsVars, obsVars, comVars>>

\* The fairness each component's module states, while it is the one that moves.
MCFairness ==
  /\ WF_vars(focus = "Ses" /\ (InstallSteps \/ RemoveSteps))
  /\ WF_vars(focus = "Ses" /\ Start)
  /\ SF_vars(focus = "Ses" /\ (recovery_required /\ Recover))
  /\ WF_obsVars(focus = "Obs" /\ Producer)
  /\ WF_obsVars(focus = "Obs" /\ Relaying)
  /\ WF_comVars(focus = "Com" /\ Runner)
  /\ WF_comVars(focus = "Com" /\ ComWork)
  /\ WF_grdVars(focus = "Grd" /\ Guarding)
  /\ WF_grdVars(focus = "Grd" /\ BcmRuns)

MCSpec == MCInit /\ [][MCNext]_<<focus, vars, nsVars, obsVars, comVars,
  grdVars>> /\ MCFairness

-----------------------------------------------------------------------------
\* However calls and the process fail, the owner comes back to a state in
\* which it may admit again, unless another owner took one of its keys.
MCEventuallyClean == (focus = "Ses") => EventuallyClean

\* "A new complete snapshot is required to recover", and it comes: once
\* nothing changes and fails any more, the owner is ready with the kernel's
\* table under the context now applied.
MCRecovers == (focus = "Obs") => Recovers

\* Every start of the unit ends, whatever the tools meet and whoever holds the
\* table lock: only contention is retried, four times.
MCRunnerEnds == (focus = "Com") => RunnerEnds

\* An owner that makes no progress is stopped, as long as the service restarts
\* its guardian.
MCStalledIsFenced == (focus = "Grd") => StalledIsFenced

\* What the owners of the FE100 come to in the end, each while it is the one
\* that moves.
Fe100Progress ==
  /\ MCEventuallyClean
  /\ MCRecovers
  /\ MCRunnerEnds
  /\ MCStalledIsFenced

=============================================================================
