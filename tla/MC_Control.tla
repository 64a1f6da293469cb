------------------------------- MODULE MC_Control -------------------------------
(*
   Flow admission, and what the host does to the control plane processor.
   The focus of a behaviour says which of them moves; they share no state
   here. *)
EXTENDS Fe100Admission, CpBoot, TLC

VARIABLE focus

\* Bound: the tool without a lock meets one script and its worker.
CpbAlone == cpbTool.pc # "idle" => Cardinality({p \in CpbUps : cpbUp[p].n > 0}) <= 1

Focus == {"Adm", "Cpb"}

MCInit ==
  /\ focus \in Focus
  /\ AdmInit
  /\ CpbInit
  \* a component that never moves needs one initial state only
  /\ focus # "Cpb" => cpbOct.run = "off"

\* One component moves, the others keep their initial state.
MCNext ==
  \/ /\ focus = "Adm" /\ AdmNext
     /\ UNCHANGED <<focus, cpbVars>>
  \/ /\ focus = "Cpb" /\ CpbNext /\ CpbAlone'
     /\ UNCHANGED <<focus, admVars>>

MCSpec == MCInit /\ [][MCNext]_<<focus, admVars, cpbVars>>
\* Sessions, plans and bindings are only compared for equality.
Symmetry == Permutations(AdmSid) \cup Permutations(Plan) \cup Permutations(Bind)

=============================================================================
