----------------------------- MODULE Fe100Proofs -----------------------------
(***************************************************************************)
(* The FE100 session owner, the namespace of its flow IDs and the stream   *)
(* of observed sessions, for every set of sessions, keys and revisions,    *)
(* every flow-ID range, every number of boots, failed transactions,        *)
(* changes, faults and stops.                                              *)
(***************************************************************************)
EXTENDS Fe100Sessions, Fe100FlowNamespace, SessionStream, FfnLemmas

-----------------------------------------------------------------------------
(* The session owner.                                                      *)

Installing == {"add", "update", "commit", "undo", "undone"}
Removing == {"removing", "delete", "forget", "taint"}
Working == Installing \cup Removing

SameRow(a, b) == a.key = b.key /\ a.fid = b.fid /\ a.rev = b.rev

\* Flow IDs in use were handed out, and the pair being installed is new.
IdsHandedOut ==
  /\ \A s \in Sid : journal[s] # NoRow =>
       \A i \in Dir : 1 <= journal[s].fid[i] /\ journal[s].fid[i] < nextFid
  /\ req # NoRow => \A i \in Dir : 1 <= req.fid[i] /\ req.fid[i] < nextFid
  /\ \A s, t \in Sid : journal[s] # NoRow /\ journal[t] # NoRow =>
       \A i, j \in Dir : journal[s].fid[i] = journal[t].fid[j] => s = t /\ i = j
  /\ pc \in {"preflight", "put"} =>
       /\ req.fid[1] # req.fid[2]
       /\ \A s \in Sid : journal[s] # NoRow =>
            \A i, j \in Dir : journal[s].fid[i] # req.fid[j]

\* While the owner runs, memory and journal hold the same sessions (their
\* states may differ after a storage failure).
MemoryMatches ==
  pc # "down" => \A s \in Sid :
    /\ sessions[s] = NoRow <=> journal[s] = NoRow
    /\ journal[s] # NoRow => SameRow(sessions[s], journal[s])

\* The row being worked on is the journalled one; put has none yet.
ReqMatches ==
  /\ pc \in {"preflight", "put"} \cup Working => req # NoRow
  /\ pc \in Working => journal[cur] # NoRow /\ SameRow(journal[cur], req)
  /\ pc = "put" => journal[cur] = NoRow

\* What the two slots of the row being installed can hold.
InstallSlots ==
  /\ pc \in {"put", "add", "update", "commit"} => ~recovery_required
  /\ pc = "put" => \A i \in Dir : hw[req.key[i]].act = "none"
  /\ pc = "add" => \A i \in Dir :
       hw[req.key[i]].act = "none" \/ (i < dir /\ hw[req.key[i]] = Full(req.fid[i]))
  /\ pc = "add" => hw[req.key[dir]].act = "none"
  /\ pc = "update" =>
       /\ hw[req.key[dir]] = Ident(req.fid[dir])
       /\ dir = 1 => hw[req.key[2]].act = "none"
       /\ dir = 2 => hw[req.key[1]] = Full(req.fid[1])
  /\ pc = "add" /\ dir = 2 => hw[req.key[1]] = Full(req.fid[1])
  /\ pc = "commit" => \A i \in Dir : hw[req.key[i]] = Full(req.fid[i])
  /\ pc = "undo" /\ dir = 1 => recovery_required \/ hw[req.key[2]].act = "none"
  /\ pc = "undone" => recovery_required \/ \A i \in Dir : hw[req.key[i]].act = "none"

\* How far a removal is, and that recover() leaves no session behind.
RemovalScope ==
  /\ pc \in {"next"} \cup Removing => \A s \in todo : sessions[s] # NoRow
  /\ pc \in Removing => cur \notin todo
  /\ pc = "delete" /\ dir = 2 => hw[req.key[1]].act = "none"
  /\ pc = "forget" => \A i \in Dir : hw[req.key[i]].act = "none"
  /\ pc = "taint" => recovery_required
  /\ goal = "recover" => pc \in {"next"} \cup Removing /\ recovery_required
  /\ goal = "recover" /\ pc = "next" => \A s \in Sid : sessions[s] # NoRow => s \in todo
  /\ goal = "recover" /\ pc \in Removing =>
       \A s \in Sid : sessions[s] # NoRow => s \in todo \cup {cur}

Forwarding(s) ==
  /\ sessions[s] = journal[s]
  /\ sessions[s].st = "installed"
  /\ \A i \in Dir : hw[sessions[s].key[i]] = Full(sessions[s].fid[i])

\* Without a pending recovery every session but the one being worked on
\* forwards both ways.
OthersForward ==
  pc # "down" /\ ~recovery_required => \A s \in Sid :
    sessions[s] # NoRow /\ (pc \in Working => s # cur) => Forwarding(s)

SesInv ==
  /\ TypeOK /\ IdsHandedOut /\ MemoryMatches /\ ReqMatches
  /\ InstallSlots /\ RemovalScope /\ OthersForward /\ JournalCoversHardware

----------------------------------------------------------------------------
USE NoRowAssumption, FidAssumption, FaultAssumption
USE DEF Goto, GotoDir, Return, Save, Forget, StorageFails, Fault, NoFault,
        Ambiguous, MarkUnknown, UndoNext, BeginRemoval, Held,
        durable, memory, control, Dir, Row, RowState, Pairs,
        Installing, Removing, Working


\* Every step keeps each variable in its type and the cursor in its range.
LEMMA TypeOKStep ==
  ASSUME TypeOK, MemoryMatches, ReqMatches, [Next]_vars
  PROVE  TypeOK'
  <1>. USE DEF TypeOK, MemoryMatches, ReqMatches, Steps, Goals, Slot, Full, Ident, Empty, Foreign
  <1>1. CASE Preflight
    BY <1>1 DEF Preflight
  <1>2. CASE Refuse
    BY <1>2 DEF Refuse
  <1>3. CASE PutIntent
    BY <1>3 DEF PutIntent
  <1>4. CASE PutIntentFails
    BY <1>4 DEF PutIntentFails
  <1>5. CASE FlowAdd
    BY <1>5 DEF FlowAdd
  <1>6. CASE FlowAddFails
    <2>1. hw' \in [Key -> Slot]
      BY <1>6 DEF FlowAddFails
    <2>2. /\ UNCHANGED <<journal, nextFid, failed, cur, req, dir, goal, todo>>
          /\ recovery_required' \in BOOLEAN /\ pc' \in Steps /\ faults' \in Nat
          /\ sessions' \in [Sid -> Row \cup {NoRow}]
      BY <1>6 DEF FlowAddFails
    <2>. QED  BY <2>1, <2>2
  <1>7. CASE FlowUpdate
    BY <1>7 DEF FlowUpdate
  <1>8. CASE FlowUpdateFails
    <2>1. req \in Row /\ Full(req.fid[dir]) \in Slot /\ req.key[dir] \in Key
      BY <1>8 DEF FlowUpdateFails
    <2>2. hw' \in [Key -> Slot]
      BY <1>8, <2>1 DEF FlowUpdateFails
    <2>3. /\ UNCHANGED <<journal, nextFid, sessions, recovery_required, failed, cur,
                          req, dir, goal, todo>>
          /\ pc' \in Steps /\ faults' \in Nat
      BY <1>8 DEF FlowUpdateFails
    <2>. QED  BY <2>2, <2>3
  <1>9. CASE Commit
    BY <1>9 DEF Commit
  <1>10. CASE CommitFails
    BY <1>10 DEF CommitFails
  <1>11. CASE Undo
    BY <1>11 DEF Undo
  <1>12. CASE UndoFails
    BY <1>12 DEF UndoFails
  <1>13. CASE Undone
    <2>0. req \in Row /\ [req EXCEPT !.st = "unknown"] \in Row
      BY <1>13 DEF Undone
    <2>3. PICK v \in Row \cup {NoRow} : /\ journal' = [journal EXCEPT ![cur] = v]
                                       /\ sessions' = [sessions EXCEPT ![cur] = v]
      <3>1. CASE recovery_required
        BY <1>13, <2>0, <3>1 DEF Undone
      <3>2. CASE ~recovery_required
        BY <1>13, <3>2 DEF Undone
      <3>. QED  BY <3>1, <3>2
    <2>1. journal' \in [Sid -> Row \cup {NoRow}] /\ sessions' \in [Sid -> Row \cup {NoRow}]
      BY <2>3
    <2>2. /\ UNCHANGED <<hw, nextFid, recovery_required, failed, cur, faults>>
          /\ pc' = "idle" /\ req' = NoRow /\ dir' = 1 /\ goal' = "none" /\ todo' = {}
      BY <1>13 DEF Undone
    <2>. QED  BY <2>1, <2>2
  <1>14. CASE UndoneFails
    BY <1>14 DEF UndoneFails
  <1>15. CASE \E s \in Sid : RemoveNext(s)
    BY <1>15 DEF RemoveNext
  <1>16. CASE RemovalDone
    <2>1. CASE goal = "recover"
      BY <1>16, <2>1 DEF RemovalDone
    <2>2. CASE goal # "recover"
      BY <1>16, <2>2 DEF RemovalDone
    <2>. QED  BY <2>1, <2>2
  <1>17. CASE MarkRemoving
    BY <1>17 DEF MarkRemoving
  <1>18. CASE MarkRemovingFails
    BY <1>18 DEF MarkRemovingFails
  <1>19. CASE Delete
    BY <1>19 DEF Delete
  <1>20. CASE DeleteConflict
    BY <1>20 DEF DeleteConflict
  <1>21. CASE DeleteFails
    <2>1. hw' \in [Key -> Slot]
      BY <1>21 DEF DeleteFails
    <2>2. /\ UNCHANGED <<journal, nextFid, failed, cur, req, dir, goal, todo>>
          /\ recovery_required' \in BOOLEAN /\ pc' \in Steps /\ faults' \in Nat
          /\ sessions' \in [Sid -> Row \cup {NoRow}]
      BY <1>21 DEF DeleteFails
    <2>. QED  BY <2>1, <2>2
  <1>22. CASE ForgetRow
    BY <1>22 DEF ForgetRow
  <1>23. CASE ForgetRowFails
    BY <1>23 DEF ForgetRowFails
  <1>24. CASE Taint
    BY <1>24 DEF Taint
  <1>25. CASE TaintFails
    BY <1>25 DEF TaintFails
  <1>26. CASE \E s \in Sid, p \in Pairs, r \in Rev : Reserve(s, p, r)
    BY <1>26 DEF Reserve
  <1>27. CASE ReserveFails
    BY <1>27 DEF ReserveFails
  <1>28. CASE \E s \in Sid : Revoke(s)
    BY <1>28 DEF Revoke
  <1>29. CASE Recover
    BY <1>29 DEF Recover
  <1>30. CASE \E r \in Rev : InvalidatePolicy(r)
    BY <1>30 DEF InvalidatePolicy
  <1>31. CASE Crash
    <2>1. sessions' \in [Sid -> Row \cup {NoRow}]
      BY <1>31 DEF Crash
    <2>2. /\ UNCHANGED <<hw, journal, nextFid, cur>>
          /\ recovery_required' = FALSE /\ failed' = FALSE /\ pc' = "down"
          /\ req' = NoRow /\ dir' = 1 /\ goal' = "none" /\ todo' = {}
          /\ faults' \in Nat
      BY <1>31 DEF Crash
    <2>. QED  BY <2>1, <2>2
  <1>32. CASE Start
    BY <1>32 DEF Start
  <1>33. CASE \E k \in Key : ForeignWrite(k)
    BY <1>33 DEF ForeignWrite
  <1>34. CASE TableReset
    BY <1>34 DEF TableReset
  <1>35. CASE UNCHANGED vars
    BY <1>35 DEF vars
  <1>. QED
    BY <1>1, <1>2, <1>3, <1>4, <1>5, <1>6, <1>7, <1>8, <1>9,
       <1>10, <1>11, <1>12, <1>13, <1>14, <1>15, <1>16, <1>17, <1>18,
       <1>19, <1>20, <1>21, <1>22, <1>23, <1>24, <1>25, <1>26, <1>27,
       <1>28, <1>29, <1>30, <1>31, <1>32, <1>33, <1>34, <1>35
    DEF Next, InstallSteps, RemoveSteps, Calls, World

\* Every step keeps flow IDs unique, memory in step with the journal, and the
\* working row in step with its journal row.
LEMMA BookkeepingStep ==
  ASSUME TypeOK, IdsHandedOut, MemoryMatches, ReqMatches, RemovalScope, [Next]_vars
  PROVE  IdsHandedOut' /\ MemoryMatches' /\ ReqMatches'
  <1>. USE DEF TypeOK, IdsHandedOut, MemoryMatches, ReqMatches, RemovalScope, SameRow
  <1>1. CASE Preflight
    BY <1>1 DEF Preflight
  <1>2. CASE Refuse
    BY <1>2 DEF Refuse
  <1>3. CASE PutIntent
    BY <1>3 DEF PutIntent
  <1>4. CASE PutIntentFails
    BY <1>4 DEF PutIntentFails
  <1>5. CASE FlowAdd
    BY <1>5 DEF FlowAdd
  <1>6. CASE FlowAddFails
    BY <1>6 DEF FlowAddFails
  <1>7. CASE FlowUpdate
    BY <1>7 DEF FlowUpdate
  <1>8. CASE FlowUpdateFails
    BY <1>8 DEF FlowUpdateFails
  <1>9. CASE Commit
    BY <1>9 DEF Commit
  <1>10. CASE CommitFails
    BY <1>10 DEF CommitFails
  <1>11. CASE Undo
    BY <1>11 DEF Undo
  <1>12. CASE UndoFails
    BY <1>12 DEF UndoFails
  <1>13. CASE Undone
    <2>1. /\ req \in Row /\ journal[cur] \in Row /\ SameRow(journal[cur], req)
          /\ req' = NoRow /\ pc' = "idle" /\ UNCHANGED nextFid
      BY <1>13 DEF Undone
    <2>2. \/ journal' = [journal EXCEPT ![cur] = NoRow]
             /\ sessions' = [sessions EXCEPT ![cur] = NoRow]
          \/ journal' = [journal EXCEPT ![cur] = [req EXCEPT !.st = "unknown"]]
             /\ sessions' = [sessions EXCEPT ![cur] = [req EXCEPT !.st = "unknown"]]
      BY <1>13 DEF Undone
    <2>3. \A s \in Sid : journal'[s] # NoRow =>
            /\ journal[s] # NoRow
            /\ journal'[s].fid = journal[s].fid
      BY <2>1, <2>2
    <2>4. IdsHandedOut'
      BY <2>1, <2>3
    <2>5. MemoryMatches'
      BY <1>13, <2>1, <2>2 DEF Undone
    <2>. QED  BY <2>1, <2>4, <2>5
  <1>14. CASE UndoneFails
    BY <1>14 DEF UndoneFails
  <1>15. CASE \E s \in Sid : RemoveNext(s)
    BY <1>15 DEF RemoveNext
  <1>16. CASE RemovalDone
    BY <1>16 DEF RemovalDone
  <1>17. CASE MarkRemoving
    BY <1>17 DEF MarkRemoving
  <1>18. CASE MarkRemovingFails
    BY <1>18 DEF MarkRemovingFails
  <1>19. CASE Delete
    BY <1>19 DEF Delete
  <1>20. CASE DeleteConflict
    BY <1>20 DEF DeleteConflict
  <1>21. CASE DeleteFails
    BY <1>21 DEF DeleteFails
  <1>22. CASE ForgetRow
    BY <1>22 DEF ForgetRow
  <1>23. CASE ForgetRowFails
    BY <1>23 DEF ForgetRowFails
  <1>24. CASE Taint
    BY <1>24 DEF Taint
  <1>25. CASE TaintFails
    BY <1>25 DEF TaintFails
  <1>26. CASE \E s \in Sid, p \in Pairs, r \in Rev : Reserve(s, p, r)
    BY <1>26 DEF Reserve
  <1>27. CASE ReserveFails
    BY <1>27 DEF ReserveFails
  <1>28. CASE \E s \in Sid : Revoke(s)
    BY <1>28 DEF Revoke
  <1>29. CASE Recover
    BY <1>29 DEF Recover
  <1>30. CASE \E r \in Rev : InvalidatePolicy(r)
    BY <1>30 DEF InvalidatePolicy
  <1>31. CASE Crash
    BY <1>31 DEF Crash
  <1>32. CASE Start
    BY <1>32 DEF Start
  <1>33. CASE \E k \in Key : ForeignWrite(k)
    BY <1>33 DEF ForeignWrite
  <1>34. CASE TableReset
    BY <1>34 DEF TableReset
  <1>35. CASE UNCHANGED vars
    BY <1>35 DEF vars
  <1>. QED
    BY <1>1, <1>2, <1>3, <1>4, <1>5, <1>6, <1>7, <1>8, <1>9,
       <1>10, <1>11, <1>12, <1>13, <1>14, <1>15, <1>16, <1>17, <1>18,
       <1>19, <1>20, <1>21, <1>22, <1>23, <1>24, <1>25, <1>26, <1>27,
       <1>28, <1>29, <1>30, <1>31, <1>32, <1>33, <1>34, <1>35
    DEF Next, InstallSteps, RemoveSteps, Calls, World

\* Every step keeps what install and remove know of the two slots, and keeps
\* recover() covering all sessions.
LEMMA SlotsStep ==
  ASSUME TypeOK, MemoryMatches, ReqMatches, InstallSlots, RemovalScope, [Next]_vars
  PROVE  InstallSlots' /\ RemovalScope'
  <1>. USE DEF TypeOK, MemoryMatches, ReqMatches, InstallSlots, RemovalScope, SameRow,
               Full, Ident, Empty, Slot, Owned
  <1>1. CASE Preflight
    BY <1>1 DEF Preflight
  <1>2. CASE Refuse
    BY <1>2 DEF Refuse
  <1>3. CASE PutIntent
    BY <1>3 DEF PutIntent
  <1>4. CASE PutIntentFails
    BY <1>4 DEF PutIntentFails
  <1>5. CASE FlowAdd
    BY <1>5 DEF FlowAdd
  <1>6. CASE FlowAddFails
    BY <1>6 DEF FlowAddFails
  <1>7. CASE FlowUpdate
    BY <1>7 DEF FlowUpdate
  <1>8. CASE FlowUpdateFails
    BY <1>8 DEF FlowUpdateFails
  <1>9. CASE Commit
    BY <1>9 DEF Commit
  <1>10. CASE CommitFails
    BY <1>10 DEF CommitFails
  <1>11. CASE Undo
    BY <1>11 DEF Undo
  <1>12. CASE UndoFails
    BY <1>12 DEF UndoFails
  <1>13. CASE Undone
    BY <1>13 DEF Undone
  <1>14. CASE UndoneFails
    BY <1>14 DEF UndoneFails
  <1>15. CASE \E s \in Sid : RemoveNext(s)
    BY <1>15 DEF RemoveNext
  <1>16. CASE RemovalDone
    BY <1>16 DEF RemovalDone
  <1>17. CASE MarkRemoving
    BY <1>17 DEF MarkRemoving
  <1>18. CASE MarkRemovingFails
    BY <1>18 DEF MarkRemovingFails
  <1>19. CASE Delete
    BY <1>19 DEF Delete
  <1>20. CASE DeleteConflict
    BY <1>20 DEF DeleteConflict
  <1>21. CASE DeleteFails
    BY <1>21 DEF DeleteFails
  <1>22. CASE ForgetRow
    BY <1>22 DEF ForgetRow
  <1>23. CASE ForgetRowFails
    BY <1>23 DEF ForgetRowFails
  <1>24. CASE Taint
    BY <1>24 DEF Taint
  <1>25. CASE TaintFails
    BY <1>25 DEF TaintFails
  <1>26. CASE \E s \in Sid, p \in Pairs, r \in Rev : Reserve(s, p, r)
    BY <1>26 DEF Reserve
  <1>27. CASE ReserveFails
    BY <1>27 DEF ReserveFails
  <1>28. CASE \E s \in Sid : Revoke(s)
    BY <1>28 DEF Revoke
  <1>29. CASE Recover
    BY <1>29 DEF Recover
  <1>30. CASE \E r \in Rev : InvalidatePolicy(r)
    BY <1>30 DEF InvalidatePolicy
  <1>31. CASE Crash
    BY <1>31 DEF Crash
  <1>32. CASE Start
    BY <1>32 DEF Start
  <1>33. CASE \E k \in Key : ForeignWrite(k)
    BY <1>33 DEF ForeignWrite
  <1>34. CASE TableReset
    BY <1>34 DEF TableReset
  <1>35. CASE UNCHANGED vars
    BY <1>35 DEF vars
  <1>. QED
    BY <1>1, <1>2, <1>3, <1>4, <1>5, <1>6, <1>7, <1>8, <1>9,
       <1>10, <1>11, <1>12, <1>13, <1>14, <1>15, <1>16, <1>17, <1>18,
       <1>19, <1>20, <1>21, <1>22, <1>23, <1>24, <1>25, <1>26, <1>27,
       <1>28, <1>29, <1>30, <1>31, <1>32, <1>33, <1>34, <1>35
    DEF Next, InstallSteps, RemoveSteps, Calls, World

\* No step disturbs the entries of a session it is not working on.
LEMMA ForwardStep ==
  ASSUME TypeOK, IdsHandedOut, MemoryMatches, ReqMatches, InstallSlots,
         RemovalScope, OthersForward, [Next]_vars
  PROVE  OthersForward'
  <1>. USE DEF TypeOK, IdsHandedOut, MemoryMatches, ReqMatches, InstallSlots, RemovalScope,
               OthersForward, Forwarding, SameRow, Full, Ident, Empty, Slot, Owned
  <1>1. CASE Preflight
    BY <1>1 DEF Preflight
  <1>2. CASE Refuse
    BY <1>2 DEF Refuse
  <1>3. CASE PutIntent
    BY <1>3 DEF PutIntent
  <1>4. CASE PutIntentFails
    BY <1>4 DEF PutIntentFails
  <1>5. CASE FlowAdd
    BY <1>5 DEF FlowAdd
  <1>6. CASE FlowAddFails
    BY <1>6 DEF FlowAddFails
  <1>7. CASE FlowUpdate
    BY <1>7 DEF FlowUpdate
  <1>8. CASE FlowUpdateFails
    BY <1>8 DEF FlowUpdateFails
  <1>9. CASE Commit
    BY <1>9 DEF Commit
  <1>10. CASE CommitFails
    BY <1>10 DEF CommitFails
  <1>11. CASE Undo
    BY <1>11 DEF Undo
  <1>12. CASE UndoFails
    BY <1>12 DEF UndoFails
  <1>13. CASE Undone
    BY <1>13 DEF Undone
  <1>14. CASE UndoneFails
    BY <1>14 DEF UndoneFails
  <1>15. CASE \E s \in Sid : RemoveNext(s)
    BY <1>15 DEF RemoveNext
  <1>16. CASE RemovalDone
    BY <1>16 DEF RemovalDone
  <1>17. CASE MarkRemoving
    BY <1>17 DEF MarkRemoving
  <1>18. CASE MarkRemovingFails
    BY <1>18 DEF MarkRemovingFails
  <1>19. CASE Delete
    BY <1>19 DEF Delete
  <1>20. CASE DeleteConflict
    BY <1>20 DEF DeleteConflict
  <1>21. CASE DeleteFails
    BY <1>21 DEF DeleteFails
  <1>22. CASE ForgetRow
    BY <1>22 DEF ForgetRow
  <1>23. CASE ForgetRowFails
    BY <1>23 DEF ForgetRowFails
  <1>24. CASE Taint
    BY <1>24 DEF Taint
  <1>25. CASE TaintFails
    BY <1>25 DEF TaintFails
  <1>26. CASE \E s \in Sid, p \in Pairs, r \in Rev : Reserve(s, p, r)
    BY <1>26 DEF Reserve
  <1>27. CASE ReserveFails
    BY <1>27 DEF ReserveFails
  <1>28. CASE \E s \in Sid : Revoke(s)
    BY <1>28 DEF Revoke
  <1>29. CASE Recover
    BY <1>29 DEF Recover
  <1>30. CASE \E r \in Rev : InvalidatePolicy(r)
    BY <1>30 DEF InvalidatePolicy
  <1>31. CASE Crash
    BY <1>31 DEF Crash
  <1>32. CASE Start
    <2>. SUFFICES ASSUME ~recovery_required', NEW s \in Sid, sessions'[s] # NoRow
                  PROVE  FALSE
      BY <1>32 DEF Start
    <2>. QED  BY <1>32 DEF Start
  <1>33. CASE \E k \in Key : ForeignWrite(k)
    BY <1>33 DEF ForeignWrite
  <1>34. CASE TableReset
    BY <1>34 DEF TableReset
  <1>35. CASE UNCHANGED vars
    BY <1>35 DEF vars
  <1>. QED
    BY <1>1, <1>2, <1>3, <1>4, <1>5, <1>6, <1>7, <1>8, <1>9,
       <1>10, <1>11, <1>12, <1>13, <1>14, <1>15, <1>16, <1>17, <1>18,
       <1>19, <1>20, <1>21, <1>22, <1>23, <1>24, <1>25, <1>26, <1>27,
       <1>28, <1>29, <1>30, <1>31, <1>32, <1>33, <1>34, <1>35
    DEF Next, InstallSteps, RemoveSteps, Calls, World

\* No step leaves an entry in the table without its journal row.
LEMMA CoverStep ==
  ASSUME TypeOK, ReqMatches, InstallSlots, RemovalScope, JournalCoversHardware, [Next]_vars
  PROVE  JournalCoversHardware'
  <1>. USE DEF TypeOK, ReqMatches, InstallSlots, RemovalScope, JournalCoversHardware, Covers,
               Ours, SameRow, Full, Ident, Empty, Foreign, Slot, Owned
  <1>1. CASE Preflight
    BY <1>1 DEF Preflight
  <1>2. CASE Refuse
    BY <1>2 DEF Refuse
  <1>3. CASE PutIntent
    <2>1. /\ hw' = hw /\ req \in Row
          /\ journal[cur] = NoRow /\ journal' = [journal EXCEPT ![cur] = req]
      BY <1>3 DEF PutIntent
    <2>2. \A s \in Sid : journal[s] # NoRow => journal'[s] = journal[s]
      BY <2>1
    <2>. SUFFICES ASSUME NEW k \in Key, Ours(k)
                  PROVE  \E s \in Sid : Covers(journal'[s], k)
      BY <2>1
    <2>3. PICK s \in Sid : Covers(journal[s], k)
      OBVIOUS
    <2>4. Covers(journal'[s], k)
      BY <2>2, <2>3
    <2>. QED  BY <2>4, Zenon
  <1>4. CASE PutIntentFails
    BY <1>4 DEF PutIntentFails
  <1>5. CASE FlowAdd
    <2>. SUFFICES ASSUME NEW k \in Key, Ours(k)'
                  PROVE  \E s \in Sid : Covers(journal[s], k)'
      OBVIOUS
    <2>1. journal' = journal /\ req.key[dir] \in Key
      BY <1>5 DEF FlowAdd
    <2>2. CASE hw'[k] = hw[k]
      BY <2>1, <2>2
    <2>3. CASE hw'[k] # hw[k]
      <3>1. k = req.key[dir] /\ hw'[k].fid = req.fid[dir]
        BY <1>5, <2>1, <2>3 DEF FlowAdd
      <3>2. Covers(journal[cur], k)'
        BY <1>5, <2>1, <3>1 DEF FlowAdd
      <3>3. cur' \in Sid
        BY <1>5 DEF FlowAdd
      <3>. QED  BY <3>2, <3>3, Zenon
    <2>. QED  BY <2>2, <2>3
  <1>6. CASE FlowAddFails
    <2>. SUFFICES ASSUME NEW k \in Key, Ours(k)'
                  PROVE  \E s \in Sid : Covers(journal[s], k)'
      OBVIOUS
    <2>1. journal' = journal /\ req.key[dir] \in Key
      BY <1>6 DEF FlowAddFails
    <2>2. CASE hw'[k] = hw[k]
      BY <2>1, <2>2
    <2>3. CASE hw'[k] # hw[k]
      <3>1. k = req.key[dir] /\ hw'[k].fid = req.fid[dir]
        BY <1>6, <2>1, <2>3 DEF FlowAddFails
      <3>2. Covers(journal[cur], k)'
        BY <1>6, <2>1, <3>1 DEF FlowAddFails
      <3>3. cur' \in Sid
        BY <1>6 DEF FlowAddFails
      <3>. QED  BY <3>2, <3>3, Zenon
    <2>. QED  BY <2>2, <2>3
  <1>7. CASE FlowUpdate
    <2>. SUFFICES ASSUME NEW k \in Key, Ours(k)'
                  PROVE  \E s \in Sid : Covers(journal[s], k)'
      OBVIOUS
    <2>1. journal' = journal /\ req.key[dir] \in Key
      BY <1>7 DEF FlowUpdate
    <2>2. CASE hw'[k] = hw[k]
      BY <2>1, <2>2
    <2>3. CASE hw'[k] # hw[k]
      <3>1. k = req.key[dir] /\ hw'[k].fid = req.fid[dir]
        BY <1>7, <2>1, <2>3 DEF FlowUpdate
      <3>2. Covers(journal[cur], k)'
        BY <1>7, <2>1, <3>1 DEF FlowUpdate
      <3>3. cur' \in Sid
        BY <1>7 DEF FlowUpdate
      <3>. QED  BY <3>2, <3>3, Zenon
    <2>. QED  BY <2>2, <2>3
  <1>8. CASE FlowUpdateFails
    <2>. SUFFICES ASSUME NEW k \in Key, Ours(k)'
                  PROVE  \E s \in Sid : Covers(journal[s], k)'
      OBVIOUS
    <2>1. journal' = journal /\ req.key[dir] \in Key
      BY <1>8 DEF FlowUpdateFails
    <2>2. CASE hw'[k] = hw[k]
      BY <2>1, <2>2
    <2>3. CASE hw'[k] # hw[k]
      <3>1. k = req.key[dir] /\ hw'[k].fid = req.fid[dir]
        BY <1>8, <2>1, <2>3 DEF FlowUpdateFails
      <3>2. Covers(journal[cur], k)'
        BY <1>8, <2>1, <3>1 DEF FlowUpdateFails
      <3>3. cur' \in Sid
        BY <1>8 DEF FlowUpdateFails
      <3>. QED  BY <3>2, <3>3, Zenon
    <2>. QED  BY <2>2, <2>3
  <1>9. CASE Commit
    <2>1. /\ hw' = hw /\ journal[cur] \in Row /\ req \in Row /\ SameRow(journal[cur], req)
          /\ journal' = [journal EXCEPT ![cur] = [req EXCEPT !.st = "installed"]]
      BY <1>9 DEF Commit
    <2>2. \A s \in Sid : journal[s] # NoRow =>
            /\ journal'[s] # NoRow
            /\ journal'[s].key = journal[s].key
            /\ journal'[s].fid = journal[s].fid
      BY <2>1
    <2>. QED  BY <2>1, <2>2
  <1>10. CASE CommitFails
    BY <1>10 DEF CommitFails
  <1>11. CASE Undo
    BY <1>11 DEF Undo
  <1>12. CASE UndoFails
    BY <1>12 DEF UndoFails
  <1>13. CASE Undone
    <2>1. hw' = hw /\ journal[cur] # NoRow
      BY <1>13 DEF Undone
    <2>2. SUFFICES ASSUME NEW k \in Key, Ours(k)
                   PROVE  \E s \in Sid : Covers(journal'[s], k)
      BY <2>1
    <2>3. PICK s \in Sid : Covers(journal[s], k)
      BY <2>2
    <2>4. CASE s # cur
      BY <1>13, <2>3, <2>4 DEF Undone
    <2>5. CASE s = cur /\ recovery_required
      BY <1>13, <2>3, <2>5 DEF Undone
    <2>6. CASE s = cur /\ ~recovery_required
      BY <1>13, <2>2, <2>3, <2>6 DEF Undone
    <2>. QED  BY <2>4, <2>5, <2>6
  <1>14. CASE UndoneFails
    BY <1>14 DEF UndoneFails
  <1>15. CASE \E s \in Sid : RemoveNext(s)
    BY <1>15 DEF RemoveNext
  <1>16. CASE RemovalDone
    BY <1>16 DEF RemovalDone
  <1>17. CASE MarkRemoving
    BY <1>17 DEF MarkRemoving
  <1>18. CASE MarkRemovingFails
    BY <1>18 DEF MarkRemovingFails
  <1>19. CASE Delete
    BY <1>19 DEF Delete
  <1>20. CASE DeleteConflict
    BY <1>20 DEF DeleteConflict
  <1>21. CASE DeleteFails
    BY <1>21 DEF DeleteFails
  <1>22. CASE ForgetRow
    BY <1>22 DEF ForgetRow
  <1>23. CASE ForgetRowFails
    BY <1>23 DEF ForgetRowFails
  <1>24. CASE Taint
    BY <1>24 DEF Taint
  <1>25. CASE TaintFails
    BY <1>25 DEF TaintFails
  <1>26. CASE \E s \in Sid, p \in Pairs, r \in Rev : Reserve(s, p, r)
    BY <1>26 DEF Reserve
  <1>27. CASE ReserveFails
    BY <1>27 DEF ReserveFails
  <1>28. CASE \E s \in Sid : Revoke(s)
    BY <1>28 DEF Revoke
  <1>29. CASE Recover
    BY <1>29 DEF Recover
  <1>30. CASE \E r \in Rev : InvalidatePolicy(r)
    BY <1>30 DEF InvalidatePolicy
  <1>31. CASE Crash
    BY <1>31 DEF Crash
  <1>32. CASE Start
    BY <1>32 DEF Start
  <1>33. CASE \E k \in Key : ForeignWrite(k)
    BY <1>33 DEF ForeignWrite
  <1>34. CASE TableReset
    BY <1>34 DEF TableReset
  <1>35. CASE UNCHANGED vars
    BY <1>35 DEF vars
  <1>. QED
    BY <1>1, <1>2, <1>3, <1>4, <1>5, <1>6, <1>7, <1>8, <1>9,
       <1>10, <1>11, <1>12, <1>13, <1>14, <1>15, <1>16, <1>17, <1>18,
       <1>19, <1>20, <1>21, <1>22, <1>23, <1>24, <1>25, <1>26, <1>27,
       <1>28, <1>29, <1>30, <1>31, <1>32, <1>33, <1>34, <1>35
    DEF Next, InstallSteps, RemoveSteps, Calls, World

----------------------------------------------------------------------------
\* The first state satisfies the inductive invariant: an empty table and an
\* empty journal.
LEMMA InitSesInv == Init => SesInv
  <1>. SUFFICES ASSUME Init PROVE SesInv
    OBVIOUS
  <1>. USE DEF SesInv, TypeOK, IdsHandedOut, MemoryMatches, ReqMatches, InstallSlots,
               RemovalScope, OthersForward, JournalCoversHardware, Ours, Empty, Slot,
               Steps, Goals
  <1>1. hw \in [Key -> Slot] /\ journal \in [Sid -> Row \cup {NoRow}]
        /\ sessions \in [Sid -> Row \cup {NoRow}]
    BY DEF Init
  <1>2. /\ nextFid = 1 /\ recovery_required = FALSE /\ failed = FALSE /\ pc = "down"
        /\ cur \in Sid /\ req = NoRow /\ dir = 1 /\ goal = "none" /\ todo = {}
        /\ faults = 0
    BY DEF Init
  <1>5. TypeOK
    <2>1. nextFid \in Nat \ {0} /\ nextFid <= LastFid + 1 /\ faults \in Nat
      BY <1>2
    <2>2. /\ recovery_required \in BOOLEAN /\ failed \in BOOLEAN /\ pc \in Steps
          /\ cur \in Sid /\ req \in Row \cup {NoRow} /\ dir \in Dir
          /\ goal \in Goals /\ todo \in SUBSET Sid
      BY <1>2
    <2>. QED  BY <1>1, <2>1, <2>2, Zenon
  <1>3. IdsHandedOut /\ MemoryMatches /\ ReqMatches /\ InstallSlots /\ RemovalScope
        /\ OthersForward
    BY DEF Init
  <1>4. JournalCoversHardware
    BY DEF Init
  <1>. QED  BY <1>3, <1>4, <1>5

\* Every step keeps the inductive invariant.
LEMMA NextSesInv == SesInv /\ [Next]_vars => SesInv'
  BY TypeOKStep, BookkeepingStep, SlotsStep, ForwardStep, CoverStep DEF SesInv

\* A step of the running owner never touches another owner's entry: the
\* flow IDs it checks for are below the cursor, a foreign one is above it.
LEMMA ForeignStep ==
  ASSUME SesInv, [Next]_vars, NEW k \in Key, hw[k] = Foreign, pc # "down"
  PROVE  hw'[k] = Foreign
  <1>. USE DEF SesInv, TypeOK, ReqMatches, InstallSlots, Foreign, Full, Ident, Empty,
               Owned, Slot
  <1>1. req # NoRow => \A i \in Dir : req.fid[i] # LastFid + 1
    BY DEF IdsHandedOut
  <1>2. CASE FlowAdd
    BY <1>2 DEF FlowAdd
  <1>3. CASE FlowAddFails
    BY <1>3 DEF FlowAddFails
  <1>4. CASE FlowUpdate
    BY <1>1, <1>4 DEF FlowUpdate
  <1>5. CASE FlowUpdateFails
    BY <1>1, <1>5 DEF FlowUpdateFails
  <1>6. CASE Undo
    BY <1>1, <1>6 DEF Undo
  <1>7. CASE UndoFails
    BY <1>1, <1>7 DEF UndoFails
  <1>8. CASE Delete
    BY <1>1, <1>8 DEF Delete
  <1>9. CASE DeleteFails
    BY <1>1, <1>9 DEF DeleteFails
  <1>10. CASE UNCHANGED hw
    BY <1>10
  <1>11. \/ FlowAdd \/ FlowAddFails \/ FlowUpdate \/ FlowUpdateFails
         \/ Undo \/ UndoFails \/ Delete \/ DeleteFails \/ UNCHANGED hw
    BY DEF Next, InstallSteps, RemoveSteps, Calls, World, Preflight, Refuse, PutIntent,
           PutIntentFails, Commit, CommitFails, Undone, UndoneFails, RemoveNext,
           RemovalDone, MarkRemoving, MarkRemovingFails, DeleteConflict, ForgetRow,
           ForgetRowFails, Taint, TaintFails, Reserve, ReserveFails, Revoke, Recover,
           InvalidatePolicy, Crash, Start, ForeignWrite, TableReset, vars
  <1>. QED
    BY <1>2, <1>3, <1>4, <1>5, <1>6, <1>7, <1>8, <1>9, <1>10, <1>11

\* An idle owner that is not in recovery forwards all it holds.
LEMMA IInvSteady == SesInv => SteadyPairs
  <1>. SUFFICES ASSUME SesInv, pc = "idle", ~recovery_required
                PROVE  /\ sessions = journal
                       /\ \A s \in Sid : sessions[s] # NoRow => Forwarding(s)
                       /\ \A k \in Key : Ours(k) => \E s \in Sid : Covers(sessions[s], k)
    BY DEF SteadyPairs, Forwarding
  <1>. USE DEF SesInv, TypeOK
  <1>1. \A s \in Sid : sessions[s] # NoRow => Forwarding(s)
    BY DEF OthersForward
  <1>2. ASSUME NEW s \in Sid PROVE sessions[s] = journal[s]
    <2>1. CASE sessions[s] = NoRow
      BY <2>1 DEF MemoryMatches
    <2>2. CASE sessions[s] # NoRow
      BY <1>1, <2>2 DEF Forwarding
    <2>. QED  BY <2>1, <2>2
  <1>3. sessions = journal
    BY <1>2
  <1>. QED  BY <1>1, <1>3 DEF JournalCoversHardware

\* Flow IDs are unique in the table because they are in the journal.
LEMMA IInvUnique == SesInv => FlowIdsUnique
  <1>. SUFFICES ASSUME SesInv PROVE FlowIdsUnique
    OBVIOUS
  <1>. USE DEF SesInv, TypeOK, IdsHandedOut, JournalCoversHardware
  <1>1. \A k, l \in Key : Ours(k) /\ Ours(l) /\ hw[k].fid = hw[l].fid => k = l
    <2>. SUFFICES ASSUME NEW k \in Key, NEW l \in Key, Ours(k), Ours(l),
                         hw[k].fid = hw[l].fid
                  PROVE  k = l
      OBVIOUS
    <2>1. PICK s \in Sid : Covers(journal[s], k)
      OBVIOUS
    <2>2. PICK t \in Sid : Covers(journal[t], l)
      OBVIOUS
    <2>. QED  BY <2>1, <2>2 DEF Covers
  <1>. QED  BY <1>1 DEF FlowIdsUnique

----------------------------------------------------------------------------
\* The inductive invariant holds in every reachable state of SessionManager.
THEOREM Inductive == Spec => []SesInv
  BY InitSesInv, NextSesInv, PTL DEF Spec

\* TypeOK: variables keep their types and FlowIds' cursor never leaves the
\* commissioned range.
THEOREM TypeCorrect == Spec => []TypeOK
  <1>1. SesInv => TypeOK
    BY DEF SesInv
  <1>. QED  BY Inductive, <1>1, PTL

\* JournalCoversHardware: whatever fails and wherever the process stops, no
\* table entry of this owner lacks its journal row.
THEOREM WriteIntentDurable == Spec => []JournalCoversHardware
  <1>1. SesInv => JournalCoversHardware
    BY DEF SesInv
  <1>. QED  BY Inductive, <1>1, PTL

\* SteadyPairs: an owner that is idle and not in recovery holds exactly the
\* sessions that are installed and forwarding in both directions.
THEOREM SteadyState == Spec => []SteadyPairs
  BY Inductive, IInvSteady, PTL

\* FlowIdsUnique: a hardware flow ID names one journalled direction and one
\* table entry.
THEOREM FlowIdsNeverShared == Spec => []FlowIdsUnique
  BY Inductive, IInvUnique, PTL

\* ForeignPreserved: nothing the running owner does, its failure paths and
\* recovery included, changes another owner's entry.
THEOREM ForeignUntouched == Spec => ForeignPreserved
  <1>. DEFINE Safe == \A k \in Key : hw[k] = Foreign /\ pc # "down" => hw'[k] = Foreign
  <1>1. SesInv /\ [Next]_vars => [Safe]_vars
    BY ForeignStep
  <1>. HIDE DEF Safe
  <1>2. Spec => [][Safe]_vars
    BY Inductive, <1>1, PTL DEF Spec
  <1>. QED  BY <1>2 DEF Safe, ForeignPreserved
\* SessionsSafe: everything the runs check of every state of the session owner.
THEOREM SessionsAlwaysSafe == Spec => []SessionsSafe
  <1>1. SessionsSafe <=> TypeOK /\ JournalCoversHardware /\ SteadyPairs /\ FlowIdsUnique
    BY DEF SessionsSafe
  <1>. QED
    BY <1>1, TypeCorrect, WriteIntentDurable, SteadyState, FlowIdsNeverShared, PTL

-----------------------------------------------------------------------------
(* The namespace: flow IDs are never handed out twice in a boot, and       *)
(* retired generations account for theirs.                                 *)

USE RangeAssumption, NsBoundAssumption, NsNoneAssumption

\* The journal starts empty.
LEMMA NsInitIInv == NsInit => IInv
  BY DEF NsInit, IInv, NsTypeOK, JournaledTogether, IssuedUnderGeneration, ArchiveAccounts,
         PairsDisjoint, NsBoot, Counter, Ids

\* Steps that move neither the journal nor the boot nor what was issued.
LEMMA QuietStep ==
  ASSUME IInv, UNCHANGED <<boot, nsDurable, issued>>,
         nsPc' \in {"down", "idle", "rollover", "journal", "initialize"},
         allocator' \in {"none", "usable", "failed"}, nsFaults' \in 0 .. NsMaxFaults,
         JournaledTogether'
  PROVE  IInv'
  BY DEF IInv, NsTypeOK, IssuedUnderGeneration, ArchiveAccounts, PairsDisjoint, nsDurable

\* A fault stays within its bound.
LEMMA FaultBound == ASSUME NsTypeOK, NsFault PROVE nsFaults' \in 0 .. NsMaxFaults
  BY DEF NsTypeOK, NsFault

\* Rolling the namespace over keeps the account of what the old one issued.
LEMMA RolloverStep == ASSUME IInv, Rollover PROVE IInv'
<1> USE DEF IInv, Rollover
<1> DEFINE new == [boot |-> generation, next |-> IF ids = None THEN None ELSE ids.next]
<1>1. generation \in NsBoot /\ generation # boot
  BY DEF NsTypeOK, JournaledTogether
<1>2. new \in [boot : NsBoot, next : Counter \cup {None}]
  BY <1>1 DEF NsTypeOK, Ids
<1>3. NsTypeOK'
  BY <1>2 DEF NsTypeOK
<1>4. JournaledTogether'
  BY DEF JournaledTogether, NsTypeOK
<1>5. IssuedUnderGeneration'
  BY <1>1 DEF IssuedUnderGeneration, NsTypeOK, NsBoot
<1>6. ArchiveAccounts'
  <2> SUFFICES ASSUME NEW p \in issued
               PROVE  \E a \in archive' : a.boot = p.boot /\ a.next # None /\ p.id + 1 < a.next
    BY DEF ArchiveAccounts
  <2>1. CASE p.boot = generation
    <3>1. ids # None /\ ids \in Ids /\ p.id + 1 < ids.next
      BY <2>1 DEF IssuedUnderGeneration, NsTypeOK
    <3>2. new.boot = p.boot /\ new.next = ids.next /\ new.next # None
      BY <2>1, <3>1 DEF Ids, Counter
    <3>3. new \in archive'
      OBVIOUS
    <3> HIDE DEF new
    <3> QED BY <3>1, <3>2, <3>3
  <2>2. CASE p.boot # generation
    BY <2>2 DEF ArchiveAccounts
  <2> QED BY <2>1, <2>2
<1>7. PairsDisjoint'
  BY DEF PairsDisjoint
<1> QED BY <1>3, <1>4, <1>5, <1>6, <1>7

\* The generation of this boot starts with nothing issued under it.
LEMMA JournalStep == ASSUME IInv, JournalGeneration PROVE IInv'
<1> USE DEF IInv, JournalGeneration
<1>1. generation = None /\ boot \in NsBoot /\ boot # None /\ ids = None
  BY DEF JournaledTogether, NsTypeOK, Ids, NsBoot
<1>2. \A p \in issued : p.boot # boot
  BY <1>1 DEF IssuedUnderGeneration
<1>3. NsTypeOK'
  BY <1>1 DEF NsTypeOK
<1>4. JournaledTogether'
  BY <1>1 DEF JournaledTogether
<1>5. IssuedUnderGeneration'
  BY <1>1, <1>2 DEF IssuedUnderGeneration
<1>6. ArchiveAccounts'
  <2>1. \A p \in issued : p.boot # generation
    BY <1>1 DEF NsTypeOK, NsBoot
  <2> QED BY <1>1, <1>2, <2>1 DEF ArchiveAccounts
<1>7. PairsDisjoint'
  BY DEF PairsDisjoint
<1> QED BY <1>3, <1>4, <1>5, <1>6, <1>7

\* A fresh counter is above everything issued under its generation: nothing.
LEMMA InitializeStep == ASSUME IInv, Initialize PROVE IInv'
<1> USE DEF IInv, Initialize
<1>1. generation = boot /\ boot \in NsBoot
  BY DEF JournaledTogether, NsTypeOK
<1>2. ids' \in Ids /\ ids' # None /\ ids'.boot = boot
  BY <1>1 DEF Ids, Counter, NsBoot
<1>3. NsTypeOK'
  BY <1>2 DEF NsTypeOK
<1>4. JournaledTogether'
  BY <1>1, <1>2 DEF JournaledTogether
<1>5. \A p \in issued : p.boot # generation
  BY DEF IssuedUnderGeneration
<1>6. IssuedUnderGeneration'
  BY <1>1, <1>5 DEF IssuedUnderGeneration
<1>7. ArchiveAccounts' /\ PairsDisjoint'
  BY DEF ArchiveAccounts, PairsDisjoint
<1> QED BY <1>3, <1>4, <1>6, <1>7

\* A reserved pair lies above all earlier pairs of its boot and below the
\* advanced counter.
LEMMA ReserveStep == ASSUME IInv, NsReserve PROVE IInv'
<1> USE DEF IInv, NsReserve
<1> DEFINE new == [boot |-> boot, id |-> ids.next]
<1>1. ids \in Ids /\ ids # None /\ ids.boot = boot /\ generation = boot /\ boot \in NsBoot
  BY DEF JournaledTogether, NsTypeOK
<1>2. ids.next \in First .. Last - 1 /\ ids.next \in Int
  BY <1>1 DEF Ids, Counter
<1>3. ids' \in Ids /\ ids' # None /\ ids'.boot = boot /\ ids'.next = ids.next + 2
  BY <1>1, <1>2 DEF Ids, Counter, NsBoot
<1>4. NsTypeOK'
  BY <1>1, <1>2, <1>3 DEF NsTypeOK
<1>5. JournaledTogether'
  BY <1>1, <1>3 DEF JournaledTogether
<1>6. \A p \in issued : p.boot = boot => p.id + 1 < ids.next
  BY <1>1 DEF IssuedUnderGeneration
<1>7. \A p \in issued : p.id \in Int
  BY DEF NsTypeOK
<1>8. IssuedUnderGeneration'
  BY <1>1, <1>2, <1>3, <1>6, <1>7 DEF IssuedUnderGeneration, NsBoot
<1>9. ArchiveAccounts'
  BY <1>1 DEF ArchiveAccounts
<1>10. PairsDisjoint'
  BY <1>2, <1>6, <1>7 DEF PairsDisjoint
<1> QED BY <1>4, <1>5, <1>8, <1>9, <1>10

\* A new boot has issued nothing yet.
LEMMA RebootStep == ASSUME IInv, NsReboot PROVE IInv'
<1> USE DEF IInv, NsReboot, nsDurable
<1>1. NsTypeOK'
  BY DEF NsTypeOK, NsBoot
<1>2. JournaledTogether'
  BY DEF JournaledTogether
<1>3. IssuedUnderGeneration'
  BY DEF IssuedUnderGeneration, NsTypeOK, NsBoot
<1>4. ArchiveAccounts' /\ PairsDisjoint'
  BY DEF ArchiveAccounts, PairsDisjoint
<1> QED BY <1>1, <1>2, <1>3, <1>4

\* The invariant is inductive: one step per action.
THEOREM NsInductive == NsSpec => []IInv
<1>1. IInv /\ [NsNext]_nsVars => IInv'
  <2> SUFFICES ASSUME IInv, [NsNext]_nsVars PROVE IInv'
    OBVIOUS
  <2>0. NsTypeOK /\ JournaledTogether
    BY DEF IInv
  <2>1. CASE Resume
    BY <2>0, <2>1, QuietStep DEF Resume, NsTypeOK, JournaledTogether, nsDurable
  <2>2. CASE Probe
    BY <2>0, <2>2, QuietStep DEF Probe, NsTypeOK, JournaledTogether, nsDurable
  <2>3. CASE StepFails
    <3>1. JournaledTogether'
      BY <2>0, <2>3 DEF StepFails, Abandon, JournaledTogether, nsDurable
    <3> QED BY <2>0, <2>3, <3>1, FaultBound, QuietStep DEF StepFails, Abandon, NsTypeOK
  <2>4. CASE Exhaust \/ NsReserveFails
    <3>1. nsFaults' \in 0 .. NsMaxFaults
      BY <2>0, <2>4, FaultBound DEF Exhaust, NsReserveFails, NsTypeOK
    <3> QED BY <2>0, <2>4, <3>1, QuietStep DEF Exhaust, NsReserveFails, NsTypeOK, JournaledTogether, nsDurable
  <2>5. CASE Stop
    <3>1. nsFaults' \in 0 .. NsMaxFaults
      BY <2>0, <2>5, FaultBound DEF Stop
    <3> QED BY <2>0, <2>5, <3>1, QuietStep DEF Stop, JournaledTogether, nsDurable
  <2>6. CASE Restart
    BY <2>0, <2>6, QuietStep DEF Restart, NsTypeOK, JournaledTogether, nsDurable
  <2>7. CASE UNCHANGED nsVars
    BY <2>0, <2>7, QuietStep DEF nsVars, NsTypeOK, JournaledTogether, nsDurable
  <2> QED
    BY <2>1, <2>2, <2>3, <2>4, <2>5, <2>6, <2>7, RolloverStep, JournalStep, InitializeStep,
       ReserveStep, RebootStep DEF NsNext, Ensure
<1> QED BY <1>1, NsInitIInv, PTL DEF NsSpec

\* The journal keeps its shape through failed transactions, stops and boots.
THEOREM NsTypeCorrect == NsSpec => []NsTypeOK
<1>1. IInv => NsTypeOK
  BY DEF IInv
<1> QED BY <1>1, NsInductive, PTL

\* No pair of flow IDs can be handed out twice in one boot.
THEOREM FlowIdsNeverReused == NsSpec => []NeverReused
<1>1. IInv => NeverReused
  BY DEF IInv, NsTypeOK, JournaledTogether, IssuedUnderGeneration, NeverReused
<1> QED BY <1>1, NsInductive, PTL

\* Every retired generation's archive row accounts for the IDs it handed out.
THEOREM RetiredGenerationsAccounted == NsSpec => []ArchiveAccounts
<1>1. IInv => ArchiveAccounts
  BY DEF IInv
<1> QED BY <1>1, NsInductive, PTL

\* Pairs of one boot never overlap.
THEOREM PairsNeverOverlap == NsSpec => []PairsDisjoint
<1>1. IInv => PairsDisjoint
  BY DEF IInv
<1> QED BY <1>1, NsInductive, PTL
\* NsSafe: everything the runs check of every state of the namespace.
THEOREM NamespaceAlwaysSafe == NsSpec => []NsSafe
<1>1. NsSafe <=> NsTypeOK /\ NeverReused /\ ArchiveAccounts /\ PairsDisjoint
  BY DEF NsSafe
<1> QED BY <1>1, NsTypeCorrect, FlowIdsNeverReused, RetiredGenerationsAccounted, PairsNeverOverlap, PTL

-----------------------------------------------------------------------------
(* The observation stream.  Events and frames are folded one by one.       *)
SpeakStep == [x \in Table \X ObsEvent |-> Speaks(x[1], x[2])]
AcceptStep == [x \in Receivers \X Frames |-> Accept(x[1], x[2])]

LEMMA SpeaksType ==
  ASSUME NEW t \in Table, NEW e \in ObsEvent
  PROVE  /\ Speaks(t, e) \in Table
         /\ \A i \in ObsId : Speaks(t, e)[i] = IF i # e.id THEN t[i]
                                              ELSE IF e.v = 0 \/ (~e.tok /\ t[i] = 0) THEN 0 ELSE e.v
<1>1. e.id \in ObsId /\ e.v \in 0 .. ObsVersion /\ 0 \in 0 .. ObsVersion
  BY ObsBoundAssumption DEF ObsEvent
<1> QED BY <1>1 DEF Speaks, Table

LEMMA NoRowsType == NoRows \in Table /\ Fresh \in Receivers
<1>1. 0 \in 0 .. ObsVersion
  BY ObsBoundAssumption
<1>2. NoRows \in Table
  BY <1>1 DEF NoRows, Table
<1> QED BY <1>2 DEF Fresh, Receivers, Contexts

LEMMA FrameType ==
  ASSUME NEW f \in Frames
  PROVE  /\ f.stream \in Nat /\ f.seq \in Nat /\ f.ctx \in Contexts
         /\ f.op \in {"begin", "snapshot", "synchronized", "changes", "unavailable"}
         /\ \A i \in ObsId : i \in DOMAIN f.rows => f.rows[i] \in 0 .. ObsVersion
         /\ f # None
<1>1. f.rows \in UNION {[I -> 0 .. ObsVersion] : I \in SUBSET ObsId}
  BY DEF Frames
<1>2. PICK I \in SUBSET ObsId : f.rows \in [I -> 0 .. ObsVersion]
  BY <1>1
<1>3. \A i \in ObsId : i \in DOMAIN f.rows => f.rows[i] \in 0 .. ObsVersion
  BY <1>2
<1>4. f # None
  BY ObsNoneAssumption
<1> QED BY <1>3, <1>4 DEF Frames

LEMMA MergeType ==
  ASSUME NEW t \in Table, NEW f \in Frames
  PROVE  Merge(t, f.rows) \in Table
BY FrameType DEF Merge, Table

LEMMA AcceptType ==
  ASSUME NEW r \in Receivers, NEW f \in Frames
  PROVE  /\ Accept(r, f) \in Receivers
         /\ f.op = "unavailable" => Accept(r, f) = Fresh
         /\ f.op = "begin" => Accept(r, f) = [stream |-> f.stream, seq |-> 1, sess |-> NoRows, ready |-> FALSE, ctx |-> f.ctx]
         /\ f.op = "synchronized" => Accept(r, f) = [r EXCEPT !.seq = f.seq, !.ready = TRUE]
         /\ f.op \in {"snapshot", "changes"} => Accept(r, f) = [r EXCEPT !.seq = f.seq, !.sess = Merge(r.sess, f.rows)]
<1>1. Fresh \in Receivers /\ NoRows \in Table
  BY NoRowsType
<1>2. /\ f.stream \in Nat /\ f.seq \in Nat /\ f.ctx \in Contexts
      /\ f.op \in {"begin", "snapshot", "synchronized", "changes", "unavailable"}
  BY FrameType
<1>3. r.sess \in Table /\ Merge(r.sess, f.rows) \in Table
  BY MergeType DEF Receivers
<1>4. CASE f.op = "unavailable"
  BY <1>1, <1>4 DEF Accept
<1>5. CASE f.op = "begin"
  <2>1. Accept(r, f) = [stream |-> f.stream, seq |-> 1, sess |-> NoRows, ready |-> FALSE, ctx |-> f.ctx]
    BY <1>5 DEF Accept, Fresh
  <2> QED BY <1>1, <1>2, <1>5, <2>1 DEF Receivers
<1>6. CASE f.op = "synchronized"
  <2>1. Accept(r, f) = [r EXCEPT !.seq = f.seq, !.ready = TRUE]
    BY <1>6 DEF Accept
  <2> QED BY <1>2, <1>6, <2>1 DEF Receivers
<1>7. CASE f.op \in {"snapshot", "changes"}
  <2>1. Accept(r, f) = [r EXCEPT !.seq = f.seq, !.sess = Merge(r.sess, f.rows)]
    BY <1>7 DEF Accept
  <2> QED BY <1>2, <1>3, <1>7, <2>1 DEF Receivers
<1> QED BY <1>2, <1>4, <1>5, <1>6, <1>7

LEMMA ApplyIs ==
  ASSUME NEW t \in Table, NEW es \in Seq(ObsEvent)
  PROVE  /\ FoldArgs(Table, ObsEvent, SpeakStep, t, es)
         /\ ApplyEvents(t, es) = FoldOf(SpeakStep, t, es)
         /\ ApplyEvents(t, es) \in Table
<1> DEFINE M == Len(es)
           Is(f) == f = [n \in 0 .. M |-> IF n = 0 THEN t ELSE Speaks(f[n - 1], es[n])]
           A == CHOOSE f : Is(f)
           W == Foldings(SpeakStep, t, es)
<1>1. FoldArgs(Table, ObsEvent, SpeakStep, t, es)
  BY SpeaksType DEF FoldArgs, SpeakStep
<1>2. M \in Nat /\ \A n \in 1 .. M : es[n] \in ObsEvent
  OBVIOUS
<1>3. W \in [0 .. M -> Table] /\ W[0] = t /\ \A n \in 1 .. M : W[n] = SpeakStep[<<W[n - 1], es[n]>>]
  BY <1>1, FoldSteps
<1> HIDE DEF M, W
<1>4. ASSUME NEW n \in 0 .. M PROVE W[n] = IF n = 0 THEN t ELSE Speaks(W[n - 1], es[n])
  <2>1. CASE n # 0
    <3>1. n \in 1 .. M /\ n - 1 \in 0 .. M
      BY <1>2, <2>1
    <3>2. W[n - 1] \in Table /\ es[n] \in ObsEvent
      BY <1>2, <1>3, <3>1
    <3> QED BY <1>3, <2>1, <3>1, <3>2 DEF SpeakStep
  <2> QED BY <1>3, <2>1
<1>5. Is(W)
  BY <1>3, <1>4
<1>6. Is(A)
  <2> HIDE DEF Is
  <2> QED BY <1>5
<1>7. ApplyEvents(t, es) = A[M]
  BY DEF ApplyEvents, M
<1> HIDE DEF A
<1> DEFINE S == {n \in 0 .. M : A[n] = W[n]}
<1>8. 0 \in S
  BY <1>2, <1>3, <1>6
<1>9. ASSUME NEW n \in Nat, n \in S, n < M PROVE n + 1 \in S
  <2>1. n + 1 \in 0 .. M /\ n + 1 # 0 /\ (n + 1) - 1 = n
    BY <1>2, <1>9
  <2>2. W[n + 1] = Speaks(W[n], es[n + 1]) /\ A[n + 1] = Speaks(A[n], es[n + 1])
    BY <1>4, <1>6, <2>1
  <2> QED BY <1>9, <2>1, <2>2
<1>10. \A n \in 0 .. M : n \in S
  <2> HIDE DEF S
  <2> QED BY <1>2, <1>8, <1>9, Inducts
<1>11. A[M] = W[M] /\ M \in 0 .. M
  BY <1>2, <1>10
<1> QED BY <1>1, <1>3, <1>7, <1>11 DEF FoldOf, M, W

LEMMA AcceptAllIs ==
  ASSUME NEW r \in Receivers, NEW fs \in Seq(Frames)
  PROVE  /\ FoldArgs(Receivers, Frames, AcceptStep, r, fs)
         /\ AcceptAll(r, fs) = FoldOf(AcceptStep, r, fs)
         /\ AcceptAll(r, fs) \in Receivers
<1> DEFINE M == Len(fs)
           Is(f) == f = [n \in 0 .. M |-> IF n = 0 THEN r ELSE Accept(f[n - 1], fs[n])]
           A == CHOOSE f : Is(f)
           W == Foldings(AcceptStep, r, fs)
<1>1. FoldArgs(Receivers, Frames, AcceptStep, r, fs)
  BY AcceptType DEF FoldArgs, AcceptStep
<1>2. M \in Nat /\ \A n \in 1 .. M : fs[n] \in Frames
  OBVIOUS
<1>3. W \in [0 .. M -> Receivers] /\ W[0] = r /\ \A n \in 1 .. M : W[n] = AcceptStep[<<W[n - 1], fs[n]>>]
  BY <1>1, FoldSteps
<1> HIDE DEF M, W
<1>4. ASSUME NEW n \in 0 .. M PROVE W[n] = IF n = 0 THEN r ELSE Accept(W[n - 1], fs[n])
  <2>1. CASE n # 0
    <3>1. n \in 1 .. M /\ n - 1 \in 0 .. M
      BY <1>2, <2>1
    <3>2. W[n - 1] \in Receivers /\ fs[n] \in Frames
      BY <1>2, <1>3, <3>1
    <3> QED BY <1>3, <2>1, <3>1, <3>2 DEF AcceptStep
  <2> QED BY <1>3, <2>1
<1>5. Is(W)
  BY <1>3, <1>4
<1>6. Is(A)
  <2> HIDE DEF Is
  <2> QED BY <1>5
<1>7. AcceptAll(r, fs) = A[M]
  BY DEF AcceptAll, M
<1> HIDE DEF A
<1> DEFINE S == {n \in 0 .. M : A[n] = W[n]}
<1>8. 0 \in S
  BY <1>2, <1>3, <1>6
<1>9. ASSUME NEW n \in Nat, n \in S, n < M PROVE n + 1 \in S
  <2>1. n + 1 \in 0 .. M /\ n + 1 # 0 /\ (n + 1) - 1 = n
    BY <1>2, <1>9
  <2>2. W[n + 1] = Accept(W[n], fs[n + 1]) /\ A[n + 1] = Accept(A[n], fs[n + 1])
    BY <1>4, <1>6, <2>1
  <2> QED BY <1>9, <2>1, <2>2
<1>10. \A n \in 0 .. M : n \in S
  <2> HIDE DEF S
  <2> QED BY <1>2, <1>8, <1>9, Inducts
<1>11. A[M] = W[M] /\ M \in 0 .. M
  BY <1>2, <1>10
<1> QED BY <1>1, <1>3, <1>7, <1>11 DEF FoldOf, M, W

LEMMA ApplyNone == ASSUME NEW t \in Table PROVE ApplyEvents(t, <<>>) = t
<1>1. <<>> \in Seq(ObsEvent)
  OBVIOUS
<1> QED BY <1>1, ApplyIs, FoldNone

LEMMA ApplyAppend ==
  ASSUME NEW t \in Table, NEW es \in Seq(ObsEvent), NEW e \in ObsEvent
  PROVE  ApplyEvents(t, Append(es, e)) = Speaks(ApplyEvents(t, es), e)
<1> DEFINE fs == Append(es, e)
           v == ApplyEvents(t, es)
<1>1. fs \in Seq(ObsEvent)
  OBVIOUS
<1>2. ApplyEvents(t, fs) = FoldOf(SpeakStep, t, fs)
  BY <1>1, ApplyIs
<1>3. FoldOf(SpeakStep, t, es) = v /\ v \in Table
  BY ApplyIs
<1>4. FoldOf(SpeakStep, t, fs) = SpeakStep[<<FoldOf(SpeakStep, t, es), e>>]
  <2>1. FoldArgs(Table, ObsEvent, SpeakStep, t, es)
    BY ApplyIs
  <2> QED BY <2>1, FoldAppend
<1> HIDE DEF fs, v
<1>5. SpeakStep[<<v, e>>] = Speaks(v, e)
  BY <1>3 DEF SpeakStep
<1> QED BY <1>2, <1>3, <1>4, <1>5 DEF fs, v

LEMMA ApplySplit ==
  ASSUME NEW t \in Table, NEW es \in Seq(ObsEvent), NEW k \in 0 .. Len(es)
  PROVE  LET b == ApplyEvents(t, SubSeq(es, 1, k))
             fs == SubSeq(es, k + 1, Len(es))
         IN  b \in Table /\ fs \in Seq(ObsEvent) /\ ApplyEvents(t, es) = ApplyEvents(b, fs)
<1> DEFINE gs == SubSeq(es, 1, k)
           fs == SubSeq(es, k + 1, Len(es))
           b == ApplyEvents(t, gs)
<1>1. gs \in Seq(ObsEvent) /\ fs \in Seq(ObsEvent)
  OBVIOUS
<1>2. b \in Table /\ b = FoldOf(SpeakStep, t, gs)
  BY <1>1, ApplyIs
<1>3. FoldOf(SpeakStep, t, es) = FoldOf(SpeakStep, FoldOf(SpeakStep, t, SubSeq(es, 1, k)), SubSeq(es, k + 1, Len(es)))
  <2>1. FoldArgs(Table, ObsEvent, SpeakStep, t, es)
    BY ApplyIs
  <2> QED BY <2>1, FoldSplit
<1>4. ApplyEvents(t, es) = FoldOf(SpeakStep, t, es)
  BY ApplyIs
<1>5. ApplyEvents(b, fs) = FoldOf(SpeakStep, b, fs)
  BY <1>1, <1>2, ApplyIs
<1> QED BY <1>1, <1>2, <1>3, <1>4, <1>5

\* The events of one identity decide its row; whether there is one at the end
\* depends on whether there was one.
LEMMA ApplyPoint ==
  ASSUME NEW t \in Table, NEW u \in Table, NEW es \in Seq(ObsEvent), NEW i \in ObsId
  PROVE  /\ t[i] = u[i] => ApplyEvents(t, es)[i] = ApplyEvents(u, es)[i]
         /\ (t[i] = 0 <=> u[i] = 0) => (ApplyEvents(t, es)[i] = 0 <=> ApplyEvents(u, es)[i] = 0)
         /\ (\A k \in 1 .. Len(es) : es[k].id # i \/ (t[i] = 0 /\ ~es[k].tok)) => ApplyEvents(t, es)[i] = t[i]
<1> DEFINE M == Len(es)
           V == Foldings(SpeakStep, t, es)
           W == Foldings(SpeakStep, u, es)
<1>1. FoldArgs(Table, ObsEvent, SpeakStep, t, es) /\ FoldArgs(Table, ObsEvent, SpeakStep, u, es)
  BY ApplyIs
<1>2. M \in Nat /\ \A n \in 1 .. M : es[n] \in ObsEvent
  OBVIOUS
<1>3. V \in [0 .. M -> Table] /\ V[0] = t /\ \A n \in 1 .. M : V[n] = SpeakStep[<<V[n - 1], es[n]>>]
  BY <1>1, FoldSteps
<1>4. W \in [0 .. M -> Table] /\ W[0] = u /\ \A n \in 1 .. M : W[n] = SpeakStep[<<W[n - 1], es[n]>>]
  BY <1>1, FoldSteps
<1>5. ApplyEvents(t, es) = V[M] /\ ApplyEvents(u, es) = W[M]
  BY ApplyIs DEF FoldOf
<1> HIDE DEF M, V, W
<1>6. ASSUME NEW n \in Nat, n < M
      PROVE  LET e == es[n + 1]
             IN  /\ e \in ObsEvent /\ n + 1 \in 1 .. M
                 /\ V[n + 1][i] = IF i # e.id THEN V[n][i] ELSE IF e.v = 0 \/ (~e.tok /\ V[n][i] = 0) THEN 0 ELSE e.v
                 /\ W[n + 1][i] = IF i # e.id THEN W[n][i] ELSE IF e.v = 0 \/ (~e.tok /\ W[n][i] = 0) THEN 0 ELSE e.v
  <2>1. n + 1 \in 1 .. M /\ (n + 1) - 1 = n /\ n \in 0 .. M
    BY <1>2, <1>6
  <2>2. es[n + 1] \in ObsEvent /\ V[n] \in Table /\ W[n] \in Table
    BY <1>2, <1>3, <1>4, <2>1
  <2>3. V[n + 1] = Speaks(V[n], es[n + 1]) /\ W[n + 1] = Speaks(W[n], es[n + 1])
    <3>1. V[n + 1] = SpeakStep[<<V[n], es[n + 1]>>] /\ W[n + 1] = SpeakStep[<<W[n], es[n + 1]>>]
      BY <1>3, <1>4, <2>1
    <3> QED BY <2>2, <3>1 DEF SpeakStep
  <2>4. Speaks(V[n], es[n + 1])[i] = IF i # es[n + 1].id THEN V[n][i]
                                    ELSE IF es[n + 1].v = 0 \/ (~es[n + 1].tok /\ V[n][i] = 0) THEN 0 ELSE es[n + 1].v
    <3> DEFINE w == V[n]
               e == es[n + 1]
    <3>1. w \in Table /\ e \in ObsEvent
      BY <2>2
    <3> HIDE DEF w, e
    <3>2. \A j \in ObsId : Speaks(w, e)[j] = IF j # e.id THEN w[j] ELSE IF e.v = 0 \/ (~e.tok /\ w[j] = 0) THEN 0 ELSE e.v
      BY <3>1, SpeaksType
    <3> QED BY <3>2 DEF w, e
  <2>5. Speaks(W[n], es[n + 1])[i] = IF i # es[n + 1].id THEN W[n][i]
                                    ELSE IF es[n + 1].v = 0 \/ (~es[n + 1].tok /\ W[n][i] = 0) THEN 0 ELSE es[n + 1].v
    <3> DEFINE w == W[n]
               e == es[n + 1]
    <3>1. w \in Table /\ e \in ObsEvent
      BY <2>2
    <3> HIDE DEF w, e
    <3>2. \A j \in ObsId : Speaks(w, e)[j] = IF j # e.id THEN w[j] ELSE IF e.v = 0 \/ (~e.tok /\ w[j] = 0) THEN 0 ELSE e.v
      BY <3>1, SpeaksType
    <3> QED BY <3>2 DEF w, e
  <2> QED BY <2>1, <2>2, <2>3, <2>4, <2>5
<1>7. M \in 0 .. M
  BY <1>2
<1>8. ASSUME t[i] = u[i] PROVE V[M][i] = W[M][i]
  <2> DEFINE S == {n \in 0 .. M : V[n][i] = W[n][i]}
  <2>1. 0 \in S
    BY <1>2, <1>3, <1>4, <1>8
  <2>2. ASSUME NEW n \in Nat, n \in S, n < M PROVE n + 1 \in S
    BY <1>2, <1>6, <2>2
  <2>3. \A n \in 0 .. M : n \in S
    <3> HIDE DEF S
    <3> QED BY <1>2, <2>1, <2>2, Inducts
  <2> QED BY <1>7, <2>3
<1>9. ASSUME t[i] = 0 <=> u[i] = 0 PROVE V[M][i] = 0 <=> W[M][i] = 0
  <2> DEFINE S == {n \in 0 .. M : V[n][i] = 0 <=> W[n][i] = 0}
  <2>1. 0 \in S
    BY <1>2, <1>3, <1>4, <1>9
  <2>2. ASSUME NEW n \in Nat, n \in S, n < M PROVE n + 1 \in S
    BY <1>2, <1>6, <2>2
  <2>3. \A n \in 0 .. M : n \in S
    <3> HIDE DEF S
    <3> QED BY <1>2, <2>1, <2>2, Inducts
  <2> QED BY <1>7, <2>3
<1>10. ASSUME \A k \in 1 .. M : es[k].id # i \/ (t[i] = 0 /\ ~es[k].tok) PROVE V[M][i] = t[i]
  <2> DEFINE S == {n \in 0 .. M : V[n][i] = t[i]}
  <2>1. 0 \in S
    BY <1>2, <1>3
  <2>2. ASSUME NEW n \in Nat, n \in S, n < M PROVE n + 1 \in S
    BY <1>2, <1>6, <1>10, <2>2
  <2>3. \A n \in 0 .. M : n \in S
    <3> HIDE DEF S
    <3> QED BY <1>2, <2>1, <2>2, Inducts
  <2> QED BY <1>7, <2>3
<1> QED BY <1>5, <1>8, <1>9, <1>10 DEF M

\* What coalescing a burst comes to.
LEMMA CoalesceIs ==
  ASSUME NEW t \in Table, NEW es \in Seq(ObsEvent)
  PROVE  /\ Coalesce(t, es) \in UNION {[I -> 0 .. ObsVersion] : I \in SUBSET ObsId}
         /\ Merge(t, Coalesce(t, es)) = ApplyEvents(t, es)
<1> DEFINE I == {es[k].id : k \in DOMAIN es}
<1>1. I \in SUBSET ObsId /\ \A k \in 1 .. Len(es) : es[k].id \in I
  <2>1. DOMAIN es = 1 .. Len(es) /\ \A k \in 1 .. Len(es) : es[k] \in ObsEvent
    OBVIOUS
  <2>2. \A k \in 1 .. Len(es) : es[k].id \in ObsId
    BY <2>1 DEF ObsEvent
  <2> QED BY <2>1, <2>2
<1>2. ApplyEvents(t, es) \in Table
  BY ApplyIs
<1>3. Coalesce(t, es) = [i \in I |-> ApplyEvents(t, es)[i]]
  BY DEF Coalesce
<1> HIDE DEF I
<1>4. Coalesce(t, es) \in [I -> 0 .. ObsVersion]
  BY <1>1, <1>2, <1>3 DEF Table
<1>5. ASSUME NEW i \in ObsId, i \notin I PROVE ApplyEvents(t, es)[i] = t[i]
  BY <1>1, <1>5, ApplyPoint
<1>6. Merge(t, Coalesce(t, es)) = [i \in ObsId |-> ApplyEvents(t, es)[i]]
  BY <1>3, <1>5 DEF Merge
<1>7. Merge(t, Coalesce(t, es)) = ApplyEvents(t, es)
  BY <1>2, <1>6 DEF Table
<1> QED BY <1>1, <1>4, <1>7

\* A burst that concerns nobody known changes nothing.
LEMMA ApplyQuiet ==
  ASSUME NEW t \in Table, NEW es \in Seq(ObsEvent), \A j \in 1 .. Len(es) : ~es[j].tok /\ t[es[j].id] = 0
  PROVE  ApplyEvents(t, es) = t
<1>1. ApplyEvents(t, es) \in Table
  BY ApplyIs
<1>2. ASSUME NEW i \in ObsId PROVE ApplyEvents(t, es)[i] = t[i]
  BY ApplyPoint
<1> QED BY <1>1, <1>2 DEF Table

\* Frames.
LEMMA AcceptAllNone == ASSUME NEW r \in Receivers PROVE AcceptAll(r, <<>>) = r
<1>1. <<>> \in Seq(Frames)
  OBVIOUS
<1> QED BY <1>1, AcceptAllIs, FoldNone

LEMMA AcceptAllAppend ==
  ASSUME NEW r \in Receivers, NEW fs \in Seq(Frames), NEW f \in Frames
  PROVE  AcceptAll(r, Append(fs, f)) = Accept(AcceptAll(r, fs), f)
<1> DEFINE gs == Append(fs, f)
           v == AcceptAll(r, fs)
<1>1. gs \in Seq(Frames)
  OBVIOUS
<1>2. AcceptAll(r, gs) = FoldOf(AcceptStep, r, gs)
  BY <1>1, AcceptAllIs
<1>3. FoldOf(AcceptStep, r, fs) = v /\ v \in Receivers
  BY AcceptAllIs
<1>4. FoldOf(AcceptStep, r, gs) = AcceptStep[<<FoldOf(AcceptStep, r, fs), f>>]
  <2>1. FoldArgs(Receivers, Frames, AcceptStep, r, fs)
    BY AcceptAllIs
  <2> QED BY <2>1, FoldAppend
<1> HIDE DEF gs, v
<1>5. AcceptStep[<<v, f>>] = Accept(v, f)
  BY <1>3 DEF AcceptStep
<1> QED BY <1>2, <1>3, <1>4, <1>5 DEF gs, v

LEMMA AcceptAllHead ==
  ASSUME NEW r \in Receivers, NEW fs \in Seq(Frames), fs # <<>>
  PROVE  AcceptAll(r, fs) = AcceptAll(Accept(r, Head(fs)), Tail(fs))
<1> DEFINE g == Tail(fs)
           v == Accept(r, Head(fs))
<1>1. g \in Seq(Frames) /\ Head(fs) \in Frames
  OBVIOUS
<1>2. v \in Receivers
  BY <1>1, AcceptType
<1>3. AcceptAll(v, g) = FoldOf(AcceptStep, v, g)
  BY <1>1, <1>2, AcceptAllIs
<1>4. FoldOf(AcceptStep, r, fs) = FoldOf(AcceptStep, AcceptStep[<<r, Head(fs)>>], Tail(fs))
  <2>1. FoldArgs(Receivers, Frames, AcceptStep, r, fs)
    BY AcceptAllIs
  <2> QED BY <2>1, FoldCons
<1>5. AcceptStep[<<r, Head(fs)>>] = v
  BY <1>1 DEF AcceptStep
<1>6. AcceptAll(r, fs) = FoldOf(AcceptStep, r, fs)
  BY AcceptAllIs
<1> QED BY <1>3, <1>4, <1>5, <1>6

-----------------------------------------------------------------------------
(* The invariant.  What a receiver has and the frames it has still to see  *)
(* always lead to the producer's state, without a frame out of order.      *)
ObsQueue(n) == OnTheWay(n) \o chan
InLine(r, q) == \A k \in 1 .. Len(q) : InOrder(AcceptAll(r, SubSeq(q, 1, k - 1)), q[k])
Setup == {"start", "dump", "replay", "begin"}
ObsView == [stream |-> dp.stream, seq |-> dp.seq, sess |-> dp.known, ready |-> dp.pc = "live", ctx |-> dp.ctx]
LeadsTo(r) == (dp.pc \in Setup => r = Fresh) /\ (dp.pc \in {"rows", "live"} => r = ObsView)
Attached(n) == relay.pc # "down" /\ (n = "own" => owned = relay.nonce)

ObsShape ==
  /\ relay.pc = "down" <=> dp.pc = "off"
  /\ relay.pc = "down" => chan = <<>>
  /\ relay.pc # "down" => relay.nonce # 0
  /\ relay.pc \in {"cp", "own", "ack"} <=> relay.frame # None
  /\ dp.pc \in {"dump", "replay", "begin", "rows", "live", "gap"} => dp.stream # 0
  /\ dp.pc \in {"dump", "replay", "begin"} => dp.seq = 0 /\ dp.known = NoRows
\* With the events still queued, what the producer has comes to the table.
ObsEvents ==
  ~lost => /\ dp.pc = "dump" => ApplyEvents(OwnedRows, inbox) = OwnedRows
           /\ dp.pc \in {"replay", "begin", "rows"} => ApplyEvents(dp.rows, inbox) = OwnedRows
           /\ dp.pc = "live" => ApplyEvents(dp.known, inbox) = OwnedRows
ObsLine ==
  \A n \in ObsNode : Attached(n) =>
    LeadsTo(AcceptAll(rcv[n], ObsQueue(n))) /\ InLine(rcv[n], ObsQueue(n))
\* The receivers are one frame apart at most, in the order of the relay.
ObsChain ==
  /\ relay.pc \in {"read", "ack"} => rcv["mp"] = rcv["cp"] /\ (Attached("own") => rcv["own"] = rcv["cp"])
  /\ relay.pc = "cp" => rcv["mp"] = Accept(rcv["cp"], relay.frame) /\ (Attached("own") => rcv["own"] = rcv["cp"])
  /\ relay.pc = "own" => rcv["mp"] = rcv["cp"] /\ (Attached("own") => rcv["cp"] = Accept(rcv["own"], relay.frame))
\* A session that is over, or has lost its owner, has had its fault.
ObsFaultsPaid ==
  /\ relay.nonce <= obsFaults + 1
  /\ ~Attached("own") => relay.nonce <= obsFaults
  /\ \A n \in late : n < relay.nonce \/ relay.pc = "down"
ObsInv == ObsTypeOK /\ ObsShape /\ ObsEvents /\ ObsLine /\ ObsChain /\ ObsFaultsPaid

LEMMA InLineAppend ==
  ASSUME NEW r \in Receivers, NEW q \in Seq(Frames), NEW f \in Frames, InLine(r, q), InOrder(AcceptAll(r, q), f)
  PROVE  InLine(r, Append(q, f))
<1> DEFINE p == Append(q, f)
<1>1. Len(p) = Len(q) + 1 /\ p[Len(q) + 1] = f /\ Len(q) \in Nat
  OBVIOUS
<1>2. ASSUME NEW k \in 1 .. Len(p) PROVE InOrder(AcceptAll(r, SubSeq(p, 1, k - 1)), p[k])
  <2>1. CASE k = Len(q) + 1
    <3>1. SubSeq(p, 1, k - 1) = q
      BY <1>1, <2>1
    <3> QED BY <1>1, <2>1, <3>1
  <2>2. CASE k # Len(q) + 1
    <3>1. k \in 1 .. Len(q) /\ p[k] = q[k]
      BY <1>1, <2>2
    <3>2. SubSeq(p, 1, k - 1) = SubSeq(q, 1, k - 1)
      BY <1>1, <3>1
    <3> QED BY <3>1, <3>2 DEF InLine
  <2> QED BY <2>1, <2>2
<1> QED BY <1>2 DEF InLine

LEMMA InLineHead ==
  ASSUME NEW r \in Receivers, NEW q \in Seq(Frames), q # <<>>, InLine(r, q)
  PROVE  InOrder(r, Head(q)) /\ InLine(Accept(r, Head(q)), Tail(q))
<1> DEFINE p == Tail(q)
           h == Head(q)
<1>1. /\ Len(q) \in Nat /\ 1 \in 1 .. Len(q) /\ q[1] = h /\ h \in Frames
      /\ p \in Seq(Frames) /\ Len(p) = Len(q) - 1 /\ \A k \in 1 .. Len(p) : p[k] = q[k + 1]
  OBVIOUS
<1>2. SubSeq(q, 1, 1 - 1) = <<>>
  OBVIOUS
<1>3. InOrder(AcceptAll(r, SubSeq(q, 1, 1 - 1)), q[1])
  BY <1>1 DEF InLine
<1>4. InOrder(r, h)
  BY <1>1, <1>2, <1>3, AcceptAllNone
<1>5. ASSUME NEW k \in 1 .. Len(p) PROVE InOrder(AcceptAll(Accept(r, h), SubSeq(p, 1, k - 1)), p[k])
  <2>1. k + 1 \in 1 .. Len(q) /\ (k + 1) - 1 = k /\ p[k] = q[k + 1]
    BY <1>1
  <2>2. InOrder(AcceptAll(r, SubSeq(q, 1, k)), q[k + 1])
    <3>1. InOrder(AcceptAll(r, SubSeq(q, 1, (k + 1) - 1)), q[k + 1])
      BY <2>1 DEF InLine
    <3> QED BY <2>1, <3>1
  <2> DEFINE s == SubSeq(q, 1, k)
  <2>3. s \in Seq(Frames) /\ Len(s) = k /\ Head(s) = h /\ k \in Nat /\ k >= 1
    BY <1>1
  <2>4. Tail(s) = SubSeq(p, 1, k - 1)
    BY <1>1, <2>1
  <2> HIDE DEF s, p, h
  <2>5. s # <<>>
    BY <2>3
  <2>6. AcceptAll(r, s) = AcceptAll(Accept(r, Head(s)), Tail(s))
    BY <2>3, <2>5, AcceptAllHead
  <2> QED BY <2>1, <2>2, <2>3, <2>4, <2>6 DEF s
<1> QED BY <1>4, <1>5 DEF InLine

-----------------------------------------------------------------------------
LEMMA QueueType ==
  ASSUME ObsTypeOK, NEW n \in ObsNode
  PROVE  ObsQueue(n) \in Seq(Frames) /\ rcv[n] \in Receivers
<1>1. relay.frame \in Frames \cup {None} /\ chan \in Seq(Frames) /\ rcv[n] \in Receivers
  BY DEF ObsTypeOK
<1>2. OnTheWay(n) \in Seq(Frames)
  <2>1. relay.frame # None => <<relay.frame>> \in Seq(Frames)
    BY <1>1
  <2>2. <<>> \in Seq(Frames)
    OBVIOUS
  <2> QED BY <2>1, <2>2 DEF OnTheWay
<1> QED BY <1>1, <1>2 DEF ObsQueue

\* The primed queue and receiver, from what they are after the step.
LEMMA LineAfter ==
  ASSUME NEW n \in ObsNode, NEW s, NEW p, rcv'[n] = s, ObsQueue(n)' = p
  PROVE  /\ AcceptAll(rcv[n], ObsQueue(n))' = AcceptAll(s, p)
         /\ InLine(s, p) => InLine(rcv[n], ObsQueue(n))'
<1>1. AcceptAll(rcv[n], ObsQueue(n))' = AcceptAll(s, p)
  BY DEF AcceptAll
<1>2. ASSUME InLine(s, p) PROVE InLine(rcv[n], ObsQueue(n))'
  <2>1. ASSUME NEW k \in 1 .. Len(p) PROVE InOrder(AcceptAll(rcv[n], SubSeq(ObsQueue(n), 1, k - 1))', p[k])
    <3>1. AcceptAll(rcv[n], SubSeq(ObsQueue(n), 1, k - 1))' = AcceptAll(s, SubSeq(p, 1, k - 1))
      BY DEF AcceptAll
    <3>2. InOrder(AcceptAll(s, SubSeq(p, 1, k - 1)), p[k])
      BY <1>2 DEF InLine
    <3> QED BY <3>1, <3>2
  <2>2. InLine(rcv[n], ObsQueue(n))' <=>
          \A k \in 1 .. Len(p) : InOrder(AcceptAll(rcv[n], SubSeq(ObsQueue(n), 1, k - 1))', p[k])
    BY DEF InLine, AcceptAll, InOrder
  <2> QED BY <2>1, <2>2
<1> QED BY <1>1, <1>2

\* The producer goes on without a frame.
LEMMA LineKept ==
  ASSUME ObsLine, UNCHANGED <<chan, relay, rcv, owned>>,
         dp'.pc \in Setup => dp.pc \in Setup,
         dp'.pc \in {"rows", "live"} => dp.pc \in {"rows", "live"} /\ ObsView' = ObsView
  PROVE  ObsLine'
<1>1. \A n \in ObsNode : ObsQueue(n)' = ObsQueue(n) /\ (Attached(n)' <=> Attached(n))
  BY DEF ObsQueue, OnTheWay, Attached
<1>2. ASSUME NEW n \in ObsNode, Attached(n)'
      PROVE  LeadsTo(AcceptAll(rcv[n], ObsQueue(n)))' /\ InLine(rcv[n], ObsQueue(n))'
  <2>1. LeadsTo(AcceptAll(rcv[n], ObsQueue(n))) /\ InLine(rcv[n], ObsQueue(n))
    BY <1>1, <1>2 DEF ObsLine
  <2>5. rcv'[n] = rcv[n] /\ ObsQueue(n)' = ObsQueue(n)
    BY <1>1
  <2>2. InLine(rcv[n], ObsQueue(n))' /\ AcceptAll(rcv[n], ObsQueue(n))' = AcceptAll(rcv[n], ObsQueue(n))
    BY <2>1, <2>5, LineAfter
  <2>4. LeadsTo(AcceptAll(rcv[n], ObsQueue(n)))'
    BY <2>1, <2>2 DEF LeadsTo
  <2> QED BY <2>2, <2>4
<1> QED BY <1>2 DEF ObsLine

\* The producer publishes frame f.
LEMMA LinePublish ==
  ASSUME ObsTypeOK, ObsLine, NEW f \in Frames, chan' = Append(chan, f), UNCHANGED <<relay, rcv, owned>>,
         \A r \in Receivers : LeadsTo(r) =>
           /\ InOrder(r, f)
           /\ dp'.pc \in Setup => Accept(r, f) = Fresh
           /\ dp'.pc \in {"rows", "live"} => Accept(r, f) = ObsView'
  PROVE  ObsLine'
<1>1. ASSUME NEW n \in ObsNode
      PROVE  ObsQueue(n)' = Append(ObsQueue(n), f) /\ (Attached(n)' <=> Attached(n))
  <2>1. OnTheWay(n)' = OnTheWay(n)
    BY DEF OnTheWay
  <2>2. OnTheWay(n) \in Seq(Frames) /\ chan \in Seq(Frames)
    <3>1. relay.frame \in Frames \cup {None} /\ chan \in Seq(Frames)
      BY DEF ObsTypeOK
    <3>2. relay.frame # None => <<relay.frame>> \in Seq(Frames)
      BY <3>1
    <3>3. <<>> \in Seq(Frames)
      OBVIOUS
    <3> QED BY <3>1, <3>2, <3>3 DEF OnTheWay
  <2>3. OnTheWay(n) \o Append(chan, f) = Append(OnTheWay(n) \o chan, f)
    BY <2>2
  <2>4. Attached(n)' <=> Attached(n)
    BY DEF Attached
  <2> QED BY <2>1, <2>3, <2>4 DEF ObsQueue
<1>2. ASSUME NEW n \in ObsNode, Attached(n)'
      PROVE  LeadsTo(AcceptAll(rcv[n], ObsQueue(n)))' /\ InLine(rcv[n], ObsQueue(n))'
  <2> DEFINE r == rcv[n]
             q == ObsQueue(n)
  <2>1. LeadsTo(AcceptAll(r, q)) /\ InLine(r, q)
    BY <1>1, <1>2 DEF ObsLine
  <2>2. q \in Seq(Frames) /\ r \in Receivers
    BY QueueType
  <2>3. AcceptAll(r, q) \in Receivers
    BY <2>2, AcceptAllIs
  <2>4. ObsQueue(n)' = Append(q, f) /\ rcv'[n] = r
    BY <1>1
  <2> HIDE DEF r, q
  <2>5. AcceptAll(r, Append(q, f)) = Accept(AcceptAll(r, q), f)
    BY <2>2, AcceptAllAppend
  <2>6. InLine(r, Append(q, f))
    BY <2>1, <2>2, <2>3, InLineAppend
  <2>7. AcceptAll(rcv[n], ObsQueue(n))' = AcceptAll(r, Append(q, f))
    BY <2>4, LineAfter
  <2>8. InLine(rcv[n], ObsQueue(n))'
    BY <2>4, <2>6, LineAfter
  <2>9. LeadsTo(AcceptAll(rcv[n], ObsQueue(n)))'
    <3>1. /\ dp'.pc \in Setup => AcceptAll(r, Append(q, f)) = Fresh
          /\ dp'.pc \in {"rows", "live"} => AcceptAll(r, Append(q, f)) = ObsView'
      BY <2>1, <2>3, <2>5
    <3>2. LeadsTo(AcceptAll(rcv[n], ObsQueue(n)))' <=>
            /\ dp'.pc \in Setup => AcceptAll(rcv[n], ObsQueue(n))' = Fresh
            /\ dp'.pc \in {"rows", "live"} => AcceptAll(rcv[n], ObsQueue(n))' = ObsView'
      BY DEF LeadsTo, Fresh, Setup, NoRows
    <3> QED BY <2>7, <3>1, <3>2
  <2> QED BY <2>8, <2>9
<1> QED BY <1>2 DEF ObsLine

-----------------------------------------------------------------------------
\* The changes the kernel makes.
LEMMA KernelChanges ==
  ASSUME ObsTypeOK, Kernel
  PROVE  \E i \in ObsId, v \in 0 .. ObsVersion, own, tok \in BOOLEAN :
           /\ Change(i, v, own, tok)
           /\ \/ v = 0 /\ ~own
              \/ v # 0 /\ tok /\ own
              \/ v # 0 /\ ~tok /\ (own <=> OwnedRows[i] # 0)
<1>1. ObsVersion \in Nat \ {0} /\ 1 \in 0 .. ObsVersion /\ 0 \in 0 .. ObsVersion
  BY ObsBoundAssumption
<1>2. \A i \in ObsId : conn[i].v \in 0 .. ObsVersion /\ conn[i].own \in BOOLEAN
  BY DEF ObsTypeOK
<1>3. \A i \in ObsId : OwnedRows[i] = IF conn[i].own THEN conn[i].v ELSE 0
  BY DEF OwnedRows
<1>4. PICK i \in ObsId :
        \/ conn[i].v = 0 /\ \E own \in BOOLEAN : Change(i, 1, own, own)
        \/ conn[i].v \in 1 .. ObsVersion - 1 /\ Change(i, conn[i].v + 1, conn[i].own, FALSE)
        \/ conn[i].v > 0 /\ ~conn[i].own /\ Change(i, conn[i].v, TRUE, TRUE)
        \/ conn[i].v > 0 /\ Change(i, 0, FALSE, FALSE)
  BY DEF Kernel
<1>5. CASE conn[i].v = 0 /\ \E own \in BOOLEAN : Change(i, 1, own, own)
  <2>1. PICK own \in BOOLEAN : Change(i, 1, own, own)
    BY <1>5
  <2>2. OwnedRows[i] = 0
    BY <1>3, <1>5
  <2>3. 1 # 0 /\ (own \/ (~own /\ (own <=> OwnedRows[i] # 0)))
    BY <2>2
  <2> QED BY <1>1, <2>1, <2>3
<1>6. CASE conn[i].v \in 1 .. ObsVersion - 1 /\ Change(i, conn[i].v + 1, conn[i].own, FALSE)
  <2>1. conn[i].v + 1 \in 0 .. ObsVersion /\ conn[i].v + 1 # 0 /\ conn[i].v # 0
    BY <1>1, <1>6
  <2>2. conn[i].own <=> OwnedRows[i] # 0
    BY <1>3, <2>1
  <2> QED BY <1>2, <1>6, <2>1, <2>2
<1>7. CASE conn[i].v > 0 /\ ~conn[i].own /\ Change(i, conn[i].v, TRUE, TRUE)
  <2>1. conn[i].v # 0
    BY <1>2, <1>7
  <2> QED BY <1>2, <1>7, <2>1
<1>8. CASE conn[i].v > 0 /\ Change(i, 0, FALSE, FALSE)
  BY <1>1, <1>8
<1> QED BY <1>4, <1>5, <1>6, <1>7, <1>8

LEMMA KernelInv == ObsInv /\ Kernel => ObsInv'
<1> SUFFICES ASSUME ObsInv, Kernel PROVE ObsInv'
  OBVIOUS
<1>0. ObsTypeOK /\ ObsShape /\ ObsEvents /\ ObsLine /\ ObsChain /\ ObsFaultsPaid
  BY DEF ObsInv
<1>1. PICK i \in ObsId, v \in 0 .. ObsVersion, own, tok \in BOOLEAN :
        /\ Change(i, v, own, tok)
        /\ \/ v = 0 /\ ~own
           \/ v # 0 /\ tok /\ own
           \/ v # 0 /\ ~tok /\ (own <=> OwnedRows[i] # 0)
  BY <1>0, KernelChanges
<1> DEFINE e == [id |-> i, v |-> v, tok |-> tok]
<1>2. e \in ObsEvent /\ e.id = i /\ e.v = v /\ e.tok = tok
  BY DEF ObsEvent
<1>3. UNCHANGED <<context, dp, chan, relay, rcv, owned, late, obsFaults>> /\ conn' = [conn EXCEPT ![i] = [v |-> v, own |-> own]]
  BY <1>1 DEF Change
<1>4. (inbox' = Append(inbox, e) /\ lost' = lost /\ Len(inbox) < QueueCap) \/ (inbox' = inbox /\ lost')
  BY <1>1 DEF Change
<1> HIDE DEF e
<1>5. inbox \in Seq(ObsEvent) /\ conn \in [ObsId -> [v : 0 .. ObsVersion, own : BOOLEAN]] /\ OwnedRows \in Table
  <2>1. inbox \in Seq(ObsEvent) /\ conn \in [ObsId -> [v : 0 .. ObsVersion, own : BOOLEAN]]
    BY <1>0 DEF ObsTypeOK
  <2>2. 0 \in 0 .. ObsVersion
    BY ObsBoundAssumption
  <2> QED BY <2>1, <2>2 DEF OwnedRows, Table
<1>6. ObsTypeOK'
  <2>1. conn' \in [ObsId -> [v : 0 .. ObsVersion, own : BOOLEAN]]
    BY <1>3, <1>5
  <2>2. inbox' \in Seq(ObsEvent) /\ Len(inbox') <= QueueCap
    <3>1. Append(inbox, e) \in Seq(ObsEvent) /\ Len(Append(inbox, e)) = Len(inbox) + 1 /\ Len(inbox) \in Nat
      BY <1>2, <1>5
    <3>2. Len(inbox) <= QueueCap /\ (Len(inbox) < QueueCap => Len(inbox) + 1 <= QueueCap)
      BY <1>0, <3>1, ObsBoundAssumption DEF ObsTypeOK
    <3> QED BY <1>4, <1>5, <3>1, <3>2
  <2> QED BY <1>0, <1>3, <2>1, <2>2 DEF ObsTypeOK
<1>7. OwnedRows' \in Table /\ OwnedRows'[i] = (IF own THEN v ELSE 0) /\ \A j \in ObsId : j # i => OwnedRows'[j] = OwnedRows[j]
  <2>1. OwnedRows' = [j \in ObsId |-> IF conn'[j].own THEN conn'[j].v ELSE 0]
    BY DEF OwnedRows
  <2>2. conn'[i].own = own /\ conn'[i].v = v /\ \A j \in ObsId : j # i => conn'[j] = conn[j]
    BY <1>3, <1>5
  <2>3. OwnedRows'[i] = (IF own THEN v ELSE 0) /\ \A j \in ObsId : j # i => OwnedRows'[j] = OwnedRows[j]
    BY <2>1, <2>2 DEF OwnedRows
  <2>4. \A j \in ObsId : OwnedRows'[j] \in 0 .. ObsVersion
    <3>1. 0 \in 0 .. ObsVersion
      BY ObsBoundAssumption
    <3> QED BY <1>5, <2>3, <3>1 DEF Table
  <2> QED BY <2>1, <2>3, <2>4 DEF Table
<1>8. \A w \in Table : (\A j \in ObsId : j # i => w[j] = OwnedRows[j])
                     /\ (v # 0 /\ ~tok => (w[i] = 0 <=> OwnedRows[i] = 0)) => Speaks(w, e) = OwnedRows'
  <2> SUFFICES ASSUME NEW w \in Table, \A j \in ObsId : j # i => w[j] = OwnedRows[j],
                      v # 0 /\ ~tok => (w[i] = 0 <=> OwnedRows[i] = 0)
               PROVE  Speaks(w, e) = OwnedRows'
    OBVIOUS
  <2>1. /\ Speaks(w, e) \in Table
        /\ \A j \in ObsId : Speaks(w, e)[j] = IF j # e.id THEN w[j]
                                             ELSE IF e.v = 0 \/ (~e.tok /\ w[j] = 0) THEN 0 ELSE e.v
    BY <1>2, SpeaksType
  <2>2. Speaks(w, e)[i] = OwnedRows'[i]
    BY <1>1, <1>2, <1>7, <2>1
  <2>3. ASSUME NEW j \in ObsId PROVE Speaks(w, e)[j] = OwnedRows'[j]
    BY <1>2, <1>7, <2>1, <2>2
  <2> QED BY <1>7, <2>1, <2>3 DEF Table
<1>9. ObsEvents'
  <2> SUFFICES ASSUME ~lost'
               PROVE  /\ dp.pc = "dump" => ApplyEvents(OwnedRows', inbox') = OwnedRows'
                      /\ dp.pc \in {"replay", "begin", "rows"} => ApplyEvents(dp.rows, inbox') = OwnedRows'
                      /\ dp.pc = "live" => ApplyEvents(dp.known, inbox') = OwnedRows'
    BY <1>3 DEF ObsEvents, ApplyEvents
  <2>1. inbox' = Append(inbox, e) /\ ~lost
    BY <1>4
  <2>2. \A t \in Table : ApplyEvents(t, inbox') = Speaks(ApplyEvents(t, inbox), e)
    BY <1>2, <1>5, <2>1, ApplyAppend
  <2>3. Speaks(OwnedRows, e) = OwnedRows'
    BY <1>5, <1>8
  <2>4. dp.rows \in Table /\ dp.known \in Table
    BY <1>0 DEF ObsTypeOK
  <2>5. ASSUME dp.pc = "dump" PROVE ApplyEvents(OwnedRows', inbox') = OwnedRows'
    <3> DEFINE w == ApplyEvents(OwnedRows', inbox)
    <3>1. ApplyEvents(OwnedRows, inbox) = OwnedRows
      BY <1>0, <2>1, <2>5 DEF ObsEvents
    <3>2. w \in Table
      BY <1>5, <1>7, ApplyIs
    <3>3. ASSUME NEW j \in ObsId, j # i PROVE w[j] = OwnedRows[j]
      <4>1. OwnedRows'[j] = OwnedRows[j]
        BY <1>7, <3>3
      <4>2. ApplyEvents(OwnedRows', inbox)[j] = ApplyEvents(OwnedRows, inbox)[j]
        BY <1>5, <1>7, <4>1, ApplyPoint
      <4> QED BY <3>1, <4>2
    <3>4. ASSUME v # 0 /\ ~tok PROVE w[i] = 0 <=> OwnedRows[i] = 0
      <4>1. OwnedRows'[i] = 0 <=> OwnedRows[i] = 0
        BY <1>1, <1>7, <3>4
      <4>2. ApplyEvents(OwnedRows', inbox)[i] = 0 <=> ApplyEvents(OwnedRows, inbox)[i] = 0
        BY <1>5, <1>7, <4>1, ApplyPoint
      <4> QED BY <3>1, <4>2
    <3>5. Speaks(w, e) = OwnedRows'
      <4> HIDE DEF w
      <4> QED BY <1>8, <3>2, <3>3, <3>4
    <3> QED BY <1>7, <2>2, <3>5
  <2>6. ASSUME dp.pc \in {"replay", "begin", "rows"} PROVE ApplyEvents(dp.rows, inbox') = OwnedRows'
    BY <1>0, <2>1, <2>2, <2>3, <2>4, <2>6 DEF ObsEvents
  <2>7. ASSUME dp.pc = "live" PROVE ApplyEvents(dp.known, inbox') = OwnedRows'
    BY <1>0, <2>1, <2>2, <2>3, <2>4, <2>7 DEF ObsEvents
  <2> QED BY <2>5, <2>6, <2>7
<1>10. ObsShape' /\ ObsChain' /\ ObsFaultsPaid'
  BY <1>0, <1>3 DEF ObsShape, ObsChain, ObsFaultsPaid, Attached
<1>11. ObsLine'
  <2>1. ObsView' = ObsView
    BY <1>3 DEF ObsView
  <2> QED BY <1>0, <1>3, <2>1, LineKept
<1> QED BY <1>6, <1>9, <1>10, <1>11 DEF ObsInv

-----------------------------------------------------------------------------
ObsRows == UNION {[I -> 0 .. ObsVersion] : I \in SUBSET ObsId}
ProducerKeeps == UNCHANGED <<conn, events, context, relay, rcv, owned, late, obsFaults>>

LEMMA DpType ==
  ASSUME ObsTypeOK
  PROVE  /\ dp.pc \in {"off", "start", "dump", "replay", "begin", "rows", "live", "gap"}
         /\ dp.stream \in Nat /\ dp.seq \in Nat /\ dp.ctx \in Contexts /\ dp.rows \in Table /\ dp.known \in Table
         /\ inbox \in Seq(ObsEvent) /\ Len(inbox) <= QueueCap /\ chan \in Seq(Frames) /\ Len(chan) <= ChanCap
         /\ context \in Contexts /\ OwnedRows \in Table
<1>1. conn \in [ObsId -> [v : 0 .. ObsVersion, own : BOOLEAN]]
  BY DEF ObsTypeOK
<1>2. 0 \in 0 .. ObsVersion
  BY ObsBoundAssumption
<1>3. OwnedRows \in Table
  BY <1>1, <1>2 DEF OwnedRows, Table
<1> QED BY <1>3 DEF ObsTypeOK, Contexts

LEMMA ProducerFrame ==
  ASSUME ObsInv, ProducerKeeps,
         dp' \in [pc : {"off", "start", "dump", "replay", "begin", "rows", "live", "gap"}, stream : Nat, seq : Nat,
                  ctx : Contexts, rows : Table, known : Table],
         dp.pc # "off", dp'.pc # "off",
         inbox' \in Seq(ObsEvent), Len(inbox') <= QueueCap, chan' \in Seq(Frames), Len(chan') <= ChanCap,
         dp'.pc \in {"dump", "replay", "begin", "rows", "live", "gap"} => dp'.stream # 0,
         dp'.pc \in {"dump", "replay", "begin"} => dp'.seq = 0 /\ dp'.known = NoRows,
         ObsEvents', ObsLine'
  PROVE  ObsInv'
<1>1. ObsTypeOK'
  BY DEF ObsInv, ObsTypeOK, ProducerKeeps
<1>2. ObsShape'
  <2>1. relay.pc # "down" /\ relay.nonce # 0
    BY DEF ObsInv, ObsShape
  <2> QED BY <2>1 DEF ObsInv, ObsShape, ProducerKeeps
<1>3. ObsChain' /\ ObsFaultsPaid'
  BY DEF ObsInv, ObsChain, ObsFaultsPaid, Attached, ProducerKeeps
<1> QED BY <1>1, <1>2, <1>3 DEF ObsInv

\* The generation ends: the frames on the way stay in order.
LEMMA GapInv ==
  ASSUME ObsInv, ProducerKeeps, ToGap, dp.pc \in {"replay", "begin", "rows", "live"}
  PROVE  ObsInv'
<1>1. dp' = [dp EXCEPT !.pc = "gap"] /\ UNCHANGED <<chan, inbox, lost>>
  BY DEF ToGap
<1>2. ObsTypeOK /\ ObsLine /\ dp.stream # 0
  BY DEF ObsInv, ObsShape
<1>3. dp' \in [pc : {"off", "start", "dump", "replay", "begin", "rows", "live", "gap"}, stream : Nat, seq : Nat,
               ctx : Contexts, rows : Table, known : Table] /\ dp'.pc = "gap" /\ dp'.stream # 0
  BY <1>1, <1>2 DEF ObsTypeOK
<1>4. ObsEvents'
  BY <1>3 DEF ObsEvents
<1>5. ObsLine'
  BY <1>1, <1>2, <1>3, LineKept DEF ProducerKeeps, Setup
<1>6. inbox' \in Seq(ObsEvent) /\ Len(inbox') <= QueueCap /\ chan' \in Seq(Frames) /\ Len(chan') <= ChanCap
  BY <1>1, <1>2 DEF ObsTypeOK
<1> QED BY <1>3, <1>4, <1>5, <1>6, ProducerFrame

LEMMA FramePublished ==
  ASSUME ObsTypeOK, dp.stream # 0, NEW op \in {"begin", "snapshot", "synchronized", "changes", "unavailable"},
         NEW rows \in ObsRows, Publish(op, rows)
  PROVE  LET f == ObsFrame(op, rows)
         IN  /\ f \in Frames /\ chan' = Append(chan, f) /\ chan' \in Seq(Frames) /\ Len(chan') <= ChanCap
             /\ f.op = op /\ f.rows = rows /\ f.stream = dp.stream /\ f.seq = dp.seq + 1 /\ f.ctx = dp.ctx
<1> DEFINE f == ObsFrame(op, rows)
<1>1. /\ dp.stream \in Nat \ {0} /\ dp.seq + 1 \in Nat /\ dp.ctx \in Contexts /\ chan \in Seq(Frames)
  BY DpType
<1>2. f \in Frames /\ f.op = op /\ f.rows = rows /\ f.stream = dp.stream /\ f.seq = dp.seq + 1 /\ f.ctx = dp.ctx
  BY <1>1 DEF ObsFrame, Frames, ObsRows
<1>3. chan' = Append(chan, f) /\ Len(chan) < ChanCap
  BY DEF Publish
<1> HIDE DEF f
<1>4. Append(chan, f) \in Seq(Frames) /\ Len(Append(chan, f)) = Len(chan) + 1 /\ Len(chan) \in Nat
  BY <1>1, <1>2
<1>5. Len(chan) + 1 <= ChanCap
  BY <1>3, <1>4, ObsBoundAssumption
<1> QED BY <1>2, <1>3, <1>4, <1>5 DEF f

LEMMA NoRowsInFrame == <<>> \in ObsRows
<1>1. <<>> \in [{} -> 0 .. ObsVersion]
  OBVIOUS
<1>2. {} \in SUBSET ObsId
  OBVIOUS
<1> QED BY <1>1, <1>2 DEF ObsRows

LEMMA DpStartInv == ASSUME ObsInv, ProducerKeeps, DpStart PROVE ObsInv'
<1>1. ObsTypeOK /\ ObsLine
  BY DEF ObsInv
<1>2. /\ dp.pc = "start" /\ inbox' = <<>> /\ lost' = FALSE /\ chan' = chan
      /\ dp' = [pc |-> "dump", stream |-> dp.stream + 1, seq |-> 0, ctx |-> context, rows |-> NoRows, known |-> NoRows]
  BY DEF DpStart
<1>3. dp' \in [pc : {"off", "start", "dump", "replay", "begin", "rows", "live", "gap"}, stream : Nat, seq : Nat,
               ctx : Contexts, rows : Table, known : Table] /\ dp'.pc = "dump" /\ dp'.seq = 0 /\ dp'.known = NoRows /\ dp'.stream # 0
  BY <1>1, <1>2, DpType, NoRowsType
<1>4. inbox' \in Seq(ObsEvent) /\ Len(inbox') <= QueueCap /\ chan' \in Seq(Frames) /\ Len(chan') <= ChanCap
  BY <1>1, <1>2, DpType, ObsBoundAssumption
<1>5. ObsEvents'
  <2>1. OwnedRows' = OwnedRows /\ OwnedRows \in Table
    BY <1>1, DpType DEF ProducerKeeps, OwnedRows
  <2>2. ApplyEvents(OwnedRows, <<>>) = OwnedRows
    BY <2>1, ApplyNone
  <2>3. ApplyEvents(OwnedRows, inbox)' = ApplyEvents(OwnedRows, <<>>)
    BY <1>2, <2>1 DEF ApplyEvents
  <2> QED BY <1>3, <2>1, <2>2, <2>3 DEF ObsEvents
<1>6. ObsLine'
  BY <1>1, <1>2, <1>3, LineKept DEF ProducerKeeps, Setup
<1> QED BY <1>2, <1>3, <1>4, <1>5, <1>6, ProducerFrame

LEMMA DpDumpInv == ASSUME ObsInv, ProducerKeeps, DpDump PROVE ObsInv'
<1>1. ObsTypeOK /\ ObsLine /\ ObsEvents /\ ObsShape
  BY DEF ObsInv
<1>2. /\ dp.pc = "dump" /\ inbox' = inbox /\ lost' = lost /\ chan' = chan
      /\ dp' = [dp EXCEPT !.pc = "replay", !.rows = OwnedRows]
  BY DEF DpDump
<1>3. /\ dp' \in [pc : {"off", "start", "dump", "replay", "begin", "rows", "live", "gap"}, stream : Nat, seq : Nat,
                 ctx : Contexts, rows : Table, known : Table]
      /\ dp'.pc = "replay" /\ dp'.seq = dp.seq /\ dp'.known = dp.known /\ dp'.stream = dp.stream /\ dp'.rows = OwnedRows
  BY <1>1, <1>2, DpType DEF ObsTypeOK
<1>4. inbox' \in Seq(ObsEvent) /\ Len(inbox') <= QueueCap /\ chan' \in Seq(Frames) /\ Len(chan') <= ChanCap
  BY <1>1, <1>2, DpType
<1>5. ObsEvents'
  <2>1. OwnedRows' = OwnedRows
    BY DEF ProducerKeeps, OwnedRows
  <2>2. ~lost => ApplyEvents(OwnedRows, inbox) = OwnedRows
    BY <1>1, <1>2 DEF ObsEvents
  <2>3. ApplyEvents(dp.rows, inbox)' = ApplyEvents(OwnedRows, inbox)
    BY <1>2, <1>3 DEF ApplyEvents
  <2> QED BY <1>2, <1>3, <2>1, <2>2, <2>3 DEF ObsEvents
<1>6. ObsLine'
  BY <1>1, <1>2, <1>3, LineKept DEF ProducerKeeps, Setup
<1>7. dp'.stream # 0 /\ dp'.seq = 0 /\ dp'.known = NoRows
  BY <1>1, <1>2, <1>3 DEF ObsShape
<1> QED BY <1>2, <1>3, <1>4, <1>5, <1>6, <1>7, ProducerFrame

LEMMA DpReplayInv == ASSUME ObsInv, ProducerKeeps, DpReplay PROVE ObsInv'
<1>1. ObsTypeOK /\ ObsLine /\ ObsEvents /\ ObsShape /\ dp.pc = "replay"
  BY DEF ObsInv, DpReplay
<1>2. CASE lost \/ ~PolicyHolds \/ ~TopologyHolds
  <2>1. ToGap
    BY <1>2 DEF DpReplay
  <2> QED BY <1>1, <2>1, GapInv
<1>3. CASE ~(lost \/ ~PolicyHolds \/ ~TopologyHolds)
  <2>1. PICK k \in 0 .. Len(inbox) :
          /\ dp' = [dp EXCEPT !.pc = "begin", !.rows = ApplyEvents(dp.rows, SubSeq(inbox, 1, k))]
          /\ inbox' = SubSeq(inbox, k + 1, Len(inbox)) /\ UNCHANGED <<lost, chan>>
    BY <1>3 DEF DpReplay
  <2> DEFINE b == ApplyEvents(dp.rows, SubSeq(inbox, 1, k))
             fs == SubSeq(inbox, k + 1, Len(inbox))
  <2>2. dp.rows \in Table /\ inbox \in Seq(ObsEvent) /\ Len(inbox) <= QueueCap
    BY <1>1, DpType
  <2>3. b \in Table /\ fs \in Seq(ObsEvent) /\ ApplyEvents(dp.rows, inbox) = ApplyEvents(b, fs)
    BY <2>2, ApplySplit
  <2>4. Len(fs) <= QueueCap
    BY <2>2, ObsBoundAssumption
  <2> HIDE DEF b, fs
  <2>5. /\ dp' \in [pc : {"off", "start", "dump", "replay", "begin", "rows", "live", "gap"}, stream : Nat, seq : Nat,
                   ctx : Contexts, rows : Table, known : Table]
        /\ dp'.pc = "begin" /\ dp'.seq = dp.seq /\ dp'.known = dp.known /\ dp'.stream = dp.stream /\ dp'.rows = b
    <3>1. dp' = [dp EXCEPT !.pc = "begin", !.rows = b]
      BY <2>1 DEF b
    <3> QED BY <1>1, <2>3, <3>1 DEF ObsTypeOK
  <2>6. inbox' = fs /\ lost' = lost /\ chan' = chan /\ chan \in Seq(Frames) /\ Len(chan) <= ChanCap
    BY <1>1, <2>1, DpType DEF fs
  <2>7. ObsEvents'
    <3>1. OwnedRows' = OwnedRows
      BY DEF ProducerKeeps, OwnedRows
    <3>2. ApplyEvents(dp.rows, inbox) = OwnedRows
      BY <1>1, <1>3 DEF ObsEvents
    <3>3. ApplyEvents(dp.rows, inbox)' = ApplyEvents(b, fs)
      BY <2>5, <2>6 DEF ApplyEvents
    <3> QED BY <2>3, <2>5, <3>1, <3>2, <3>3 DEF ObsEvents
  <2>8. ObsLine'
    BY <1>1, <2>5, <2>6, LineKept DEF ProducerKeeps, Setup
  <2>9. dp'.stream # 0 /\ dp'.seq = 0 /\ dp'.known = NoRows
    BY <1>1, <2>5 DEF ObsShape
  <2>10. inbox' \in Seq(ObsEvent) /\ Len(inbox') <= QueueCap /\ chan' \in Seq(Frames) /\ Len(chan') <= ChanCap
    BY <2>3, <2>4, <2>6
  <2> QED BY <1>1, <2>5, <2>7, <2>8, <2>9, <2>10, ProducerFrame
<1> QED BY <1>2, <1>3

\* The producer goes on with the next number.
LEMMA DpStep ==
  ASSUME ObsTypeOK, NEW at \in {"rows", "live"}, NEW known \in Table,
         dp' = [dp EXCEPT !.pc = at, !.seq = dp.seq + 1, !.known = known]
  PROVE  /\ dp' \in [pc : {"off", "start", "dump", "replay", "begin", "rows", "live", "gap"}, stream : Nat, seq : Nat,
                     ctx : Contexts, rows : Table, known : Table]
         /\ dp'.pc = at /\ dp'.seq = dp.seq + 1 /\ dp'.known = known /\ dp'.stream = dp.stream /\ dp'.rows = dp.rows
         /\ dp'.ctx = dp.ctx
<1>1. dp \in [pc : {"off", "start", "dump", "replay", "begin", "rows", "live", "gap"}, stream : Nat, seq : Nat,
             ctx : Contexts, rows : Table, known : Table]
  BY DEF ObsTypeOK
<1>2. dp.seq + 1 \in Nat
  BY DpType
<1> QED BY <1>1, <1>2

LEMMA DpBeginInv == ASSUME ObsInv, ProducerKeeps, DpBegin PROVE ObsInv'
<1>1. ObsTypeOK /\ ObsLine /\ ObsEvents /\ dp.pc = "begin" /\ dp.stream # 0 /\ dp.seq = 0 /\ dp.known = NoRows
  BY DEF ObsInv, DpBegin, ObsShape
<1>2. CASE ~TopologyHolds
  BY <1>1, <1>2, GapInv DEF DpBegin
<1>3. CASE TopologyHolds
  <2> DEFINE f == ObsFrame("begin", <<>>)
  <2>1. Publish("begin", <<>>) /\ dp' = [dp EXCEPT !.pc = "rows", !.seq = @ + 1] /\ UNCHANGED <<inbox, lost>>
    BY <1>3 DEF DpBegin
  <2>2. /\ f \in Frames /\ chan' = Append(chan, f) /\ chan' \in Seq(Frames) /\ Len(chan') <= ChanCap
        /\ f.op = "begin" /\ f.stream = dp.stream /\ f.seq = dp.seq + 1 /\ f.ctx = dp.ctx
    BY <1>1, <2>1, NoRowsInFrame, FramePublished
  <2> HIDE DEF f
  <2>3. /\ dp' \in [pc : {"off", "start", "dump", "replay", "begin", "rows", "live", "gap"}, stream : Nat, seq : Nat,
                   ctx : Contexts, rows : Table, known : Table]
        /\ dp'.pc = "rows" /\ dp'.seq = 1 /\ dp'.known = NoRows /\ dp'.stream = dp.stream /\ dp'.rows = dp.rows
        /\ dp'.ctx = dp.ctx
    <3>1. dp' = [dp EXCEPT !.pc = "rows", !.seq = dp.seq + 1, !.known = dp.known] /\ dp.known \in Table
      BY <1>1, <2>1 DEF ObsTypeOK
    <3>2. /\ dp' \in [pc : {"off", "start", "dump", "replay", "begin", "rows", "live", "gap"}, stream : Nat, seq : Nat,
                     ctx : Contexts, rows : Table, known : Table]
          /\ dp'.pc = "rows" /\ dp'.seq = dp.seq + 1 /\ dp'.known = dp.known /\ dp'.stream = dp.stream
          /\ dp'.rows = dp.rows /\ dp'.ctx = dp.ctx
      BY <1>1, <3>1, DpStep
    <3> QED BY <1>1, <3>2
  <2>4. ObsEvents'
    <3>1. OwnedRows' = OwnedRows
      BY DEF ProducerKeeps, OwnedRows
    <3>2. ApplyEvents(dp.rows, inbox)' = ApplyEvents(dp.rows, inbox)
      BY <2>1, <2>3 DEF ApplyEvents
    <3> QED BY <1>1, <2>1, <2>3, <3>1, <3>2 DEF ObsEvents
  <2>5. ObsLine'
    <3>1. ASSUME NEW r \in Receivers, LeadsTo(r) PROVE InOrder(r, f) /\ Accept(r, f) = ObsView'
      <4>1. r = Fresh
        BY <1>1, <3>1 DEF LeadsTo, Setup
      <4>2. InOrder(r, f)
        BY <1>1, <2>2, <4>1 DEF InOrder, Fresh
      <4>3. Accept(r, f) = [stream |-> f.stream, seq |-> 1, sess |-> NoRows, ready |-> FALSE, ctx |-> f.ctx]
        BY <2>2, <3>1, AcceptType
      <4>4. ObsView' = [stream |-> dp.stream, seq |-> 1, sess |-> NoRows, ready |-> FALSE, ctx |-> dp.ctx]
        BY <2>3 DEF ObsView
      <4> QED BY <2>2, <4>2, <4>3, <4>4
    <3> QED BY <1>1, <2>2, <2>3, <3>1, LinePublish DEF ProducerKeeps, Setup
  <2>6. inbox' \in Seq(ObsEvent) /\ Len(inbox') <= QueueCap
    BY <1>1, <2>1, DpType
  <2> QED BY <1>1, <2>2, <2>3, <2>4, <2>5, <2>6, ProducerFrame
<1> QED BY <1>2, <1>3

\* The receiver is where the producer is.
LEMMA ViewInOrder ==
  ASSUME ObsTypeOK, dp.pc \in {"rows", "live"}, NEW r \in Receivers, LeadsTo(r)
  PROVE  r = ObsView /\ r.stream = dp.stream /\ r.seq = dp.seq /\ r.sess = dp.known /\ (r.ready <=> dp.pc = "live") /\ r.ctx = dp.ctx
<1>1. r = ObsView
  BY DEF LeadsTo
<1>2. ObsView.ready = (dp.pc = "live")
  BY DEF ObsView
<1>3. ObsView.stream = dp.stream /\ ObsView.seq = dp.seq /\ ObsView.sess = dp.known /\ ObsView.ctx = dp.ctx
  BY DEF ObsView
<1> QED BY <1>1, <1>2, <1>3

LEMMA DpChunkInv == ASSUME ObsInv, ProducerKeeps, DpChunk PROVE ObsInv'
<1>1. ObsTypeOK /\ ObsLine /\ ObsEvents /\ dp.pc = "rows" /\ dp.stream # 0
  BY DEF ObsInv, DpChunk, ObsShape
<1>2. CASE ~TopologyHolds
  BY <1>1, <1>2, GapInv DEF DpChunk
<1>3. CASE TopologyHolds
  <2>1. PICK i \in ObsId :
          /\ Publish("snapshot", [j \in {i} |-> dp.rows[i]])
          /\ dp' = [dp EXCEPT !.seq = @ + 1, !.known[i] = dp.rows[i]] /\ UNCHANGED <<inbox, lost>>
    BY <1>3 DEF DpChunk
  <2> DEFINE rs == [j \in {i} |-> dp.rows[i]]
             f == ObsFrame("snapshot", rs)
             known == [dp.known EXCEPT ![i] = dp.rows[i]]
  <2>2. dp.rows \in Table /\ dp.known \in Table /\ dp.seq \in Nat
    BY <1>1, DpType
  <2>3. rs \in ObsRows
    <3>1. rs \in [{i} -> 0 .. ObsVersion] /\ {i} \in SUBSET ObsId
      BY <2>2 DEF Table
    <3> HIDE DEF rs
    <3> QED BY <3>1 DEF ObsRows
  <2>4. known \in Table /\ Merge(dp.known, rs) = known
    <3>1. known \in Table
      BY <2>2 DEF Table
    <3>2. Merge(dp.known, rs) = [j \in ObsId |-> IF j = i THEN dp.rows[i] ELSE dp.known[j]]
      BY DEF Merge
    <3> QED BY <2>2, <3>1, <3>2 DEF Table
  <2>5. /\ f \in Frames /\ chan' = Append(chan, f) /\ chan' \in Seq(Frames) /\ Len(chan') <= ChanCap
        /\ f.op = "snapshot" /\ f.rows = rs /\ f.stream = dp.stream /\ f.seq = dp.seq + 1 /\ f.ctx = dp.ctx
    <3>1. Publish("snapshot", rs)
      BY <2>1
    <3> HIDE DEF rs
    <3> QED BY <1>1, <2>3, <3>1, FramePublished
  <2>6. /\ dp' \in [pc : {"off", "start", "dump", "replay", "begin", "rows", "live", "gap"}, stream : Nat, seq : Nat,
                   ctx : Contexts, rows : Table, known : Table]
        /\ dp'.pc = "rows" /\ dp'.seq = dp.seq + 1 /\ dp'.known = known /\ dp'.stream = dp.stream /\ dp'.rows = dp.rows
        /\ dp'.ctx = dp.ctx
    <3>1. dp' = [dp EXCEPT !.pc = "rows", !.seq = dp.seq + 1, !.known = known]
      BY <1>1, <2>1 DEF ObsTypeOK
    <3> HIDE DEF known
    <3> QED BY <1>1, <2>4, <3>1, DpStep
  <2> HIDE DEF f, rs, known
  <2>7. ObsEvents'
    <3>1. OwnedRows' = OwnedRows
      BY DEF ProducerKeeps, OwnedRows
    <3>2. ApplyEvents(dp.rows, inbox)' = ApplyEvents(dp.rows, inbox)
      BY <2>1, <2>6 DEF ApplyEvents
    <3> QED BY <1>1, <2>1, <2>6, <3>1, <3>2 DEF ObsEvents
  <2>8. ObsLine'
    <3>1. ASSUME NEW r \in Receivers, LeadsTo(r) PROVE InOrder(r, f) /\ Accept(r, f) = ObsView'
      <4>1. r = ObsView /\ r.stream = dp.stream /\ r.seq = dp.seq /\ r.sess = dp.known /\ ~r.ready /\ r.ctx = dp.ctx
        BY <1>1, <3>1, ViewInOrder
      <4>2. InOrder(r, f)
        BY <2>5, <4>1 DEF InOrder
      <4>3. Accept(r, f) = [r EXCEPT !.seq = f.seq, !.sess = Merge(r.sess, f.rows)]
        BY <2>5, <3>1, AcceptType
      <4>4. Accept(r, f) = [stream |-> dp.stream, seq |-> dp.seq + 1, sess |-> known, ready |-> FALSE, ctx |-> dp.ctx]
        BY <1>1, <2>4, <2>5, <4>1, <4>3 DEF ObsView
      <4>5. ObsView' = [stream |-> dp.stream, seq |-> dp.seq + 1, sess |-> known, ready |-> FALSE, ctx |-> dp.ctx]
        BY <2>6 DEF ObsView
      <4> QED BY <4>2, <4>4, <4>5
    <3> QED BY <1>1, <2>5, <2>6, <3>1, LinePublish DEF ProducerKeeps, Setup
  <2>9. inbox' \in Seq(ObsEvent) /\ Len(inbox') <= QueueCap
    BY <1>1, <2>1, DpType
  <2> QED BY <1>1, <2>5, <2>6, <2>7, <2>8, <2>9, ProducerFrame
<1> QED BY <1>2, <1>3

LEMMA DpSyncInv == ASSUME ObsInv, ProducerKeeps, DpSync PROVE ObsInv'
<1>1. ObsTypeOK /\ ObsLine /\ ObsEvents /\ dp.pc = "rows" /\ dp.stream # 0 /\ dp.rows = dp.known
  BY DEF ObsInv, DpSync, ObsShape
<1>2. CASE ~PolicyHolds \/ ~TopologyHolds
  BY <1>1, <1>2, GapInv DEF DpSync
<1>3. CASE ~(~PolicyHolds \/ ~TopologyHolds)
  <2> DEFINE f == ObsFrame("synchronized", <<>>)
  <2>1. Publish("synchronized", <<>>) /\ dp' = [dp EXCEPT !.pc = "live", !.seq = @ + 1] /\ UNCHANGED <<inbox, lost>>
    BY <1>3 DEF DpSync
  <2>2. /\ f \in Frames /\ chan' = Append(chan, f) /\ chan' \in Seq(Frames) /\ Len(chan') <= ChanCap
        /\ f.op = "synchronized" /\ f.stream = dp.stream /\ f.seq = dp.seq + 1 /\ f.ctx = dp.ctx
    BY <1>1, <2>1, NoRowsInFrame, FramePublished
  <2> HIDE DEF f
  <2>3. /\ dp' \in [pc : {"off", "start", "dump", "replay", "begin", "rows", "live", "gap"}, stream : Nat, seq : Nat,
                   ctx : Contexts, rows : Table, known : Table]
        /\ dp'.pc = "live" /\ dp'.seq = dp.seq + 1 /\ dp'.known = dp.known /\ dp'.stream = dp.stream /\ dp'.ctx = dp.ctx
    <3>1. dp' = [dp EXCEPT !.pc = "live", !.seq = dp.seq + 1, !.known = dp.known] /\ dp.known \in Table
      BY <1>1, <2>1 DEF ObsTypeOK
    <3> QED BY <1>1, <3>1, DpStep
  <2>4. ObsEvents'
    <3>1. OwnedRows' = OwnedRows
      BY DEF ProducerKeeps, OwnedRows
    <3>2. ApplyEvents(dp.known, inbox)' = ApplyEvents(dp.rows, inbox)
      BY <1>1, <2>1, <2>3 DEF ApplyEvents
    <3> QED BY <1>1, <2>1, <2>3, <3>1, <3>2 DEF ObsEvents
  <2>5. ObsLine'
    <3>1. ASSUME NEW r \in Receivers, LeadsTo(r) PROVE InOrder(r, f) /\ Accept(r, f) = ObsView'
      <4>1. r = ObsView /\ r.stream = dp.stream /\ r.seq = dp.seq /\ r.sess = dp.known /\ ~r.ready /\ r.ctx = dp.ctx
        BY <1>1, <3>1, ViewInOrder
      <4>2. InOrder(r, f)
        BY <2>2, <4>1 DEF InOrder
      <4>3. Accept(r, f) = [r EXCEPT !.seq = f.seq, !.ready = TRUE]
        BY <2>2, <3>1, AcceptType
      <4>4. Accept(r, f) = [stream |-> dp.stream, seq |-> dp.seq + 1, sess |-> dp.known, ready |-> TRUE, ctx |-> dp.ctx]
        BY <1>1, <2>2, <4>1, <4>3 DEF ObsView
      <4>5. ObsView' = [stream |-> dp.stream, seq |-> dp.seq + 1, sess |-> dp.known, ready |-> TRUE, ctx |-> dp.ctx]
        BY <2>3 DEF ObsView
      <4> QED BY <4>2, <4>4, <4>5
    <3> QED BY <1>1, <2>2, <2>3, <3>1, LinePublish DEF ProducerKeeps, Setup
  <2>6. inbox' \in Seq(ObsEvent) /\ Len(inbox') <= QueueCap
    BY <1>1, <2>1, DpType
  <2> QED BY <1>1, <2>2, <2>3, <2>4, <2>5, <2>6, ProducerFrame
<1> QED BY <1>2, <1>3

LEMMA DpBurstInv == ASSUME ObsInv, ProducerKeeps, DpBurst PROVE ObsInv'
<1>1. ObsTypeOK /\ ObsLine /\ ObsEvents /\ dp.pc = "live" /\ dp.stream # 0
  BY DEF ObsInv, DpBurst, ObsShape
<1>2. CASE lost \/ ~TopologyHolds
  BY <1>1, <1>2, GapInv DEF DpBurst
<1>3. CASE ~(lost \/ ~TopologyHolds)
  <2>1. PICK k \in 1 .. Len(inbox) :
          LET es == SubSeq(inbox, 1, k)
              after == ApplyEvents(dp.known, es)
              quiet == \A j \in DOMAIN es : ~es[j].tok /\ dp.known[es[j].id] = 0
          IN  /\ inbox' = SubSeq(inbox, k + 1, Len(inbox)) /\ lost' = lost
              /\ IF quiet THEN UNCHANGED <<dp, chan>>
                 ELSE Publish("changes", Coalesce(dp.known, es)) /\ dp' = [dp EXCEPT !.seq = @ + 1, !.known = after]
    BY <1>3 DEF DpBurst
  <2> DEFINE es == SubSeq(inbox, 1, k)
             fs == SubSeq(inbox, k + 1, Len(inbox))
             after == ApplyEvents(dp.known, es)
             quiet == \A j \in DOMAIN es : ~es[j].tok /\ dp.known[es[j].id] = 0
             rs == Coalesce(dp.known, es)
  <2>2. /\ inbox' = fs /\ lost' = lost
        /\ IF quiet THEN UNCHANGED <<dp, chan>>
           ELSE Publish("changes", rs) /\ dp' = [dp EXCEPT !.seq = @ + 1, !.known = after]
    BY <2>1
  <2>3. dp.known \in Table /\ inbox \in Seq(ObsEvent) /\ Len(inbox) <= QueueCap /\ dp.seq \in Nat
        /\ chan \in Seq(Frames) /\ Len(chan) <= ChanCap
    BY <1>1, DpType
  <2>4. k \in 0 .. Len(inbox) /\ es \in Seq(ObsEvent) /\ DOMAIN es = 1 .. Len(es)
    BY <2>3
  <2>5. after \in Table /\ fs \in Seq(ObsEvent) /\ ApplyEvents(dp.known, inbox) = ApplyEvents(after, fs)
    BY <2>3, <2>4, ApplySplit
  <2>6. Len(fs) <= QueueCap
    BY <2>3, ObsBoundAssumption
  <2>7. ApplyEvents(dp.known, inbox) = OwnedRows /\ OwnedRows' = OwnedRows
    BY <1>1, <1>3 DEF ObsEvents, ProducerKeeps, OwnedRows
  <2>8. quiet => after = dp.known
    BY <2>3, <2>4, ApplyQuiet
  <2>9. rs \in ObsRows /\ Merge(dp.known, rs) = after
    BY <2>3, <2>4, CoalesceIs DEF ObsRows
  <2> HIDE DEF es, fs, after, quiet, rs
  <2>10. CASE quiet
    <3>1. UNCHANGED <<dp, chan>>
      BY <2>2, <2>10
    <3>2. ObsEvents'
      <4>1. ApplyEvents(dp.known, inbox)' = ApplyEvents(after, fs)
        BY <2>2, <2>8, <2>10, <3>1 DEF ApplyEvents
      <4> QED BY <1>1, <2>5, <2>7, <3>1, <4>1 DEF ObsEvents
    <3>3. ObsLine'
      <4>1. ObsView' = ObsView
        BY <3>1 DEF ObsView
      <4> QED BY <1>1, <3>1, <4>1, LineKept DEF ProducerKeeps
    <3>4. dp' \in [pc : {"off", "start", "dump", "replay", "begin", "rows", "live", "gap"}, stream : Nat, seq : Nat,
                   ctx : Contexts, rows : Table, known : Table] /\ dp'.pc = "live" /\ dp'.stream # 0
      BY <1>1, <3>1 DEF ObsTypeOK
    <3>5. inbox' \in Seq(ObsEvent) /\ Len(inbox') <= QueueCap /\ chan' \in Seq(Frames) /\ Len(chan') <= ChanCap
      BY <2>2, <2>3, <2>5, <2>6, <3>1
    <3> QED BY <1>1, <3>2, <3>3, <3>4, <3>5, ProducerFrame
  <2>11. CASE ~quiet
    <3> DEFINE f == ObsFrame("changes", rs)
    <3>1. Publish("changes", rs) /\ dp' = [dp EXCEPT !.seq = @ + 1, !.known = after]
      BY <2>2, <2>11
    <3>2. /\ f \in Frames /\ chan' = Append(chan, f) /\ chan' \in Seq(Frames) /\ Len(chan') <= ChanCap
          /\ f.op = "changes" /\ f.rows = rs /\ f.stream = dp.stream /\ f.seq = dp.seq + 1 /\ f.ctx = dp.ctx
      BY <1>1, <2>9, <3>1, FramePublished
    <3> HIDE DEF f
    <3>3. /\ dp' \in [pc : {"off", "start", "dump", "replay", "begin", "rows", "live", "gap"}, stream : Nat, seq : Nat,
                     ctx : Contexts, rows : Table, known : Table]
          /\ dp'.pc = "live" /\ dp'.seq = dp.seq + 1 /\ dp'.known = after /\ dp'.stream = dp.stream /\ dp'.ctx = dp.ctx
      <4>1. dp' = [dp EXCEPT !.pc = "live", !.seq = dp.seq + 1, !.known = after]
        BY <1>1, <3>1 DEF ObsTypeOK
      <4> QED BY <1>1, <2>5, <4>1, DpStep
    <3>4. ObsEvents'
      <4>1. ApplyEvents(dp.known, inbox)' = ApplyEvents(after, fs)
        BY <2>2, <3>3 DEF ApplyEvents
      <4> QED BY <2>5, <2>7, <3>3, <4>1 DEF ObsEvents
    <3>5. ObsLine'
      <4>1. ASSUME NEW r \in Receivers, LeadsTo(r) PROVE InOrder(r, f) /\ Accept(r, f) = ObsView'
        <5>1. r = ObsView /\ r.stream = dp.stream /\ r.seq = dp.seq /\ r.sess = dp.known /\ r.ready /\ r.ctx = dp.ctx
          BY <1>1, <4>1, ViewInOrder
        <5>2. InOrder(r, f)
          BY <3>2, <5>1 DEF InOrder
        <5>3. Accept(r, f) = [r EXCEPT !.seq = f.seq, !.sess = Merge(r.sess, f.rows)]
          BY <3>2, <4>1, AcceptType
        <5>4. Accept(r, f) = [stream |-> dp.stream, seq |-> dp.seq + 1, sess |-> after, ready |-> TRUE, ctx |-> dp.ctx]
          <6>1. r = [stream |-> dp.stream, seq |-> dp.seq, sess |-> dp.known, ready |-> TRUE, ctx |-> dp.ctx]
            <7>1. (dp.pc = "live") = TRUE
              BY <1>1
            <7> QED BY <5>1, <7>1 DEF ObsView
          <6> QED BY <2>9, <3>2, <5>1, <5>3, <6>1
        <5>5. ObsView' = [stream |-> dp.stream, seq |-> dp.seq + 1, sess |-> after, ready |-> TRUE, ctx |-> dp.ctx]
          BY <3>3 DEF ObsView
        <5> QED BY <5>2, <5>4, <5>5
      <4> QED BY <1>1, <3>2, <3>3, <4>1, LinePublish DEF ProducerKeeps, Setup
    <3>6. inbox' \in Seq(ObsEvent) /\ Len(inbox') <= QueueCap
      BY <2>2, <2>5, <2>6
    <3> QED BY <1>1, <3>2, <3>3, <3>4, <3>5, <3>6, ProducerFrame
  <2> QED BY <2>10, <2>11
<1> QED BY <1>2, <1>3

LEMMA DpGapInv == ASSUME ObsInv, ProducerKeeps, DpGap PROVE ObsInv'
<1> DEFINE f == ObsFrame("unavailable", <<>>)
<1>1. ObsTypeOK /\ ObsLine /\ dp.pc = "gap" /\ dp.stream # 0
  BY DEF ObsInv, DpGap, ObsShape
<1>2. Publish("unavailable", <<>>) /\ dp' = [dp EXCEPT !.pc = "start"] /\ UNCHANGED <<inbox, lost>>
  BY DEF DpGap
<1>3. /\ f \in Frames /\ chan' = Append(chan, f) /\ chan' \in Seq(Frames) /\ Len(chan') <= ChanCap /\ f.op = "unavailable"
  BY <1>1, <1>2, NoRowsInFrame, FramePublished
<1> HIDE DEF f
<1>4. /\ dp' \in [pc : {"off", "start", "dump", "replay", "begin", "rows", "live", "gap"}, stream : Nat, seq : Nat,
                 ctx : Contexts, rows : Table, known : Table]
      /\ dp'.pc = "start"
  BY <1>1, <1>2 DEF ObsTypeOK
<1>5. ObsEvents'
  BY <1>4 DEF ObsEvents
<1>6. ObsLine'
  <2>1. ASSUME NEW r \in Receivers PROVE InOrder(r, f) /\ Accept(r, f) = Fresh
    BY <1>3, AcceptType DEF InOrder
  <2> QED BY <1>1, <1>3, <1>4, <2>1, LinePublish DEF ProducerKeeps
<1>7. inbox' \in Seq(ObsEvent) /\ Len(inbox') <= QueueCap
  BY <1>1, <1>2, DpType
<1> QED BY <1>1, <1>3, <1>4, <1>5, <1>6, <1>7, ProducerFrame

LEMMA ProducerInv == ObsInv /\ Producer => ObsInv'
<1> SUFFICES ASSUME ObsInv, Producer PROVE ObsInv'
  OBVIOUS
<1>1. ProducerKeeps
  BY DEF Producer, ProducerKeeps, conntrack
<1>2. DpHeartbeat => ObsInv'
  BY <1>1, GapInv DEF DpHeartbeat
<1> QED BY <1>1, <1>2, DpStartInv, DpDumpInv, DpReplayInv, DpBeginInv, DpChunkInv, DpSyncInv, DpBurstInv, DpGapInv DEF Producer

-----------------------------------------------------------------------------
(* The relay.                                                              *)
Relays == [pc : {"down", "read", "cp", "own", "ack"}, nonce : Nat, frame : Frames \cup {None}]

LEMMA RelayType ==
  ASSUME ObsTypeOK
  PROVE  /\ relay \in Relays /\ relay.nonce \in Nat /\ relay.frame \in Frames \cup {None}
         /\ relay.pc \in {"down", "read", "cp", "own", "ack"}
         /\ rcv \in [ObsNode -> Receivers] /\ (\A n \in ObsNode : rcv[n].ready => rcv[n].stream # 0)
         /\ owned \in 1 .. relay.nonce \cup {None} /\ late \subseteq 1 .. relay.nonce
         /\ obsFaults \in Nat /\ obsFaults <= ObsMaxFaults
<1>1. obsFaults \in 0 .. ObsMaxFaults
  BY DEF ObsTypeOK
<1>2. obsFaults \in Nat /\ obsFaults <= ObsMaxFaults
  BY <1>1, ObsBoundAssumption
<1> QED BY <1>2 DEF ObsTypeOK, Relays

LEMMA QueueIs ==
  ASSUME ObsTypeOK, ObsShape
  PROVE  /\ ObsQueue("mp") = chan
         /\ ObsQueue("cp") = IF relay.pc = "cp" THEN <<relay.frame>> \o chan ELSE chan
         /\ ObsQueue("own") = IF relay.pc \in {"cp", "own"} THEN <<relay.frame>> \o chan ELSE chan
<1>1. <<>> \o chan = chan
  BY DEF ObsTypeOK
<1>2. OnTheWay("mp") = <<>>
  BY DEF OnTheWay
<1>3. OnTheWay("cp") = IF relay.pc = "cp" THEN <<relay.frame>> ELSE <<>>
  BY DEF OnTheWay, ObsShape
<1>4. OnTheWay("own") = IF relay.pc \in {"cp", "own"} THEN <<relay.frame>> ELSE <<>>
  BY DEF OnTheWay, ObsShape
<1> QED BY <1>1, <1>2, <1>3, <1>4 DEF ObsQueue

\* A session ends, after a fault it has had.
LEMMA EndsInv ==
  ASSUME ObsInv, Ends, relay.pc # "down", UNCHANGED <<conn, events, inbox, lost, context>>,
         rcv' \in [ObsNode -> Receivers], \A n \in ObsNode : rcv'[n].ready => rcv'[n].stream # 0,
         owned' \in 1 .. relay.nonce \cup {None}, obsFaults' \in 0 .. ObsMaxFaults, relay.nonce <= obsFaults'
  PROVE  ObsInv'
<1>1. ObsTypeOK /\ ObsShape /\ relay.nonce # 0
  BY DEF ObsInv, ObsShape
<1>2. /\ relay' = [relay EXCEPT !.pc = "down", !.frame = None]
      /\ dp' = [dp EXCEPT !.pc = "off"] /\ chan' = <<>> /\ late' = late \cup {relay.nonce}
  BY DEF Ends
<1>3. relay' \in Relays /\ relay'.pc = "down" /\ relay'.nonce = relay.nonce /\ relay'.frame = None
  BY <1>1, <1>2, RelayType DEF Relays
<1>4. /\ dp' \in [pc : {"off", "start", "dump", "replay", "begin", "rows", "live", "gap"}, stream : Nat, seq : Nat,
                 ctx : Contexts, rows : Table, known : Table] /\ dp'.pc = "off"
  BY <1>1, <1>2 DEF ObsTypeOK
<1>5. ObsTypeOK'
  <2>1. late' \subseteq 1 .. relay'.nonce
    BY <1>1, <1>2, <1>3, RelayType
  <2>2. chan' \in Seq(Frames) /\ Len(chan') <= ChanCap
    BY <1>2, ObsBoundAssumption
  <2> QED BY <1>1, <1>3, <1>4, <2>1, <2>2 DEF ObsTypeOK, Relays
<1>6. ObsShape'
  BY <1>2, <1>3, <1>4 DEF ObsShape
<1>7. ObsEvents'
  BY <1>4 DEF ObsEvents
<1>8. ObsLine' /\ ObsChain'
  BY <1>3 DEF ObsLine, ObsChain, Attached
<1>9. ObsFaultsPaid'
  <2>1. obsFaults' \in Nat /\ relay.nonce \in Nat
    BY <1>1, RelayType, ObsBoundAssumption
  <2> QED BY <1>3, <2>1 DEF ObsFaultsPaid
<1> QED BY <1>5, <1>6, <1>7, <1>8, <1>9 DEF ObsInv

LEMMA RelayStartInv == ASSUME ObsInv, RelayStart PROVE ObsInv'
<1>1. ObsTypeOK /\ ObsShape /\ ObsFaultsPaid /\ relay.pc = "down" /\ chan = <<>>
  BY DEF ObsInv, ObsShape, RelayStart
<1>2. /\ relay' = [pc |-> "read", nonce |-> relay.nonce + 1, frame |-> None]
      /\ rcv' = [n \in ObsNode |-> Fresh] /\ owned' = relay.nonce + 1
      /\ dp' = [dp EXCEPT !.pc = "start"]
      /\ UNCHANGED <<conn, events, inbox, lost, context, chan, late, obsFaults>>
  BY DEF RelayStart, conntrack
<1>3. relay.nonce \in Nat /\ late \subseteq 1 .. relay.nonce /\ obsFaults \in Nat
  BY <1>1, RelayType
<1>4. relay' \in Relays /\ relay'.pc = "read" /\ relay'.nonce = relay.nonce + 1 /\ relay'.frame = None
  BY <1>2, <1>3 DEF Relays
<1>5. /\ dp' \in [pc : {"off", "start", "dump", "replay", "begin", "rows", "live", "gap"}, stream : Nat, seq : Nat,
                 ctx : Contexts, rows : Table, known : Table] /\ dp'.pc = "start"
  BY <1>1, <1>2 DEF ObsTypeOK
<1>6. rcv' \in [ObsNode -> Receivers] /\ \A n \in ObsNode : rcv'[n] = Fresh /\ ~rcv'[n].ready
  BY <1>2, NoRowsType DEF Fresh
<1>7. ObsTypeOK'
  <2>1. late' \subseteq 1 .. relay'.nonce /\ owned' \in 1 .. relay'.nonce
    BY <1>2, <1>3, <1>4
  <2> QED BY <1>1, <1>2, <1>4, <1>5, <1>6, <2>1 DEF ObsTypeOK, Relays
<1>8. ObsShape'
  BY <1>2, <1>3, <1>4, <1>5 DEF ObsShape
<1>9. ObsEvents'
  BY <1>5 DEF ObsEvents
<1>10. ObsChain'
  BY <1>4, <1>6 DEF ObsChain, ObsNode
<1>11. ObsFaultsPaid'
  <2>1. relay.nonce <= obsFaults
    BY <1>1 DEF ObsFaultsPaid, Attached
  <2>2. Attached("own")'
    BY <1>2, <1>4 DEF Attached
  <2>3. ASSUME NEW n \in late' PROVE n < relay'.nonce
    BY <1>2, <1>3, <1>4, <2>3
  <2> QED BY <1>2, <1>3, <1>4, <2>1, <2>2, <2>3 DEF ObsFaultsPaid
<1>12. ObsLine'
  <2>1. ASSUME NEW n \in ObsNode PROVE LeadsTo(AcceptAll(rcv[n], ObsQueue(n)))' /\ InLine(rcv[n], ObsQueue(n))'
    <3>1. OnTheWay(n)' = <<>> /\ chan' = <<>>
      BY <1>1, <1>2, <1>4 DEF OnTheWay
    <3>2. ObsQueue(n)' = <<>>
      BY <3>1 DEF ObsQueue
    <3>3. AcceptAll(rcv[n], ObsQueue(n))' = AcceptAll(Fresh, <<>>)
      <4>1. rcv'[n] = Fresh
        BY <1>6
      <4> QED BY <3>2, <4>1, LineAfter
    <3>4. AcceptAll(Fresh, <<>>) = Fresh
      BY NoRowsType, AcceptAllNone
    <3>5. LeadsTo(AcceptAll(rcv[n], ObsQueue(n)))'
      <4>1. LeadsTo(AcceptAll(rcv[n], ObsQueue(n)))' <=>
              /\ dp'.pc \in Setup => AcceptAll(rcv[n], ObsQueue(n))' = Fresh
              /\ dp'.pc \in {"rows", "live"} => AcceptAll(rcv[n], ObsQueue(n))' = ObsView'
        BY DEF LeadsTo, Fresh, Setup, NoRows
      <4> QED BY <1>5, <3>3, <3>4, <4>1
    <3>6. InLine(rcv[n], ObsQueue(n))'
      <4>1. Len(<<>>) = 0
        OBVIOUS
      <4> QED BY <3>2, <4>1 DEF InLine
    <3> QED BY <3>5, <3>6
  <2> QED BY <2>1 DEF ObsLine
<1> QED BY <1>7, <1>8, <1>9, <1>10, <1>11, <1>12 DEF ObsInv

\* A frame goes from the queue of receiver n into the receiver.
LEMMA LineMoves ==
  ASSUME ObsTypeOK, ObsLine, dp' = dp, NEW n \in ObsNode, Attached(n), ObsQueue(n) # <<>>,
         ObsQueue(n)' = Tail(ObsQueue(n)), rcv' = [rcv EXCEPT ![n] = Accept(rcv[n], Head(ObsQueue(n)))],
         \A m \in ObsNode : m # n => ObsQueue(m)' = ObsQueue(m),
         \A m \in ObsNode : Attached(m)' => Attached(m)
  PROVE  ObsLine'
<1>1. ASSUME NEW m \in ObsNode, Attached(m)'
      PROVE  LeadsTo(AcceptAll(rcv[m], ObsQueue(m)))' /\ InLine(rcv[m], ObsQueue(m))'
  <2> DEFINE r == rcv[m]
             q == ObsQueue(m)
  <2>1. LeadsTo(AcceptAll(r, q)) /\ InLine(r, q) /\ q \in Seq(Frames) /\ r \in Receivers
    BY <1>1, QueueType DEF ObsLine
  <2>2. rcv \in [ObsNode -> Receivers]
    BY RelayType
  <2> DEFINE s == IF m = n THEN Accept(r, Head(q)) ELSE r
             p == IF m = n THEN Tail(q) ELSE q
  <2>3. rcv'[m] = s /\ ObsQueue(m)' = p
    BY <2>2
  <2>4. AcceptAll(s, p) = AcceptAll(r, q) /\ InLine(s, p)
    <3>1. CASE m # n
      BY <2>1, <3>1
    <3>2. CASE m = n
      <4>1. q # <<>> /\ s = Accept(r, Head(q)) /\ p = Tail(q)
        BY <3>2
      <4> HIDE DEF r, q, s, p
      <4>2. AcceptAll(Accept(r, Head(q)), Tail(q)) = AcceptAll(r, q)
        BY <2>1, <4>1, AcceptAllHead
      <4>3. InLine(Accept(r, Head(q)), Tail(q))
        BY <2>1, <4>1, InLineHead
      <4> QED BY <4>1, <4>2, <4>3
    <3> QED BY <3>1, <3>2
  <2> HIDE DEF r, q, s, p
  <2>5. AcceptAll(rcv[m], ObsQueue(m))' = AcceptAll(s, p) /\ InLine(rcv[m], ObsQueue(m))'
    BY <2>3, <2>4, LineAfter
  <2>7. LeadsTo(AcceptAll(rcv[m], ObsQueue(m)))'
    <3>1. ObsView' = ObsView
      BY DEF ObsView
    <3>2. LeadsTo(AcceptAll(rcv[m], ObsQueue(m)))' <=>
            /\ dp'.pc \in Setup => AcceptAll(rcv[m], ObsQueue(m))' = Fresh
            /\ dp'.pc \in {"rows", "live"} => AcceptAll(rcv[m], ObsQueue(m))' = ObsView'
      BY DEF LeadsTo, Fresh, Setup, NoRows
    <3> QED BY <2>1, <2>4, <2>5, <3>1, <3>2 DEF LeadsTo
  <2> QED BY <2>5, <2>7
<1> QED BY <1>1 DEF ObsLine

LEMMA ReadyKept ==
  ASSUME NEW r \in Receivers, NEW f \in Frames, r.ready => r.stream # 0, InOrder(r, f)
  PROVE  Accept(r, f).ready => Accept(r, f).stream # 0
<1>1. f.op \in {"begin", "snapshot", "synchronized", "changes", "unavailable"} /\ f.stream # 0
  BY FrameType DEF Frames
<1>2. CASE f.op = "unavailable"
  <2>1. Accept(r, f) = Fresh
    BY <1>2, AcceptType
  <2>2. Fresh.ready = FALSE
    BY DEF Fresh
  <2> QED BY <2>1, <2>2
<1>3. CASE f.op = "begin"
  <2>1. Accept(r, f) = [stream |-> f.stream, seq |-> 1, sess |-> NoRows, ready |-> FALSE, ctx |-> f.ctx]
    BY <1>3, AcceptType
  <2> QED BY <2>1
<1>4. CASE f.op = "synchronized"
  <2>1. Accept(r, f) = [r EXCEPT !.seq = f.seq, !.ready = TRUE]
    BY <1>4, AcceptType
  <2>2. f.stream = r.stream
    BY <1>4 DEF InOrder
  <2> QED BY <1>1, <2>1, <2>2 DEF Receivers
<1>5. CASE f.op \in {"snapshot", "changes"}
  <2>1. Accept(r, f) = [r EXCEPT !.seq = f.seq, !.sess = Merge(r.sess, f.rows)]
    BY <1>5, AcceptType
  <2> QED BY <2>1 DEF Receivers
<1> QED BY <1>1, <1>2, <1>3, <1>4, <1>5

\* What every receiver has still to see after a step of the relay.
LEMMA QueueAfter ==
  ASSUME NEW c \in Seq(Frames), NEW g \in Frames \cup {None}, NEW at \in {"read", "cp", "own", "ack"},
         chan' = c, relay'.pc = at, relay'.frame = g, at # "read" <=> g # None
  PROVE  /\ ObsQueue("mp")' = c
         /\ ObsQueue("cp")' = IF at = "cp" THEN <<g>> \o c ELSE c
         /\ ObsQueue("own")' = IF at \in {"cp", "own"} THEN <<g>> \o c ELSE c
<1>1. <<>> \o c = c
  OBVIOUS
<1>2. OnTheWay("mp")' = <<>>
  BY DEF OnTheWay
<1>3. OnTheWay("cp")' = IF at = "cp" THEN <<g>> ELSE <<>>
  BY DEF OnTheWay
<1>4. OnTheWay("own")' = IF at \in {"cp", "own"} THEN <<g>> ELSE <<>>
  BY DEF OnTheWay
<1> QED BY <1>1, <1>2, <1>3, <1>4 DEF ObsQueue

\* The relay goes on within its session.
LEMMA HopInv ==
  ASSUME ObsInv, UNCHANGED <<conn, events, inbox, lost, context, dp, owned, late, obsFaults>>,
         relay.pc # "down", NEW at \in {"read", "cp", "own", "ack"}, NEW g \in Frames \cup {None},
         relay' = [relay EXCEPT !.pc = at, !.frame = g], at # "read" <=> g # None,
         chan' \in Seq(Frames), Len(chan') <= ChanCap,
         rcv' \in [ObsNode -> Receivers], \A n \in ObsNode : rcv'[n].ready => rcv'[n].stream # 0,
         ObsLine', ObsChain'
  PROVE  ObsInv'
<1>1. ObsTypeOK /\ ObsShape /\ ObsEvents /\ ObsFaultsPaid
  BY DEF ObsInv
<1>2. relay' \in Relays /\ relay'.pc = at /\ relay'.nonce = relay.nonce /\ relay'.frame = g
  BY <1>1, RelayType DEF Relays
<1>3. ObsTypeOK'
  BY <1>1, <1>2 DEF ObsTypeOK, Relays
<1>4. ObsShape'
  BY <1>1, <1>2 DEF ObsShape
<1>5. ObsEvents'
  BY <1>1 DEF ObsEvents, ApplyEvents, OwnedRows
<1>6. ObsFaultsPaid'
  BY <1>1, <1>2 DEF ObsFaultsPaid, Attached
<1> QED BY <1>3, <1>4, <1>5, <1>6 DEF ObsInv

\* An attached receiver accepts the frame it is given.
LEMMA HopAccepts ==
  ASSUME ObsInv, NEW n \in ObsNode, Attached(n), ObsQueue(n) # <<>>
  PROVE  LET f == Head(ObsQueue(n))
         IN  /\ f \in Frames /\ InOrder(rcv[n], f)
             /\ [rcv EXCEPT ![n] = Accept(rcv[n], f)] \in [ObsNode -> Receivers]
             /\ \A m \in ObsNode : LET r == [rcv EXCEPT ![n] = Accept(rcv[n], f)][m] IN r.ready => r.stream # 0
<1> DEFINE q == ObsQueue(n)
           f == Head(q)
           r == rcv[n]
<1>1. ObsTypeOK /\ InLine(r, q)
  BY DEF ObsInv, ObsLine
<1>2. q \in Seq(Frames) /\ r \in Receivers
  BY <1>1, QueueType
<1>3. rcv \in [ObsNode -> Receivers] /\ \A m \in ObsNode : rcv[m].ready => rcv[m].stream # 0
  BY <1>1, RelayType
<1>4. q # <<>> /\ r = rcv[n] /\ f = Head(q) /\ ObsQueue(n) = q
  OBVIOUS
<1> HIDE DEF q, r, f
<1>5. f \in Frames /\ InOrder(r, f)
  BY <1>1, <1>2, <1>4, InLineHead
<1>6. Accept(r, f) \in Receivers
  BY <1>2, <1>5, AcceptType
<1>7. Accept(r, f).ready => Accept(r, f).stream # 0
  BY <1>2, <1>3, <1>4, <1>5, ReadyKept
<1> QED BY <1>3, <1>4, <1>5, <1>6, <1>7

LEMMA RelayReadInv == ASSUME ObsInv, RelayRead PROVE ObsInv'
<1> DEFINE f == Head(chan)
<1>1. ObsTypeOK /\ ObsShape /\ ObsLine /\ ObsChain /\ relay.pc = "read" /\ chan # <<>>
  BY DEF ObsInv, RelayRead, ObsHop
<1>2. ObsQueue("mp") = chan /\ ObsQueue("cp") = chan /\ ObsQueue("own") = chan
  BY <1>1, QueueIs
<1>3. "mp" \in ObsNode /\ Attached("mp")
  BY <1>1 DEF ObsNode, Attached
<1>4. /\ f \in Frames /\ InOrder(rcv["mp"], f)
      /\ [rcv EXCEPT !["mp"] = Accept(rcv["mp"], f)] \in [ObsNode -> Receivers]
      /\ \A m \in ObsNode : LET r == [rcv EXCEPT !["mp"] = Accept(rcv["mp"], f)][m] IN r.ready => r.stream # 0
  <2>1. LET g == Head(ObsQueue("mp"))
        IN  /\ g \in Frames /\ InOrder(rcv["mp"], g)
            /\ [rcv EXCEPT !["mp"] = Accept(rcv["mp"], g)] \in [ObsNode -> Receivers]
            /\ \A m \in ObsNode : LET r == [rcv EXCEPT !["mp"] = Accept(rcv["mp"], g)][m] IN r.ready => r.stream # 0
    BY <1>1, <1>2, <1>3, HopAccepts
  <2> QED BY <1>2, <2>1
<1>5. /\ rcv' = [rcv EXCEPT !["mp"] = Accept(rcv["mp"], f)]
      /\ relay' = [relay EXCEPT !.pc = "cp", !.frame = f] /\ chan' = Tail(chan)
      /\ UNCHANGED <<conn, events, inbox, lost, context, dp, owned, late, obsFaults>>
  BY <1>4 DEF RelayRead, ObsHop, conntrack
<1>6. chan \in Seq(Frames) /\ Len(chan) <= ChanCap /\ f # None
  BY <1>1, <1>4, DpType, FrameType
<1>7. Tail(chan) \in Seq(Frames) /\ Len(Tail(chan)) <= ChanCap /\ <<f>> \o Tail(chan) = chan
  BY <1>1, <1>6, ObsBoundAssumption
<1>8. relay'.pc = "cp" /\ relay'.frame = f /\ relay'.nonce = relay.nonce
  BY <1>1, <1>5, RelayType DEF Relays
<1> HIDE DEF f
<1>9. ObsQueue("mp")' = Tail(chan) /\ ObsQueue("cp")' = chan /\ ObsQueue("own")' = chan
  <2>1. /\ ObsQueue("mp")' = Tail(chan) /\ ObsQueue("cp")' = <<f>> \o Tail(chan)
        /\ ObsQueue("own")' = <<f>> \o Tail(chan)
    BY <1>4, <1>5, <1>6, <1>7, <1>8, QueueAfter
  <2> QED BY <1>7, <2>1
<1>10. ObsLine'
  <2>1. \A m \in ObsNode : m # "mp" => ObsQueue(m)' = ObsQueue(m)
    BY <1>2, <1>9 DEF ObsNode
  <2>2. \A m \in ObsNode : Attached(m)' => Attached(m)
    BY <1>1, <1>5, <1>8 DEF Attached
  <2>3. ObsQueue("mp")' = Tail(ObsQueue("mp")) /\ ObsQueue("mp") # <<>>
        /\ rcv' = [rcv EXCEPT !["mp"] = Accept(rcv["mp"], Head(ObsQueue("mp")))]
    BY <1>1, <1>2, <1>5, <1>9 DEF f
  <2> QED BY <1>1, <1>3, <1>5, <2>1, <2>2, <2>3, LineMoves
<1>11. ObsChain'
  <2>1. rcv'["mp"] = Accept(rcv["mp"], f) /\ rcv'["cp"] = rcv["cp"] /\ rcv'["own"] = rcv["own"]
    BY <1>1, <1>5, RelayType DEF ObsNode
  <2>2. Accept(rcv["cp"], relay.frame)' = Accept(rcv["cp"], f)
    BY <1>8, <2>1 DEF Accept, Merge, Fresh, NoRows
  <2>3. rcv["mp"] = rcv["cp"] /\ (Attached("own") => rcv["own"] = rcv["cp"])
    BY <1>1 DEF ObsChain
  <2>4. Attached("own")' => Attached("own")
    BY <1>1, <1>5, <1>8 DEF Attached
  <2> QED BY <1>8, <2>1, <2>2, <2>3, <2>4 DEF ObsChain
<1> QED BY <1>1, <1>4, <1>5, <1>6, <1>7, <1>10, <1>11, HopInv

LEMMA BridgeHop ==
  ASSUME ObsInv, relay.pc = "cp", ObsHop("cp", "cp", "own"), UNCHANGED owned
  PROVE  ObsInv'
<1> DEFINE f == relay.frame
<1>1. ObsTypeOK /\ ObsShape /\ ObsLine /\ ObsChain /\ relay.pc = "cp" /\ f # None /\ f \in Frames
  BY RelayType DEF ObsInv, ObsHop, ObsShape
<1>2. chan \in Seq(Frames) /\ Len(chan) <= ChanCap
  BY <1>1, DpType
<1>3. <<f>> \o chan # <<>> /\ Head(<<f>> \o chan) = f /\ Tail(<<f>> \o chan) = chan
  BY <1>1, <1>2
<1>4. ObsQueue("mp") = chan /\ ObsQueue("cp") = <<f>> \o chan /\ ObsQueue("own") = <<f>> \o chan
  BY <1>1, QueueIs
<1>5. "cp" \in ObsNode /\ Attached("cp")
  BY <1>1 DEF ObsNode, Attached
<1>6. /\ InOrder(rcv["cp"], f)
      /\ [rcv EXCEPT !["cp"] = Accept(rcv["cp"], f)] \in [ObsNode -> Receivers]
      /\ \A m \in ObsNode : LET r == [rcv EXCEPT !["cp"] = Accept(rcv["cp"], f)][m] IN r.ready => r.stream # 0
  <2>1. LET g == Head(ObsQueue("cp"))
        IN  /\ g \in Frames /\ InOrder(rcv["cp"], g)
            /\ [rcv EXCEPT !["cp"] = Accept(rcv["cp"], g)] \in [ObsNode -> Receivers]
            /\ \A m \in ObsNode : LET r == [rcv EXCEPT !["cp"] = Accept(rcv["cp"], g)][m] IN r.ready => r.stream # 0
    BY <1>3, <1>4, <1>5, HopAccepts
  <2> QED BY <1>3, <1>4, <2>1
<1>7. /\ rcv' = [rcv EXCEPT !["cp"] = Accept(rcv["cp"], f)]
      /\ relay' = [relay EXCEPT !.pc = "own", !.frame = f] /\ chan' = chan
      /\ UNCHANGED <<conn, events, inbox, lost, context, dp, owned, late, obsFaults>>
  BY <1>6 DEF ObsHop, conntrack
<1>8. relay'.pc = "own" /\ relay'.frame = f /\ relay'.nonce = relay.nonce
  BY <1>1, <1>7, RelayType DEF Relays
<1> HIDE DEF f
<1>9. ObsQueue("mp")' = chan /\ ObsQueue("cp")' = chan /\ ObsQueue("own")' = <<f>> \o chan
  BY <1>1, <1>2, <1>7, <1>8, QueueAfter
<1>10. ObsLine'
  <2>1. \A m \in ObsNode : m # "cp" => ObsQueue(m)' = ObsQueue(m)
    BY <1>4, <1>9 DEF ObsNode
  <2>2. \A m \in ObsNode : Attached(m)' => Attached(m)
    BY <1>1, <1>7, <1>8 DEF Attached
  <2>3. ObsQueue("cp")' = Tail(ObsQueue("cp")) /\ ObsQueue("cp") # <<>>
        /\ rcv' = [rcv EXCEPT !["cp"] = Accept(rcv["cp"], Head(ObsQueue("cp")))]
    BY <1>3, <1>4, <1>7, <1>9
  <2> QED BY <1>1, <1>5, <1>7, <2>1, <2>2, <2>3, LineMoves
<1>11. ObsChain'
  <2>1. rcv'["cp"] = Accept(rcv["cp"], f) /\ rcv'["mp"] = rcv["mp"] /\ rcv'["own"] = rcv["own"]
    BY <1>1, <1>7, RelayType DEF ObsNode
  <2>2. Accept(rcv["own"], relay.frame)' = Accept(rcv'["own"], f)
    BY <1>8 DEF Accept, Merge, Fresh, NoRows
  <2>3. rcv["mp"] = Accept(rcv["cp"], f) /\ (Attached("own") => rcv["own"] = rcv["cp"])
    BY <1>1 DEF ObsChain, f
  <2>4. Attached("own")' => Attached("own")
    BY <1>1, <1>7, <1>8 DEF Attached
  <2> QED BY <1>5, <1>8, <2>1, <2>2, <2>3, <2>4 DEF ObsChain
<1> QED BY <1>1, <1>2, <1>6, <1>7, <1>10, <1>11, HopInv

LEMMA OwnerHop ==
  ASSUME ObsInv, owned = relay.nonce, ObsHop("own", "own", "ack"), UNCHANGED owned
  PROVE  ObsInv'
<1> DEFINE f == relay.frame
<1>1. ObsTypeOK /\ ObsShape /\ ObsLine /\ ObsChain /\ relay.pc = "own" /\ f # None /\ f \in Frames
  BY RelayType DEF ObsInv, ObsHop, ObsShape
<1>2. chan \in Seq(Frames) /\ Len(chan) <= ChanCap
  BY <1>1, DpType
<1>3. <<f>> \o chan # <<>> /\ Head(<<f>> \o chan) = f /\ Tail(<<f>> \o chan) = chan
  BY <1>1, <1>2
<1>4. ObsQueue("mp") = chan /\ ObsQueue("cp") = chan /\ ObsQueue("own") = <<f>> \o chan
  BY <1>1, QueueIs
<1>5. "own" \in ObsNode /\ Attached("own")
  BY <1>1 DEF ObsNode, Attached
<1>6. /\ InOrder(rcv["own"], f)
      /\ [rcv EXCEPT !["own"] = Accept(rcv["own"], f)] \in [ObsNode -> Receivers]
      /\ \A m \in ObsNode : LET r == [rcv EXCEPT !["own"] = Accept(rcv["own"], f)][m] IN r.ready => r.stream # 0
  <2>1. LET g == Head(ObsQueue("own"))
        IN  /\ g \in Frames /\ InOrder(rcv["own"], g)
            /\ [rcv EXCEPT !["own"] = Accept(rcv["own"], g)] \in [ObsNode -> Receivers]
            /\ \A m \in ObsNode : LET r == [rcv EXCEPT !["own"] = Accept(rcv["own"], g)][m] IN r.ready => r.stream # 0
    BY <1>3, <1>4, <1>5, HopAccepts
  <2> QED BY <1>3, <1>4, <2>1
<1>7. /\ rcv' = [rcv EXCEPT !["own"] = Accept(rcv["own"], f)]
      /\ relay' = [relay EXCEPT !.pc = "ack", !.frame = f] /\ chan' = chan
      /\ UNCHANGED <<conn, events, inbox, lost, context, dp, owned, late, obsFaults>>
  BY <1>6 DEF ObsHop, conntrack
<1>8. relay'.pc = "ack" /\ relay'.frame = f /\ relay'.nonce = relay.nonce
  BY <1>1, <1>7, RelayType DEF Relays
<1> HIDE DEF f
<1>9. ObsQueue("mp")' = chan /\ ObsQueue("cp")' = chan /\ ObsQueue("own")' = chan
  BY <1>1, <1>2, <1>7, <1>8, QueueAfter
<1>10. ObsLine'
  <2>1. \A m \in ObsNode : m # "own" => ObsQueue(m)' = ObsQueue(m)
    BY <1>4, <1>9 DEF ObsNode
  <2>2. \A m \in ObsNode : Attached(m)' => Attached(m)
    BY <1>1, <1>7, <1>8 DEF Attached
  <2>3. ObsQueue("own")' = Tail(ObsQueue("own")) /\ ObsQueue("own") # <<>>
        /\ rcv' = [rcv EXCEPT !["own"] = Accept(rcv["own"], Head(ObsQueue("own")))]
    BY <1>3, <1>4, <1>7, <1>9
  <2> QED BY <1>1, <1>5, <1>7, <2>1, <2>2, <2>3, LineMoves
<1>11. ObsChain'
  <2>1. rcv'["own"] = Accept(rcv["own"], f) /\ rcv'["mp"] = rcv["mp"] /\ rcv'["cp"] = rcv["cp"]
    BY <1>1, <1>7, RelayType DEF ObsNode
  <2>2. Accept(rcv["own"], relay.frame)' = Accept(rcv'["own"], f)
    BY <1>8 DEF Accept, Merge, Fresh, NoRows
  <2>3. rcv["mp"] = rcv["cp"] /\ (Attached("own") => rcv["cp"] = Accept(rcv["own"], f))
    BY <1>1 DEF ObsChain, f
  <2>4. Attached("own")' => Attached("own")
    BY <1>1, <1>7, <1>8 DEF Attached
  <2> QED BY <1>5, <1>8, <2>1, <2>2, <2>3, <2>4 DEF ObsChain
<1> QED BY <1>1, <1>2, <1>6, <1>7, <1>10, <1>11, HopInv

LEMMA OwnerAcceptInv == ASSUME ObsInv, OwnerAccept PROVE ObsInv'
<1>1. CASE owned = relay.nonce /\ ObsHop("own", "own", "ack") /\ owned' = IF relay'.pc = "down" THEN None ELSE owned
  <2> DEFINE f == relay.frame
  <2>1. ObsTypeOK /\ ObsShape /\ relay.pc = "own" /\ f # None /\ f \in Frames
    BY <1>1, RelayType DEF ObsInv, ObsHop, ObsShape
  <2>2. ObsQueue("own") = <<f>> \o chan /\ chan \in Seq(Frames)
    BY <2>1, QueueIs, DpType
  <2>3. <<f>> \o chan # <<>> /\ Head(<<f>> \o chan) = f
    BY <2>1, <2>2
  <2>4. "own" \in ObsNode /\ Attached("own")
    BY <1>1, <2>1 DEF ObsNode, Attached
  <2>5. InOrder(rcv["own"], f)
    BY <2>2, <2>3, <2>4, HopAccepts
  <2>6. relay' = [relay EXCEPT !.pc = "ack", !.frame = f]
    BY <1>1, <2>5 DEF ObsHop
  <2>7. relay'.pc = "ack"
    BY <2>1, <2>6, RelayType DEF Relays
  <2> QED BY <1>1, <2>7, OwnerHop
<1>2. CASE /\ owned # relay.nonce /\ relay.pc = "own" /\ Ends
           /\ UNCHANGED <<conntrack, inbox, lost, context, rcv, owned, obsFaults>>
  <2>1. ObsTypeOK /\ relay.nonce <= obsFaults
    BY <1>2 DEF ObsInv, ObsFaultsPaid, Attached
  <2>2. /\ rcv' \in [ObsNode -> Receivers] /\ (\A n \in ObsNode : rcv'[n].ready => rcv'[n].stream # 0)
        /\ owned' \in 1 .. relay.nonce \cup {None} /\ obsFaults' \in 0 .. ObsMaxFaults
    BY <1>2, <2>1 DEF ObsTypeOK
  <2> QED BY <1>2, <2>1, <2>2, EndsInv DEF conntrack
<1> QED BY <1>1, <1>2 DEF OwnerAccept

LEMMA RelayAckInv == ASSUME ObsInv, RelayAck PROVE ObsInv'
<1>1. ObsTypeOK /\ ObsShape /\ ObsLine /\ ObsChain /\ ObsFaultsPaid /\ relay.pc = "ack"
  BY DEF ObsInv, RelayAck
<1>2. UNCHANGED <<conn, events, inbox, lost, context, rcv, owned, obsFaults>>
  BY DEF RelayAck, conntrack
<1>3. CASE Summary(rcv["own"]) = Summary(rcv["cp"]) /\ Summary(rcv["own"]) = Summary(rcv["mp"])
  <2>1. relay' = [relay EXCEPT !.pc = "read", !.frame = None] /\ UNCHANGED <<dp, chan, late>>
    BY <1>3 DEF RelayAck
  <2>2. relay'.pc = "read" /\ relay'.frame = None /\ relay'.nonce = relay.nonce
    BY <1>1, <2>1, RelayType DEF Relays
  <2>3. chan \in Seq(Frames) /\ Len(chan) <= ChanCap
    BY <1>1, DpType
  <2>4. \A n \in ObsNode : ObsQueue(n)' = ObsQueue(n) /\ (Attached(n)' <=> Attached(n))
    <3>1. ObsQueue("mp") = chan /\ ObsQueue("cp") = chan /\ ObsQueue("own") = chan
      BY <1>1, QueueIs
    <3>2. ObsQueue("mp")' = chan /\ ObsQueue("cp")' = chan /\ ObsQueue("own")' = chan
      BY <2>1, <2>2, <2>3, QueueAfter
    <3>3. \A n \in ObsNode : Attached(n)' <=> Attached(n)
      BY <1>1, <1>2, <2>2 DEF Attached
    <3> QED BY <3>1, <3>2, <3>3 DEF ObsNode
  <2>5. ObsLine'
    <3>1. ASSUME NEW n \in ObsNode, Attached(n)'
          PROVE  LeadsTo(AcceptAll(rcv[n], ObsQueue(n)))' /\ InLine(rcv[n], ObsQueue(n))'
      <4>1. LeadsTo(AcceptAll(rcv[n], ObsQueue(n))) /\ InLine(rcv[n], ObsQueue(n))
        BY <1>1, <2>4, <3>1 DEF ObsLine
      <4>2. rcv'[n] = rcv[n] /\ ObsQueue(n)' = ObsQueue(n) /\ dp' = dp
        BY <1>2, <2>1, <2>4
      <4>3. InLine(rcv[n], ObsQueue(n))' /\ AcceptAll(rcv[n], ObsQueue(n))' = AcceptAll(rcv[n], ObsQueue(n))
        BY <4>1, <4>2, LineAfter
      <4>5. ObsView' = ObsView
        BY <4>2 DEF ObsView
      <4>6. LeadsTo(AcceptAll(rcv[n], ObsQueue(n)))'
        BY <4>1, <4>2, <4>3, <4>5 DEF LeadsTo
      <4> QED BY <4>3, <4>6
    <3> QED BY <3>1 DEF ObsLine
  <2>6. ObsChain'
    <3>1. Attached("own")' => Attached("own")
      BY <2>4 DEF ObsNode
    <3> QED BY <1>1, <1>2, <2>2, <3>1 DEF ObsChain
  <2>7. rcv' \in [ObsNode -> Receivers] /\ \A n \in ObsNode : rcv'[n].ready => rcv'[n].stream # 0
    BY <1>1, <1>2, RelayType
  <2> QED BY <1>1, <1>2, <2>1, <2>3, <2>5, <2>6, <2>7, HopInv
<1>4. CASE ~(Summary(rcv["own"]) = Summary(rcv["cp"]) /\ Summary(rcv["own"]) = Summary(rcv["mp"]))
  <2>1. Ends
    BY <1>4 DEF RelayAck
  <2>2. ~Attached("own")
    BY <1>1, <1>4 DEF ObsChain
  <2>3. relay.nonce <= obsFaults
    BY <1>1, <2>2 DEF ObsFaultsPaid
  <2>4. /\ rcv' \in [ObsNode -> Receivers] /\ (\A n \in ObsNode : rcv'[n].ready => rcv'[n].stream # 0)
        /\ owned' \in 1 .. relay.nonce \cup {None} /\ obsFaults' \in 0 .. ObsMaxFaults
    BY <1>1, <1>2 DEF ObsTypeOK
  <2> QED BY <1>1, <1>2, <2>1, <2>3, <2>4, EndsInv
<1> QED BY <1>3, <1>4

LEMMA RelayIdleInv == ASSUME ObsInv, RelayIdle PROVE ObsInv'
<1>1. ObsTypeOK /\ relay.nonce <= obsFaults /\ relay.pc # "down" /\ Ends
  BY DEF ObsInv, ObsFaultsPaid, Attached, RelayIdle
<1>2. UNCHANGED <<conn, events, inbox, lost, context, rcv, owned, obsFaults>>
  BY DEF RelayIdle, conntrack
<1>3. /\ rcv' \in [ObsNode -> Receivers] /\ (\A n \in ObsNode : rcv'[n].ready => rcv'[n].stream # 0)
      /\ owned' \in 1 .. relay.nonce \cup {None} /\ obsFaults' \in 0 .. ObsMaxFaults
  BY <1>1, <1>2 DEF ObsTypeOK
<1> QED BY <1>1, <1>2, <1>3, EndsInv

LEMMA RelayDiesInv == ASSUME ObsInv, RelayDies PROVE ObsInv'
<1>1. ObsTypeOK /\ relay.nonce <= obsFaults + 1 /\ relay.pc # "down" /\ Ends
  BY DEF ObsInv, ObsFaultsPaid, RelayDies
<1>2. UNCHANGED <<conn, events, inbox, lost, context, rcv, owned>> /\ obsFaults < ObsMaxFaults /\ obsFaults' = obsFaults + 1
  BY DEF RelayDies, ObsFault, conntrack
<1>3. obsFaults' \in 0 .. ObsMaxFaults
  BY <1>1, <1>2, RelayType, ObsBoundAssumption
<1>4. /\ rcv' \in [ObsNode -> Receivers] /\ (\A n \in ObsNode : rcv'[n].ready => rcv'[n].stream # 0)
      /\ owned' \in 1 .. relay.nonce \cup {None}
  BY <1>1, <1>2 DEF ObsTypeOK
<1> QED BY <1>1, <1>2, <1>3, <1>4, EndsInv

LEMMA RelayingInv == ASSUME ObsInv, Relaying PROVE ObsInv'
<1>1. RelayRead => ObsInv'
  BY RelayReadInv
<1>2. BridgeAccept => ObsInv'
  BY BridgeHop DEF BridgeAccept, ObsHop
<1> QED BY <1>1, <1>2, RelayStartInv, OwnerAcceptInv, RelayAckInv, RelayIdleInv DEF Relaying

\* The owner gives up a session that is over, or has a fault to show for it.
LEMMA OwnerGone ==
  ASSUME ObsInv, UNCHANGED <<conn, events, inbox, lost, context, dp, chan, relay>>,
         owned' = None, rcv' = [rcv EXCEPT !["own"] = Fresh], late' \subseteq late,
         obsFaults' \in 0 .. ObsMaxFaults, relay.nonce <= obsFaults'
  PROVE  ObsInv'
<1>1. ObsTypeOK /\ ObsShape /\ ObsEvents /\ ObsLine /\ ObsChain /\ ObsFaultsPaid
  BY DEF ObsInv
<1>2. rcv \in [ObsNode -> Receivers] /\ (\A n \in ObsNode : rcv[n].ready => rcv[n].stream # 0) /\ relay.nonce \in Nat
  BY <1>1, RelayType
<1>3. Fresh \in Receivers /\ Fresh.ready = FALSE
  BY NoRowsType DEF Fresh
<1>4. rcv' \in [ObsNode -> Receivers] /\ (\A n \in ObsNode : rcv'[n].ready => rcv'[n].stream # 0)
      /\ rcv'["mp"] = rcv["mp"] /\ rcv'["cp"] = rcv["cp"]
  BY <1>2, <1>3 DEF ObsNode
<1>5. ObsTypeOK'
  BY <1>1, <1>4 DEF ObsTypeOK
<1>6. ObsShape' /\ ObsEvents'
  BY <1>1 DEF ObsShape, ObsEvents, ApplyEvents, OwnedRows
<1>7. ~Attached("own")' /\ \A n \in {"mp", "cp"} : Attached(n)' <=> Attached(n)
  BY <1>2, ObsNoneAssumption DEF Attached
<1>8. ObsLine'
  <2>1. ASSUME NEW n \in {"mp", "cp"}, Attached(n)'
        PROVE  LeadsTo(AcceptAll(rcv[n], ObsQueue(n)))' /\ InLine(rcv[n], ObsQueue(n))'
    <3>1. LeadsTo(AcceptAll(rcv[n], ObsQueue(n))) /\ InLine(rcv[n], ObsQueue(n))
      BY <1>1, <1>7, <2>1 DEF ObsLine, ObsNode
    <3>2. rcv'[n] = rcv[n] /\ ObsQueue(n)' = ObsQueue(n) /\ dp' = dp
      BY <1>4 DEF ObsQueue, OnTheWay
    <3>3. InLine(rcv[n], ObsQueue(n))' /\ AcceptAll(rcv[n], ObsQueue(n))' = AcceptAll(rcv[n], ObsQueue(n))
      <4>1. n \in ObsNode
        BY DEF ObsNode
      <4> QED BY <3>1, <3>2, <4>1, LineAfter
    <3>5. ObsView' = ObsView
      BY <3>2 DEF ObsView
    <3>6. LeadsTo(AcceptAll(rcv[n], ObsQueue(n)))'
      BY <3>1, <3>2, <3>3, <3>5 DEF LeadsTo
    <3> QED BY <3>3, <3>6
  <2> QED BY <1>7, <2>1 DEF ObsLine, ObsNode
<1>9. ObsChain'
  <2>1. Accept(rcv["cp"], relay.frame)' = Accept(rcv["cp"], relay.frame)
    BY <1>4 DEF Accept, Merge, Fresh, NoRows
  <2> QED BY <1>1, <1>4, <1>7, <2>1 DEF ObsChain
<1>10. ObsFaultsPaid'
  <2>1. obsFaults' \in Nat
    BY ObsBoundAssumption
  <2> QED BY <1>1, <1>2, <2>1 DEF ObsFaultsPaid
<1> QED BY <1>5, <1>6, <1>8, <1>9, <1>10 DEF ObsInv

\* Steps that leave the stream as it is.
LEMMA StreamKept ==
  ASSUME ObsInv, UNCHANGED <<conn, events, inbox, lost, dp, chan, relay, rcv, owned>>,
         context' \in Generations, late' \subseteq late, obsFaults' \in 0 .. ObsMaxFaults, obsFaults <= obsFaults'
  PROVE  ObsInv'
<1>1. ObsTypeOK /\ ObsShape /\ ObsEvents /\ ObsLine /\ ObsChain /\ ObsFaultsPaid
  BY DEF ObsInv
<1>2. ObsTypeOK'
  BY <1>1 DEF ObsTypeOK
<1>3. ObsShape' /\ ObsEvents' /\ ObsChain'
  BY <1>1 DEF ObsShape, ObsEvents, ApplyEvents, OwnedRows, ObsChain, Attached
<1>4. ObsLine'
  <2>1. ObsView' = ObsView
    BY DEF ObsView
  <2> QED BY <1>1, <2>1, LineKept
<1>5. ObsFaultsPaid'
  <2>1. relay.nonce \in Nat /\ obsFaults \in Nat /\ obsFaults' \in Nat
    BY <1>1, RelayType, ObsBoundAssumption
  <2> QED BY <1>1, <2>1 DEF ObsFaultsPaid, Attached
<1> QED BY <1>2, <1>3, <1>4, <1>5 DEF ObsInv

LEMMA OwnerInv == ASSUME ObsInv, (\E n \in late : OwnerClose(n)) \/ OwnerLost PROVE ObsInv'
<1>1. ObsTypeOK /\ ObsFaultsPaid
  BY DEF ObsInv
<1>2. /\ relay.nonce \in Nat /\ late \subseteq 1 .. relay.nonce /\ obsFaults \in Nat /\ obsFaults <= ObsMaxFaults
      /\ ObsMaxFaults \in Nat
  BY <1>1, RelayType, ObsBoundAssumption
<1>3. ASSUME NEW n \in late, OwnerClose(n) PROVE ObsInv'
  <2>1. late' = late \ {n} /\ UNCHANGED <<conn, events, inbox, lost, context, dp, chan, relay, obsFaults>>
    BY <1>3 DEF OwnerClose, conntrack
  <2>2. late' \subseteq late /\ obsFaults' \in 0 .. ObsMaxFaults /\ obsFaults <= obsFaults'
    BY <1>2, <2>1
  <2>3. CASE owned = n
    <3>1. ~Attached("own")
      <4>1. n \in Nat /\ (n < relay.nonce \/ relay.pc = "down")
        BY <1>1, <1>2 DEF ObsFaultsPaid
      <4> QED BY <1>2, <2>3, <4>1 DEF Attached
    <3>2. relay.nonce <= obsFaults'
      BY <1>1, <2>1, <3>1 DEF ObsFaultsPaid
    <3>3. owned' = None /\ rcv' = [rcv EXCEPT !["own"] = Fresh]
      BY <1>3, <2>3 DEF OwnerClose
    <3> QED BY <2>1, <2>2, <3>2, <3>3, OwnerGone
  <2>4. CASE owned # n
    <3>1. UNCHANGED <<owned, rcv>> /\ context' \in Generations
      BY <1>1, <1>3, <2>1, <2>4 DEF OwnerClose, ObsTypeOK
    <3> QED BY <2>1, <2>2, <3>1, StreamKept
  <2> QED BY <2>3, <2>4
<1>4. CASE OwnerLost
  <2>1. /\ owned' = None /\ rcv' = [rcv EXCEPT !["own"] = Fresh] /\ late' = late /\ obsFaults' = obsFaults + 1
        /\ UNCHANGED <<conn, events, inbox, lost, context, dp, chan, relay>> /\ obsFaults < ObsMaxFaults
    BY <1>4 DEF OwnerLost, ObsFault, conntrack
  <2>2. obsFaults' \in 0 .. ObsMaxFaults /\ relay.nonce <= obsFaults'
    BY <1>1, <1>2, <2>1 DEF ObsFaultsPaid
  <2> QED BY <2>1, <2>2, OwnerGone
<1> QED BY <1>3, <1>4

LEMMA NewContextInv == ASSUME ObsInv, NEW k \in {"policy", "topology"}, NewContext(k) PROVE ObsInv'
<1>1. ObsTypeOK
  BY DEF ObsInv
<1>2. obsFaults \in Nat /\ obsFaults <= ObsMaxFaults /\ ObsMaxFaults \in Nat /\ context \in Generations
  BY <1>1, RelayType, ObsBoundAssumption DEF ObsTypeOK
<1>3. /\ context' = [context EXCEPT ![k] = 1] /\ obsFaults' = obsFaults + 1 /\ obsFaults < ObsMaxFaults
      /\ UNCHANGED <<conn, events, inbox, lost, dp, chan, relay, rcv, owned, late>>
  BY DEF NewContext, ObsFault, conntrack
<1>4. context' \in Generations
  BY <1>2, <1>3 DEF Generations
<1>5. obsFaults' \in 0 .. ObsMaxFaults /\ obsFaults <= obsFaults' /\ late' \subseteq late
  BY <1>2, <1>3
<1> QED BY <1>3, <1>4, <1>5, StreamKept

LEMMA ObsInitInv == ObsInit => ObsInv
<1> SUFFICES ASSUME ObsInit PROVE ObsInv
  OBVIOUS
<1>1. NoRows \in Table /\ Fresh \in Receivers /\ Fresh.ready = FALSE /\ 0 \in 0 .. ObsVersion /\ 0 \in 0 .. ObsMaxFaults
  BY NoRowsType, ObsBoundAssumption DEF Fresh
<1>2. /\ conn \in [ObsId -> [v : 0 .. ObsVersion, own : BOOLEAN]] /\ context \in Generations
  BY <1>1 DEF ObsInit, Generations
<1>3. dp \in [pc : {"off", "start", "dump", "replay", "begin", "rows", "live", "gap"}, stream : Nat, seq : Nat,
              ctx : Contexts, rows : Table, known : Table] /\ dp.pc = "off"
  BY <1>1 DEF ObsInit, Contexts
<1>4. relay \in Relays /\ relay.pc = "down" /\ relay.frame = None /\ relay.nonce = 0
  BY DEF ObsInit, Relays
<1>5. rcv \in [ObsNode -> Receivers] /\ \A n \in ObsNode : rcv[n].ready = FALSE
  BY <1>1 DEF ObsInit
<1>6. chan = <<>> /\ inbox = <<>> /\ owned = None /\ late = {} /\ obsFaults = 0
  BY DEF ObsInit
<1>7. ObsTypeOK
  <2>1. Len(inbox) <= QueueCap /\ Len(chan) <= ChanCap /\ inbox \in Seq(ObsEvent) /\ chan \in Seq(Frames)
    BY <1>6, ObsBoundAssumption
  <2>2. owned \in 1 .. relay.nonce \cup {None} /\ late \subseteq 1 .. relay.nonce /\ obsFaults \in 0 .. ObsMaxFaults
    BY <1>1, <1>6
  <2> QED BY <1>2, <1>3, <1>4, <1>5, <2>1, <2>2 DEF ObsTypeOK, Relays
<1>8. ObsShape
  BY <1>3, <1>4, <1>6 DEF ObsShape
<1>9. ObsEvents /\ ObsLine /\ ObsChain
  BY <1>3, <1>4 DEF ObsEvents, ObsLine, ObsChain, Attached
<1>10. ObsFaultsPaid
  BY <1>4, <1>6 DEF ObsFaultsPaid
<1> QED BY <1>7, <1>8, <1>9, <1>10 DEF ObsInv

\* What the invariant says of a receiver while the producer is sending.
LEMMA ObsInvPrefix == ObsInv => PrefixHeld
<1> SUFFICES ASSUME ObsInv, NEW n \in ObsNode, dp.pc \in Sending, relay.pc # "down", n = "own" => owned = relay.nonce
             PROVE  AcceptAll(rcv[n], OnTheWay(n) \o chan).sess = dp.known
  BY DEF PrefixHeld
<1>1. ObsTypeOK /\ Attached(n) /\ ObsShape
  BY DEF ObsInv, Attached
<1>2. LeadsTo(AcceptAll(rcv[n], OnTheWay(n) \o chan))
  BY <1>1 DEF ObsInv, ObsLine, ObsQueue
<1>3. rcv[n] \in Receivers /\ OnTheWay(n) \o chan \in Seq(Frames)
  BY <1>1, QueueType DEF ObsQueue
<1>4. AcceptAll(rcv[n], OnTheWay(n) \o chan) \in Receivers
  BY <1>3, AcceptAllIs
<1>5. CASE dp.pc = "begin"
  <2>1. AcceptAll(rcv[n], OnTheWay(n) \o chan) = Fresh /\ dp.known = NoRows
    BY <1>1, <1>2, <1>5 DEF LeadsTo, Setup, ObsShape
  <2>2. Fresh.sess = NoRows
    BY DEF Fresh
  <2> QED BY <2>1, <2>2
<1>6. CASE dp.pc \in {"rows", "live"}
  BY <1>1, <1>2, <1>4, <1>6, ViewInOrder
<1> QED BY <1>5, <1>6 DEF Sending

LEMMA ObsInvNext == ObsInv /\ [ObsNext]_obsVars => ObsInv'
<1> SUFFICES ASSUME ObsInv, [ObsNext]_obsVars PROVE ObsInv'
  OBVIOUS
<1>1. CASE UNCHANGED obsVars
  <2>1. obsFaults \in 0 .. ObsMaxFaults /\ obsFaults <= obsFaults /\ context \in Generations
    <3>1. ObsTypeOK
      BY DEF ObsInv
    <3>2. obsFaults \in 0 .. ObsMaxFaults /\ obsFaults \in Nat
      BY <3>1, RelayType DEF ObsTypeOK
    <3> QED BY <3>1, <3>2 DEF ObsTypeOK
  <2> QED BY <1>1, <2>1, StreamKept DEF obsVars
<1> QED BY <1>1, KernelInv, NewContextInv, ProducerInv, RelayingInv, OwnerInv, RelayDiesInv DEF ObsNext

\* The view of the sessions that the management plane, the bridge and the owner
\* have is a prefix of what the producer saw, which with the events still queued
\* is the kernel's table; all three agree between two frames; and a session only
\* ends for a fault of its own.
THEOREM ObsSpecSafe == ObsSpec => []ObsSafe
<1>1. ObsInit => ObsInv
  BY ObsInitInv
<1>2. ObsInv /\ [ObsNext]_obsVars => ObsInv'
  BY ObsInvNext
<1>3. ObsInv => ObsSafe
  <2> SUFFICES ASSUME ObsInv PROVE ObsSafe
    OBVIOUS
  <2>1. ObsTypeOK /\ SessionKept
    BY DEF ObsInv, ObsFaultsPaid, SessionKept
  <2>2. NoLostChange
    <3>1. dp.pc = "live" /\ ~lost => ApplyEvents(dp.known, inbox) = OwnedRows
      BY DEF ObsInv, ObsEvents
    <3>2. dp.pc \in {"begin", "rows"} /\ ~lost => ApplyEvents(dp.rows, inbox) = OwnedRows
      BY DEF ObsInv, ObsEvents
    <3> QED BY <3>1, <3>2 DEF NoLostChange, Sending
  <2>3. SameView
    BY DEF ObsInv, ObsChain, SameView, Attached
  <2> QED BY <2>1, <2>2, <2>3, ObsInvPrefix DEF ObsSafe
<1> QED BY <1>1, <1>2, <1>3, PTL DEF ObsSpec
=============================================================================
