--------------------------- MODULE Fe100Sessions ---------------------------
(***************************************************************************)
(* The FE100 session owner: SessionManager and its durable Journal, the    *)
(* flow-ID allocator it draws from, and the native table it programs.      *)
(*                                                                         *)
(* A session is a pair of directional flow entries.  Intent is committed   *)
(* to the journal before any table write, every table call may fail with   *)
(* its effect unknown, the process may stop between any two steps, and     *)
(* other table owners may write while this one is down (they need the      *)
(* table lock it holds while up).                                          *)
(*                                                                         *)
(* One action is one journal transaction, one native table call or one     *)
(* branch of the Python between them.  A read of the table is folded into  *)
(* the step that uses it: the lock is held, so nothing can change between. *)
(***************************************************************************)
EXTENDS Integers, FiniteSets

CONSTANTS
  Sid,        \* session identifiers a caller may use
  Key,        \* flow keys (the 16-byte tuple of an entry)
  Rev,        \* policy revisions a session may be tagged with
  LastFid,    \* last flow ID of the commissioned range 1..LastFid
  MaxFaults,  \* bound on failures, crashes and foreign writes together
  NoRow       \* a session the journal (or the owner's memory) does not hold

Dir == {1, 2}
Pairs == {p \in [Dir -> Key] : p[1] # p[2]}
RowState == {"installing", "installed", "removing", "unknown"}
Row == [key : Pairs, fid : [Dir -> Nat], rev : Rev, st : RowState]

ASSUME FidAssumption == LastFid \in Nat
ASSUME FaultAssumption == MaxFaults \in Nat
ASSUME NoRowAssumption == NoRow \notin Row

\* A table slot.  A FLOWADD leaves "identity" (key and flow ID only); the
\* FLOWUPDATE that follows makes it "full" (forwarding action present).
Slot == [fid : Nat, act : {"none", "identity", "full"}]
Empty == [fid |-> 0, act |-> "none"]
Foreign == [fid |-> LastFid + 1, act |-> "full"]  \* outside the reserved range

Steps == {"down", "idle", "preflight", "put", "add", "update", "commit", "undo",
          "undone", "next", "removing", "delete", "forget", "taint"}
Goals == {"none", "revoke", "recover", "invalidate"}

VARIABLES
  hw,                 \* the FE100 flow table
  journal,            \* durable: session rows of the sqlite journal
  nextFid,            \* durable: next_id of hardware_flow_ids
  sessions,           \* SessionManager.sessions
  recovery_required,  \* SessionManager.recovery_required
  failed,             \* FlowIds.failed
  pc, cur, req, dir,  \* where install/remove is: session, its row, direction
  goal, todo,         \* why sessions are being removed, and which remain
  faults              \* failures so far (bounded by MaxFaults)

durable == <<hw, journal, nextFid>>
memory == <<sessions, recovery_required, failed>>
control == <<pc, cur, req, dir, goal, todo>>
vars == <<hw, journal, nextFid, sessions, recovery_required, failed,
          pc, cur, req, dir, goal, todo, faults>>

----------------------------------------------------------------------------
Ident(f) == [fid |-> f, act |-> "identity"]
Full(f) == [fid |-> f, act |-> "full"]

Held(table) == {s \in Sid : table[s] # NoRow}

\* What may be left behind by a call that raised: the change or nothing.
Ambiguous(k, new) == hw' \in {hw, [hw EXCEPT ![k] = new]}

Fault == faults < MaxFaults /\ faults' = faults + 1
NoFault == UNCHANGED faults

\* Back to the caller; the working registers are cleared.
Return ==
  /\ pc' = "idle" /\ req' = NoRow /\ dir' = 1
  /\ goal' = "none" /\ todo' = {} /\ cur' = cur

Goto(step) == pc' = step /\ UNCHANGED <<cur, req, dir, goal, todo>>
GotoDir(step, d) == pc' = step /\ dir' = d /\ UNCHANGED <<cur, req, goal, todo>>
----------------------------------------------------------------------------
(* SessionManager._save and _forget: the journal first, memory only after  *)
(* it committed; a storage failure raises with recovery_required set.      *)

Save(s, row) ==
  /\ journal' = [journal EXCEPT ![s] = row]
  /\ sessions' = [sessions EXCEPT ![s] = row]
  /\ UNCHANGED recovery_required

Forget(s) ==
  /\ journal' = [journal EXCEPT ![s] = NoRow]
  /\ sessions' = [sessions EXCEPT ![s] = NoRow]
  /\ UNCHANGED recovery_required

StorageFails ==
  /\ recovery_required' = TRUE
  /\ UNCHANGED <<journal, sessions>>

----------------------------------------------------------------------------
(* install(): called with a fresh pair of reserved flow IDs.               *)

\* assign_pair -> reserve_pair: the IDs are durably burned before install
\* is entered, whatever install then decides.
Reserve(s, p, r) ==
  /\ pc = "idle" /\ ~failed
  /\ nextFid + 1 <= LastFid
  /\ nextFid' = nextFid + 2
  /\ pc' = "preflight" /\ cur' = s /\ dir' = 1
  /\ req' = [key |-> p, fid |-> [i \in Dir |-> nextFid + i - 1],
             rev |-> r, st |-> "installing"]
  /\ UNCHANGED <<hw, journal, memory, goal, todo, faults>>

\* The range is exhausted, or the reservation could not be committed: the
\* allocator is fenced for the life of the process.
ReserveFails ==
  /\ pc = "idle" /\ ~failed
  /\ IF nextFid + 1 <= LastFid THEN Fault ELSE NoFault
  /\ failed' = TRUE
  /\ UNCHANGED <<durable, sessions, recovery_required, control>>

Preflight ==
  /\ pc = "preflight"
  /\ ~recovery_required
  /\ sessions[cur] = NoRow
  /\ \A i \in Dir : hw[req.key[i]].act = "none"
  /\ Goto("put")
  /\ UNCHANGED <<durable, memory, faults>>

\* Not ready, session or key already held, recovery pending, or a lookup
\* that raised: nothing has been written, the caller gets the exception.
Refuse ==
  /\ pc = "preflight"
  /\ Return
  /\ UNCHANGED <<durable, memory, faults>>

PutIntent ==
  /\ pc = "put"
  /\ Save(cur, req)
  /\ GotoDir("add", 1)
  /\ UNCHANGED <<hw, nextFid, failed, faults>>

PutIntentFails ==
  /\ pc = "put" /\ Fault
  /\ StorageFails
  /\ Return
  /\ UNCHANGED <<hw, nextFid, failed>>

\* FLOWADD: key and flow ID only.
FlowAdd ==
  /\ pc = "add"
  /\ hw' = [hw EXCEPT ![req.key[dir]] = Ident(req.fid[dir])]
  /\ Goto("update")
  /\ UNCHANGED <<journal, nextFid, memory, faults>>

FlowAddFails ==
  /\ pc = "add" /\ Fault
  /\ Ambiguous(req.key[dir], Ident(req.fid[dir]))
  /\ Goto("undo")
  /\ UNCHANGED <<journal, nextFid, memory>>

\* FLOWUPDATE and the readback that must return the exact entry.
FlowUpdate ==
  /\ pc = "update"
  /\ hw' = [hw EXCEPT ![req.key[dir]] = Full(req.fid[dir])]
  /\ IF dir = 1 THEN GotoDir("add", 2) ELSE Goto("commit")
  /\ UNCHANGED <<journal, nextFid, memory, faults>>

FlowUpdateFails ==
  /\ pc = "update" /\ Fault
  /\ Ambiguous(req.key[dir], Full(req.fid[dir]))
  /\ Goto("undo")
  /\ UNCHANGED <<journal, nextFid, memory>>

Commit ==
  /\ pc = "commit"
  /\ Save(cur, [req EXCEPT !.st = "installed"])
  /\ Return
  /\ UNCHANGED <<hw, nextFid, failed, faults>>

CommitFails ==
  /\ pc = "commit" /\ Fault
  /\ StorageFails
  /\ Return
  /\ UNCHANGED <<hw, nextFid, failed>>

\* Mutant of Owned: whatever sits under the key is taken for ours.
OwnedByKey(k, f) == hw[k].act = "none" \/ f # 0

\* owned_variants: the exact entry or its bare identity, so the flow ID.
Owned(k, f) == hw[k].act = "none" \/ hw[k].fid = f

\* The except block walks the touched entries backwards; a failure there
\* marks recovery and goes on with the remaining direction.
UndoNext == IF dir = 2 THEN GotoDir("undo", 1) ELSE Goto("undone")

Undo ==
  /\ pc = "undo"
  /\ Owned(req.key[dir], req.fid[dir])
  /\ hw' = [hw EXCEPT ![req.key[dir]] = Empty]
  /\ UndoNext
  /\ UNCHANGED <<journal, nextFid, memory, faults>>

UndoFails ==
  /\ pc = "undo"
  /\ IF Owned(req.key[dir], req.fid[dir])
       THEN Fault /\ Ambiguous(req.key[dir], Empty)
       ELSE NoFault /\ UNCHANGED hw
  /\ recovery_required' = TRUE
  /\ UndoNext
  /\ UNCHANGED <<journal, nextFid, sessions, failed>>

\* The session is forgotten after a clean undo, kept as "unknown" otherwise.
Undone ==
  /\ pc = "undone"
  /\ IF recovery_required
       THEN Save(cur, [req EXCEPT !.st = "unknown"])
       ELSE Forget(cur)
  /\ Return
  /\ UNCHANGED <<hw, nextFid, failed, faults>>

UndoneFails ==
  /\ pc = "undone" /\ Fault
  /\ StorageFails
  /\ Return
  /\ UNCHANGED <<hw, nextFid, failed>>

----------------------------------------------------------------------------
(* remove(), and the loops of recover() and invalidate_policy() over it.   *)

BeginRemoval(why, victims) ==
  /\ pc = "idle"
  /\ pc' = "next" /\ goal' = why /\ todo' = victims
  /\ UNCHANGED <<cur, req, dir, durable, sessions, failed, faults>>

Revoke(s) ==
  /\ sessions[s] # NoRow
  /\ BeginRemoval("revoke", {s})
  /\ UNCHANGED recovery_required

Recover ==
  /\ BeginRemoval("recover", Held(sessions))
  /\ recovery_required' = TRUE

InvalidatePolicy(r) ==
  /\ BeginRemoval("invalidate", {s \in Held(sessions) : sessions[s].rev # r})
  /\ UNCHANGED recovery_required

RemoveNext(s) ==
  /\ pc = "next" /\ s \in todo
  /\ pc' = "removing" /\ cur' = s /\ req' = sessions[s] /\ dir' = 1
  /\ todo' = todo \ {s}
  /\ UNCHANGED <<durable, memory, goal, faults>>

\* Mutant of RemovalDone: a completed recovery is not declared.
RemovalDoneSticky ==
  /\ pc = "next" /\ todo = {}
  /\ Return
  /\ UNCHANGED <<durable, memory, faults>>

\* Only recover() declares the owner clean again, and only after every
\* removal returned.
RemovalDone ==
  /\ pc = "next" /\ todo = {}
  /\ recovery_required' = IF goal = "recover" THEN FALSE ELSE recovery_required
  /\ Return
  /\ UNCHANGED <<durable, sessions, failed, faults>>

MarkRemoving ==
  /\ pc = "removing"
  /\ Save(cur, [req EXCEPT !.st = "removing"])
  /\ GotoDir("delete", 1)
  /\ UNCHANGED <<hw, nextFid, failed, faults>>

MarkRemovingFails ==
  /\ pc = "removing" /\ Fault
  /\ StorageFails
  /\ Goto("taint")
  /\ UNCHANGED <<hw, nextFid, failed>>

\* fetch, ownership check, delete, and the fetch that confirms it.
Delete ==
  /\ pc = "delete"
  /\ Owned(req.key[dir], req.fid[dir])
  /\ hw' = [hw EXCEPT ![req.key[dir]] = Empty]
  /\ IF dir = 1 THEN GotoDir("delete", 2) ELSE Goto("forget")
  /\ UNCHANGED <<journal, nextFid, memory, faults>>

\* remove() shares one dict with self.sessions once MarkRemoving saved it, so
\* its except block changes the held state before the journal is told.
MarkUnknown ==
  /\ recovery_required' = TRUE
  /\ sessions' = [sessions EXCEPT ![cur].st = "unknown"]
  /\ Goto("taint")

\* Someone else's entry is under the key: raise, never overwrite or delete.
DeleteConflict ==
  /\ pc = "delete"
  /\ ~Owned(req.key[dir], req.fid[dir])
  /\ MarkUnknown
  /\ UNCHANGED <<durable, failed, faults>>

DeleteFails ==
  /\ pc = "delete" /\ Fault
  /\ Owned(req.key[dir], req.fid[dir])
  /\ Ambiguous(req.key[dir], Empty)
  /\ MarkUnknown
  /\ UNCHANGED <<journal, nextFid, failed>>

ForgetRow ==
  /\ pc = "forget"
  /\ Forget(cur)
  /\ pc' = "next" /\ req' = NoRow /\ dir' = 1
  /\ UNCHANGED <<hw, nextFid, failed, cur, goal, todo, faults>>

ForgetRowFails ==
  /\ pc = "forget" /\ Fault
  /\ StorageFails
  /\ Return
  /\ UNCHANGED <<hw, nextFid, failed>>

\* remove()'s except block: journal "unknown" and re-raise, which also ends
\* the loop of recover or invalidate_policy.
Taint ==
  /\ pc = "taint"
  /\ Save(cur, [req EXCEPT !.st = "unknown"])
  /\ Return
  /\ UNCHANGED <<hw, nextFid, failed, faults>>

TaintFails ==
  /\ pc = "taint" /\ Fault
  /\ StorageFails
  /\ Return
  /\ UNCHANGED <<hw, nextFid, failed>>

----------------------------------------------------------------------------
(* Process lifetime and the world while the owner is down.                 *)

Crash ==
  /\ pc # "down" /\ Fault
  /\ pc' = "down" /\ req' = NoRow /\ dir' = 1 /\ goal' = "none" /\ todo' = {}
  /\ sessions' = [s \in Sid |-> NoRow]
  /\ recovery_required' = FALSE /\ failed' = FALSE
  /\ UNCHANGED <<durable, cur>>

\* Mutant of Start: the journal is adopted as trusted.
StartTrusting ==
  /\ pc = "down"
  /\ sessions' = journal
  /\ recovery_required' = FALSE
  /\ Goto("idle")
  /\ UNCHANGED <<durable, failed, faults>>

\* A restart never adopts journalled sessions as trusted hardware policy.
Start ==
  /\ pc = "down"
  /\ sessions' = journal
  /\ recovery_required' = (Held(journal) # {})
  /\ Goto("idle")
  /\ UNCHANGED <<durable, failed, faults>>

ForeignWrite(k) ==
  /\ pc = "down" /\ Fault
  /\ \E slot \in {Foreign, Empty} :
       slot # hw[k] /\ hw' = [hw EXCEPT ![k] = slot]
  /\ UNCHANGED <<journal, nextFid, memory, control>>

\* A power cycle empties the flow memory; the journal survives.
TableReset ==
  /\ pc = "down" /\ Fault
  /\ hw' = [k \in Key |-> Empty]
  /\ UNCHANGED <<journal, nextFid, memory, control>>

----------------------------------------------------------------------------
Init ==
  /\ hw = [k \in Key |-> Empty]
  /\ journal = [s \in Sid |-> NoRow]
  /\ nextFid = 1
  /\ sessions = [s \in Sid |-> NoRow]
  /\ recovery_required = FALSE /\ failed = FALSE
  /\ pc = "down" /\ cur \in Sid /\ req = NoRow /\ dir = 1
  /\ goal = "none" /\ todo = {}
  /\ faults = 0

InstallSteps ==
  \/ Preflight \/ Refuse \/ PutIntent \/ PutIntentFails \/ FlowAdd \/ FlowAddFails
  \/ FlowUpdate \/ FlowUpdateFails \/ Commit \/ CommitFails
  \/ Undo \/ UndoFails \/ Undone \/ UndoneFails

RemoveSteps ==
  \/ \E s \in Sid : RemoveNext(s)
  \/ RemovalDone \/ MarkRemoving \/ MarkRemovingFails
  \/ Delete \/ DeleteConflict \/ DeleteFails
  \/ ForgetRow \/ ForgetRowFails \/ Taint \/ TaintFails

Calls ==
  \/ \E s \in Sid, p \in Pairs, r \in Rev : Reserve(s, p, r)
  \/ ReserveFails
  \/ \E s \in Sid : Revoke(s)
  \/ Recover
  \/ \E r \in Rev : InvalidatePolicy(r)

World == Crash \/ Start \/ (\E k \in Key : ForeignWrite(k)) \/ TableReset

Next == InstallSteps \/ RemoveSteps \/ Calls \/ World

Spec == Init /\ [][Next]_vars

\* The owner's process runs what it started; systemd restarts it; controld
\* reconciles every two seconds between requests, and reconcile calls
\* recover() whenever recovery is required, however often others call.
FairSpec ==
  /\ Spec
  /\ WF_vars(InstallSteps \/ RemoveSteps)
  /\ WF_vars(Start)
  /\ SF_vars(recovery_required /\ Recover)

----------------------------------------------------------------------------
Ours(k) == hw[k].act # "none" /\ hw[k].fid <= LastFid
Covers(row, k) == row # NoRow /\ \E i \in Dir : row.key[i] = k /\ row.fid[i] = hw[k].fid

\* The state of every variable, and the flow-ID cursor inside the
\* commissioned range: FlowIds.validate refuses any other cursor, so one that
\* runs past last+1 would lock the allocator out of its own journal.
TypeOK ==
  /\ hw \in [Key -> Slot]
  /\ journal \in [Sid -> Row \cup {NoRow}]
  /\ nextFid \in Nat \ {0} /\ nextFid <= LastFid + 1
  /\ sessions \in [Sid -> Row \cup {NoRow}]
  /\ recovery_required \in BOOLEAN /\ failed \in BOOLEAN
  /\ pc \in Steps /\ cur \in Sid /\ req \in Row \cup {NoRow} /\ dir \in Dir
  /\ goal \in Goals /\ todo \in SUBSET Sid
  /\ faults \in Nat

\* "Storage failures ... must never leave an unjournaled hardware write": in
\* every state, also between a failed call and its undo and after a crash,
\* each entry this owner wrote is named, key and flow ID, by a journal row.
JournalCoversHardware ==
  \A k \in Key : Ours(k) => \E s \in Sid : Covers(journal[s], k)

\* "No overwriting someone else's flow": install, its undo, remove and
\* recover leave another owner's entry exactly as they found it.
ForeignPreserved ==
  [][\A k \in Key : hw[k] = Foreign /\ pc # "down" => hw'[k] = Foreign]_vars

\* What admission relies on when no call is running and recovery is not
\* required: memory and journal agree, each session is installed with both
\* directions forwarding under its own flow IDs, and no entry of a session
\* that failed, was removed or belonged to an earlier life is still there.
SteadyPairs ==
  pc = "idle" /\ ~recovery_required =>
    /\ sessions = journal
    /\ \A s \in Held(sessions) :
         /\ sessions[s].st = "installed"
         /\ \A i \in Dir : hw[sessions[s].key[i]] = Full(sessions[s].fid[i])
    /\ \A k \in Key : Ours(k) => \E s \in Sid : Covers(sessions[s], k)

\* Flow IDs name one entry: no two journalled directions and no two entries
\* in the table carry the same ID, across failed installs and restarts.
FlowIdsUnique ==
  /\ \A s, t \in Held(journal), i, j \in Dir :
       journal[s].fid[i] = journal[t].fid[j] => s = t /\ i = j
  /\ \A k, l \in Key : Ours(k) /\ Ours(l) /\ hw[k].fid = hw[l].fid => k = l

\* A journalled key under which another owner's entry sits: recover() must
\* keep failing there, for an operator to look at.
Conflict ==
  \E s \in Held(journal), i \in Dir : hw[journal[s].key[i]] = Foreign

\* However calls and the process fail, the owner comes back to a state in
\* which it may admit again, unless another owner took one of its keys.
EventuallyClean == []<>((pc = "idle" /\ ~recovery_required) \/ Conflict)

\* What the owner guarantees at every instant: the journal covers the hardware,
\* a settled session is a whole pair, and no identifier has two users.
SessionsSafe ==
  /\ TypeOK
  /\ JournalCoversHardware
  /\ SteadyPairs
  /\ FlowIdsUnique
============================================================================
