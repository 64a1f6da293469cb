--------------------------- MODULE Fe100Admission ---------------------------
(***************************************************************************)
(* Admission to the FE100: SessionLifecycle (the producer's leases),       *)
(* PathSessions, PolicyOwner and PathOwner, stacked in that order over a   *)
(* session owner whose promises are those of Fe100Sessions.                *)
(*                                                                         *)
(* All four run under one lock, so a handler is one action; but it makes   *)
(* many journal and table writes, any of which may fail or be the last one *)
(* before the process stops.  A method is therefore an operator from the   *)
(* owner's state to the SET of its outcomes, each a state and how it ended:*)
(* "ok", "raise" or "stop".  Methods are put together with Then (the next  *)
(* statement), Catch (an except clause that re-raises) and Each (a loop).  *)
(*                                                                         *)
(* What the stack reads from outside (current path plan, bindings,         *)
(* qualification, applied generation, clock) may change between any two    *)
(* reads: a read is a free choice, never state.                            *)
(***************************************************************************)
EXTENDS FfnCommon, Integers, FiniteSets

CONSTANTS
  AdmSid,        \* session identifiers
  MaxRev,     \* policy revisions 0..MaxRev (bound)
  Plan,       \* directional path plans the resolver may return
  Bind,       \* digests of the port bindings
  Index,      \* commissioned pool of next-hop and source-MAC indices
  Capacity,   \* lifecycle session capacity
  AdmMaxFaults   \* failures and stops (bound)

ASSUME AdmBoundAssumption == MaxRev \in Nat /\ AdmMaxFaults \in Nat /\ Capacity \in Nat
ASSUME AdmNoneAssumption == None \notin Bind
ASSUME AdmFiniteAssumption == IsFiniteSet(AdmSid)

AdmRev == 0 .. MaxRev
AdmKey == AdmSid \X AdmRev  \* PathSessions.key: session, revision (and its digest)

AdmRow == [rev : AdmRev, hop : Index, att : Bind]
Path == [state : {"installing", "ready", "removing"}, plan : Plan, smac : Index, hop : Index]
Hop == [key : AdmKey, plan : Plan, smac : Index]
Smac == [key : AdmKey, plan : Plan]
Dep == [rev : AdmRev, hop : Index, plan : Plan]
Policy == [rev : AdmRev, phase : {"blocked", "draining", "active"}, att : Bind \cup {None}]

ASSUME NoneIsNoRecord == None \notin AdmRow \cup Path \cup Hop \cup Smac \cup Dep

VARIABLES
  admOwner,  \* everything below, durable and in memory
  admLast    \* the handler that ran last and how it ended

admVars == <<admOwner, admLast>>

AdmOwner == [
     flows        : SUBSET AdmSid,                  \* sessions with an entry in the flow table
     smac         : [Index -> Smac \cup {None}], \* source-MAC table
     hop          : [Index -> Hop \cup {None}],  \* next-hop table
     rows         : [AdmSid -> AdmRow \cup {None}],    \* session journal = SessionManager.sessions
     paths        : [AdmKey -> Path \cup {None}],   \* hardware_paths = PathOwner.paths
     saved        : Policy,                      \* policy_state row
     up           : BOOLEAN,
     state        : Policy,                      \* PolicyOwner.state
     activated    : BOOLEAN,
     dependencies : [AdmSid -> Dep \cup {None}],
     recovery     : BOOLEAN,                     \* SessionManager.recovery_required
     pathRecovery : BOOLEAN,                     \* PathOwner.recovery_required
     producer     : BOOLEAN,                     \* lifecycle synchronized
     leases       : SUBSET AdmSid,
     faults       : 0 .. AdmMaxFaults]

AdmHeld(f) == {x \in DOMAIN f : f[x] # None}

----------------------------------------------------------------------------
(* Outcomes.                                                               *)

AdmOut(o, e) == [o |-> o, end |-> e]
Ok(o) == {AdmOut(o, "ok")}
AdmRaise(o) == {AdmOut(o, "raise")}
Then(R, F(_)) == UNION {IF r.end = "ok" THEN F(r.o) ELSE {r} : r \in R}
Catch(R, H(_)) == UNION {IF r.end = "raise" THEN Then(H(r.o), AdmRaise) ELSE {r} : r \in R}
\* The loop may visit S in any order.
Each(o, S, F(_, _)) ==
  LET After[D \in SUBSET S] ==
        IF D = {} THEN Ok(o)
        ELSE UNION {Then(After[D \ {x}], LAMBDA p : F(p, x)) : x \in D}
  IN After[S]
If(c, A(_), o) == IF c THEN A(o) ELSE Ok(o)

Faulted(o) == [o EXCEPT !.faults = @ + 1]
AdmFault(o, R) == IF o.faults < AdmMaxFaults THEN R ELSE {}
AdmStop(o) == AdmOut(Faulted(o), "stop")
AdmFail(o) == AdmOut(Faulted(o), "raise")

\* One sqlite transaction: committed, rolled back with an error, or cut off.
AdmCommit(o, new) == Ok(new) \cup AdmFault(o, {AdmFail(o), AdmStop(o)})
\* One table write: an error or a stop leaves its effect unknown.
AdmWrite(o, new) == Ok(new) \cup AdmFault(o, {AdmFail(o), AdmFail(new), AdmStop(o), AdmStop(new)})

\* A dependency that reads as changed, expired or unavailable.
MayRaise(o) == Ok(o) \cup AdmRaise(o)

----------------------------------------------------------------------------
(* The session owner, by what Fe100Sessions establishes: an entry in the   *)
(* table always has a row, and a call that raises with anything left to    *)
(* undo keeps the row and demands recovery.                                *)

Suspect(o) == [o EXCEPT !.recovery = TRUE]
WithRow(o, s, row) == [o EXCEPT !.rows[s] = row]
WithFlow(o, s, row) == [o EXCEPT !.rows[s] = row, !.flows = @ \cup {s}]
WithoutFlow(o, s) == [o EXCEPT !.flows = @ \ {s}]
WithoutRow(o, s) == [o EXCEPT !.rows[s] = None, !.flows = @ \ {s}]

Install(o, s, row) ==
  IF o.recovery \/ o.rows[s] # None THEN AdmRaise(o)
  ELSE Ok(WithFlow(o, s, row)) \cup AdmRaise(o)
       \cup AdmFault(o, {AdmFail(Suspect(o)), AdmStop(o)}
                        \cup UNION {{AdmFail(Suspect(p)), AdmStop(p)} :
                                         p \in {WithRow(o, s, row), WithFlow(o, s, row)}})

AdmRemove(o, s) ==
  Ok(WithoutRow(o, s))
  \cup AdmFault(o, UNION {{AdmFail(Suspect(p)), AdmStop(p)} : p \in {o, WithoutFlow(o, s)}})

AdmRecover(o) ==
  Then(Each(Suspect(o), AdmHeld(o.rows), AdmRemove),
       LAMBDA p : Ok([p EXCEPT !.recovery = FALSE]))

----------------------------------------------------------------------------
(* PolicyOwner.                                                            *)

AdmissionEnabled(o) == o.activated /\ o.state.phase = "active" /\ ~o.recovery

Deactivate(o) == [o EXCEPT !.activated = FALSE]

\* A failed save blocks the copy in memory and leaves its other fields.
Persist(o, new) ==
  Ok([o EXCEPT !.saved = new, !.state = new])
  \cup AdmFault(o, {AdmFail([o EXCEPT !.state.phase = "blocked"]), AdmStop(o)})

ClearDependencies(o) == [o EXCEPT !.dependencies = [s \in AdmSid |-> None]]

\* persist(draining), recover, dependencies.clear, persist(blocked).
DrainAs(o, new) ==
  Then(Then(Persist(o, new), AdmRecover),
       LAMBDA p : Persist(ClearDependencies(p), [p.state EXCEPT !.phase = "blocked"]))

\* What PathOwner.snapshot checks of a path, the resolver's answer apart.
PathReady(o, k) ==
  LET p == o.paths[k] IN
  /\ ~o.pathRecovery /\ p # None
  /\ p.state = "ready"
  /\ o.smac[p.smac] = [key |-> k, plan |-> p.plan]
  /\ o.hop[p.hop] = [key |-> k, plan |-> p.plan, smac |-> p.smac]

\* directional_paths: the path digest of the request still is the path's.
PathHolds(o, s) ==
  LET d == o.dependencies[s] IN
  LET k == <<s, d.rev>> IN
  PathReady(o, k) /\ o.paths[k].hop = d.hop /\ o.paths[k].plan = d.plan

Prune(o) ==
  [o EXCEPT !.dependencies = [s \in AdmSid |-> IF o.rows[s] = None THEN None ELSE @[s]]]

\* The end of reconcile: nothing to do, or everything is withdrawn.
AdmWithdraw(o) ==
  IF \/ o.state.phase # "blocked" \/ o.state.att # None
     \/ AdmHeld(o.rows) # {} \/ o.recovery
    THEN DrainAs(o, [o.state EXCEPT !.phase = "draining", !.att = None])
    ELSE Ok(o)

\* Digest, bindings or qualification may read as changed before or after the
\* dependencies are pruned; otherwise every path has to hold.
Reconcile(o) ==
  LET live == o.state.phase = "active" /\ o.activated
      keeps == live /\ \A s \in AdmHeld(Prune(o).dependencies) : PathHolds(o, s)
      withdrawn == {o} \cup (IF live THEN {Prune(o)} ELSE {})
  IN (IF keeps /\ ~o.recovery THEN Ok(Prune(o)) ELSE {})
     \cup UNION {AdmWithdraw(Deactivate(p)) : p \in withdrawn}

Replace(o, expected) ==
  IF expected # o.state.rev \/ expected = MaxRev THEN AdmRaise(o)
  ELSE DrainAs(Deactivate(o),
               [rev |-> expected + 1, phase |-> "draining", att |-> None])

Activate(o, rev) ==
  IF rev = 0 \/ rev # o.state.rev \/ o.state.phase # "blocked" \/ o.recovery THEN AdmRaise(o)
  ELSE AdmRaise(o) \cup
       UNION {Then(Persist(o, [o.state EXCEPT !.phase = "active", !.att = b]),
                   LAMBDA p : Ok([p EXCEPT !.activated = TRUE])) : b \in Bind}

\* Dependency bookkeeping goes only after the session is gone.
PolicyRevoke(o, s) ==
  Then(If(o.rows[s] # None, LAMBDA p : AdmRemove(p, s), o),
       LAMBDA p : Ok([p EXCEPT !.dependencies[s] = None]))

RequireEnabled(o) == IF AdmissionEnabled(o) THEN Ok(o) ELSE AdmRaise(o)

\* The pair is programmed only along a path that reads back ready.
ProgramPair(o, s, d) ==
  IF d.rev # o.state.rev \/ ~PathReady(o, <<s, d.rev>>) THEN AdmRaise(o)
  ELSE AdmRaise(o) \cup Install(o, s, [rev |-> o.state.rev, hop |-> d.hop, att |-> o.state.att])

Depend(o, s, d) == Ok([o EXCEPT !.dependencies[s] = d])

\* admit_pair: the same checks before and after the pair is programmed.
AdmitPair(o, s, d) ==
  LET Checked(R) == Then(Then(R, Reconcile), RequireEnabled)
  IN Checked(Then(Then(Checked(RequireEnabled(o)), LAMBDA p : ProgramPair(p, s, d)),
                  LAMBDA p : Depend(p, s, d)))

----------------------------------------------------------------------------
(* PathOwner, and PathSessions.drain that it calls back.                   *)

\* The dependency index is lost in a restart: absence from it proves nothing.
Drain(o, k) ==
  LET s == k[1]
      Unindexed(p) == p.recovery \/ AdmHeld(p.rows) \ AdmHeld(p.dependencies) # {}
      Mine(p) == p.dependencies[s] # None /\ p.dependencies[s].rev = k[2]
  IN Then(Then(If(Unindexed(o), LAMBDA p : Reconcile(Deactivate(p)), o),
               LAMBDA p : If(Mine(p), LAMBDA q : PolicyRevoke(q, s), p)),
          LAMBDA p : IF p.recovery \/ Mine(p) THEN AdmRaise(p) ELSE Ok(p))

PathSuspect(o) == AdmRaise([o EXCEPT !.pathRecovery = TRUE])

\* Mutant: the path is reclaimed without waiting for its flows.
ReleaseUndrained(o, k) ==
  LET path == o.paths[k]
      Cleared(p) == [p EXCEPT !.hop[path.hop] = None, !.smac[path.smac] = None, !.paths[k] = None]
  IN IF path = None THEN Ok(o) ELSE AdmWrite(o, Cleared(o))

\* An entry is deleted only if it is the one that was written.
AdmDelete(o, want, actual, cleared) ==
  IF actual = None THEN Ok(o)
  ELSE IF actual # want THEN AdmRaise(o) ELSE AdmWrite(o, cleared)

\* Flows first, then the next hop, then the source MAC it refers to.
AdmRelease(o, k) ==
  LET path == o.paths[k]
      hop == [key |-> k, plan |-> path.plan, smac |-> path.smac]
      smac == [key |-> k, plan |-> path.plan]
  IN IF path = None THEN Ok(o)
     ELSE Catch(Then(Then(Then(Then(Drain(o, k),
       LAMBDA p : AdmCommit(p, [p EXCEPT !.paths[k].state = "removing"])),
       LAMBDA p : AdmDelete(p, hop, p.hop[path.hop], [p EXCEPT !.hop[path.hop] = None])),
       LAMBDA p : AdmDelete(p, smac, p.smac[path.smac], [p EXCEPT !.smac[path.smac] = None])),
       LAMBDA p : AdmCommit(p, [p EXCEPT !.paths[k] = None])),
       PathSuspect)

AdmUsed(o, field) == {o.paths[k][field] : k \in AdmHeld(o.paths)}
FreeSmac(o) == {i \in Index : i \notin AdmUsed(o, "smac") /\ o.smac[i] = None}
FreeHop(o) == {i \in Index : i \notin AdmUsed(o, "hop") /\ o.hop[i] = None}

\* Intent first, then the source MAC before the next hop that refers to it.
\* Any failure leaves the intent for exact recovery.
Acquire(o, k, plan) ==
  LET i == CHOOSE x \in FreeSmac(o) : TRUE
      j == CHOOSE x \in FreeHop(o) : TRUE
      path == [state |-> "installing", plan |-> plan, smac |-> i, hop |-> j]
      InsertSmac(p) == AdmWrite(p, [p EXCEPT !.smac[i] = [key |-> k, plan |-> plan]])
      InsertHop(p) == AdmWrite(p, [p EXCEPT !.hop[j] = [key |-> k, plan |-> plan, smac |-> i]])
      Commissioned(p) == AdmCommit(p, [p EXCEPT !.paths[k].state = "ready"])
      Program(p) == Then(Then(Then(Then(Then(MayRaise(p), InsertSmac), MayRaise), InsertHop),
                              LAMBDA q : Then(MayRaise(q), Commissioned)), MayRaise)
      Intend(p) == AdmCommit(p, [p EXCEPT !.paths[k] = path])
  IN IF o.pathRecovery \/ o.paths[k] # None \/ FreeSmac(o) = {} \/ FreeHop(o) = {} THEN AdmRaise(o)
     ELSE AdmRaise(o) \cup Then(Catch(Intend(o), PathSuspect),
                                LAMBDA p : Catch(Program(p), PathSuspect))

\* A path whose plan, record or readback changed is released.
AdmVerify(o, k) == AdmRelease(o, k) \cup (IF PathReady(o, k) THEN Ok(o) ELSE {})

\* While recovery is required no path is ready, so that every one of them is
\* released; recovery is complete when they all are.
PathReconcile(o) ==
  Then(Each(o, AdmHeld(o.paths), AdmVerify), LAMBDA p : Ok([p EXCEPT !.pathRecovery = FALSE]))

----------------------------------------------------------------------------
(* PathSessions.                                                           *)

AdmSweep(o) ==
  Each(o, AdmHeld(o.paths) \ {<<s, o.dependencies[s].rev>> : s \in AdmHeld(o.dependencies)}, AdmRelease)

BridgeReconcile(o) ==
  Catch(Then(Then(Reconcile(IF o.pathRecovery THEN Deactivate(o) ELSE o), PathReconcile), AdmSweep),
        LAMBDA p : AdmRaise(Deactivate(p)))

BridgeRevoke(o, s) ==
  LET d == o.dependencies[s]
  IN Catch(Then(PolicyRevoke(o, s),
                LAMBDA p : IF d = None THEN Ok(p) ELSE AdmRelease(p, <<s, d.rev>>)),
           LAMBDA p : AdmRaise(Deactivate(p)))

\* A partial pair is drained before its next hops are reclaimed.
AdmUndo(o, k) == Then(Reconcile(Deactivate(o)), LAMBDA p : AdmRelease(p, k))

AcquireAndAdmit(o, s, rev, plan) ==
  IF o.rows[s] # None \/ rev # o.state.rev THEN AdmRaise(o)
  ELSE AdmRaise(o) \cup
       Catch(Then(Acquire(o, <<s, rev>>, plan),
                  LAMBDA p : AdmitPair(p, s, [rev |-> rev, plan |-> plan,
                                              hop |-> p.paths[<<s, rev>>].hop])),
             LAMBDA p : AdmUndo(p, <<s, rev>>))

BridgeAdmit(o, s, rev, plan) ==
  Then(Then(Reconcile(o), RequireEnabled), LAMBDA p : AcquireAndAdmit(p, s, rev, plan))

----------------------------------------------------------------------------
(* SessionLifecycle.                                                       *)

Desynchronise(o) == [o EXCEPT !.producer = FALSE, !.activated = FALSE]

AdmFence(o) ==
  Then(BridgeReconcile(Desynchronise(o)), LAMBDA p : Ok([p EXCEPT !.leases = {}]))

RevokeLease(o, s) ==
  Then(BridgeRevoke(o, s), LAMBDA p : Ok([p EXCEPT !.leases = @ \ {s}]))

\* The applied generation reads as before, not at all, or as another one; after
\* the reconciliation the heartbeat may have expired as well.
CheckGeneration(o) ==
  Catch(AdmRaise(o) \cup AdmFence(o) \cup Then(BridgeReconcile(o), LAMBDA p : MayRaise(p) \cup AdmFence(p)),
        LAMBDA p : BridgeReconcile(Desynchronise(p)))

AdmExpire(o) == UNION {Catch(Each(o, L, RevokeLease), AdmFence) : L \in SUBSET o.leases}

Settle(o) == IF ~o.producer THEN Ok(o)
             ELSE IF AdmissionEnabled(o) THEN AdmExpire(o) ELSE AdmFence(o)

AdmTick(o) ==
  Then(AdmFence(o), AdmRaise)  \* the clock is invalid
  \cup (IF o.producer THEN AdmFence(o)  \* the heartbeat expired
                           \cup Then(CheckGeneration(o), Settle)
                      ELSE BridgeReconcile(o))

RequireProducer(o) == IF o.producer THEN Ok(o) ELSE AdmRaise(o)

Acknowledge(o) ==
  Catch(Then(Then(MayRaise(o), LAMBDA p : UNION {Activate(p, rev) : rev \in AdmRev}), MayRaise),
        AdmFence)

AdmStart(o) ==
  Then(Then(Then(Then(AdmFence(o), MayRaise), Acknowledge),
            LAMBDA p : AdmTick([p EXCEPT !.producer = TRUE])), RequireProducer)

\* Resources are resolved locally; the event names only session and revision.
AdmOpen(o, s) ==
  IF s \in o.leases \/ Cardinality(o.leases) >= Capacity THEN AdmRaise(o)
  ELSE Then(Then(UNION {BridgeAdmit(o, s, rev, plan) : rev \in AdmRev, plan \in Plan}, MayRaise),
            LAMBDA p : Ok([p EXCEPT !.leases = @ \cup {s}]))

Refresh(o, s) == IF s \in o.leases THEN MayRaise(o) ELSE AdmRaise(o)

AdmApply(o, op, s) ==
  CASE op = "heartbeat" -> MayRaise(o)
    [] op = "open" -> AdmOpen(o, s)
    [] op = "refresh" -> Refresh(o, s)
    [] op = "close" -> RevokeLease(o, s)

\* What comes before an event is accepted.
Ready(o) == Then(AdmTick(o), RequireProducer)

\* A lost sequence number or an invalid payload raises; an event counts only
\* after the reconciliation that follows it.
Event(R, op, s) ==
  Then(R, LAMBDA p : Catch(AdmRaise(p) \cup Then(Then(AdmApply(p, op, s), AdmTick), RequireProducer), AdmFence))

----------------------------------------------------------------------------
(* Actions: one handler each.                                              *)

AdmFinish(call, s, R) ==
  /\ admOwner.up
  /\ \E end \in {"ok", "raise", "stop"} :
       /\ admLast' = [call |-> call, sid |-> s, end |-> end]
       /\ \E r \in R : r.end = end /\ admOwner' = [r.o EXCEPT !.up = end # "stop"]

DoStart == AdmFinish("start", None, AdmStart(admOwner))
DoTick == AdmFinish("tick", None, AdmTick(admOwner))
DoEvent ==
  LET ready == Ready(admOwner) IN
  \/ AdmFinish("heartbeat", None, Event(ready, "heartbeat", None))
  \/ \E s \in AdmSid : \/ AdmFinish("open", None, Event(ready, "open", s))
                       \/ AdmFinish("refresh", None, Event(ready, "refresh", s))
                       \/ AdmFinish("close", s, Event(ready, "close", s))
DoReplace == \E rev \in AdmRev : AdmFinish("replace", None, Replace(admOwner, rev))

AdmCrash == /\ admOwner.up /\ admOwner.faults < AdmMaxFaults
            /\ admOwner' = [Faulted(admOwner) EXCEPT !.up = FALSE]
            /\ admLast' = [call |-> "crash", sid |-> None, end |-> "stop"]

\* A new process: journals are read back, nothing in memory survives.
AdmRestart ==
  /\ ~admOwner.up
  /\ admOwner' = [ClearDependencies(admOwner) EXCEPT
                    !.up = TRUE, !.state = admOwner.saved, !.activated = FALSE,
                    !.recovery = AdmHeld(admOwner.rows) # {}, !.pathRecovery = AdmHeld(admOwner.paths) # {},
                    !.producer = FALSE, !.leases = {}]
  /\ admLast' = [call |-> "restart", sid |-> None, end |-> "ok"]

AdmInit ==
  /\ admOwner = [flows |-> {}, rows |-> [s \in AdmSid |-> None],
                 smac |-> [i \in Index |-> None], hop |-> [i \in Index |-> None],
                 paths |-> [k \in AdmKey |-> None],
                 saved |-> [rev |-> 0, phase |-> "blocked", att |-> None], up |-> TRUE,
                 state |-> [rev |-> 0, phase |-> "blocked", att |-> None],
                 activated |-> FALSE, dependencies |-> [s \in AdmSid |-> None],
                 recovery |-> FALSE, pathRecovery |-> FALSE, producer |-> FALSE,
                 leases |-> {}, faults |-> 0]
  /\ admLast = [call |-> "restart", sid |-> None, end |-> "ok"]

AdmNext == DoStart \/ DoTick \/ DoEvent \/ DoReplace \/ AdmCrash \/ AdmRestart

AdmSpec == AdmInit /\ [][AdmNext]_admVars

\* The tick timer keeps firing and a stopped service is started again.
AdmFairSpec == AdmSpec /\ WF_admVars(DoTick) /\ WF_admVars(AdmRestart)

----------------------------------------------------------------------------
AdmCalls == {"start", "tick", "heartbeat", "open", "refresh", "close", "replace",
             "crash", "restart"}

\* Journals, tables and the owner's memory hold what their readers expect.
AdmTypeOK ==
  /\ admOwner \in AdmOwner
  /\ admLast \in [call : AdmCalls, sid : AdmSid \cup {None}, end : {"ok", "raise", "stop"}]

\* "Never reclaim its next hops before that drain": an entry in the flow table
\* refers to a next hop, and that to a source MAC, that are programmed for this
\* very session and revision, wherever a handler failed or the process stopped.
NoDanglingHop ==
  \A s \in admOwner.flows :
    LET row == admOwner.rows[s] IN
    /\ row # None
    /\ LET h == admOwner.hop[row.hop] IN
       /\ h # None /\ h.key = <<s, row.rev>>
       /\ admOwner.smac[h.smac] = [key |-> h.key, plan |-> h.plan]

\* "A policy or attachment change drains both directions before the new
\* generation can admit": while admission is enabled no session of an earlier
\* revision or attachment is left, in the journal or in the table.
NoStaleGeneration ==
  admOwner.up /\ AdmissionEnabled(admOwner) =>
       \A s \in AdmHeld(admOwner.rows) :
         admOwner.rows[s].rev = admOwner.state.rev /\ admOwner.rows[s].att = admOwner.state.att

\* No session without a lease to expire it: what a synchronized lifecycle holds
\* at rest is leased, so loss of close events cannot keep an entry for ever.
EveryFlowLeased == admOwner.up /\ admOwner.producer => AdmHeld(admOwner.rows) \subseteq admOwner.leases

\* A lifecycle handler that raises leaves admission disabled, and admission is
\* never enabled without a synchronized producer.
FailClosed ==
  /\ admOwner.up /\ AdmissionEnabled(admOwner) => admOwner.producer
  /\ admLast.end = "raise" /\ admLast.call # "replace" => ~AdmissionEnabled(admOwner)

\* An acknowledged close means the session, its next hop and its source MAC are
\* gone, not merely scheduled to go.
CloseAcknowledged ==
  admLast.call = "close" /\ admLast.end = "ok" =>
       /\ admLast.sid \notin admOwner.flows /\ admOwner.rows[admLast.sid] = None
       /\ \A k \in AdmHeld(admOwner.paths) : k[1] # admLast.sid

\* What admission guarantees at every instant: nothing in hardware outlives its
\* hop, its generation, its lease or the link to the kernel, and a close is
\* acknowledged only when it is true.
AdmSafe ==
  /\ AdmTypeOK
  /\ NoDanglingHop
  /\ NoStaleGeneration
  /\ EveryFlowLeased
  /\ FailClosed
  /\ CloseAcknowledged
============================================================================
