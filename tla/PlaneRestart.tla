---------------------------- MODULE PlaneRestart ----------------------------
(***************************************************************************)
(* Restart of the CP or DP processor by the MP: the job queue and worker   *)
(* (plane_lifecycle), the per-role boot owner run as a oneshot unit        *)
(* (plane_restart_owner), and the CP's asynchronous boot of the DP.        *)
(*                                                                         *)
(* Worker, owners, processors and the clock run concurrently.  A remote    *)
(* call, a wait or a hardware command may fail or run into its deadline at *)
(* every step; a worker or owner may die between any two, and processors   *)
(* reboot by themselves.  The MP services an owner pauses (the writers)    *)
(* are started and stopped together.                                       *)
(***************************************************************************)
EXTENDS FfnCommon, Integers, FiniteSets

CONSTANTS
  MaxJobs,    \* submitted jobs (bound)
  RstMaxFaults   \* deaths and spontaneous reboots (bound)

ASSUME RstBoundAssumption == MaxJobs \in Nat /\ RstMaxFaults \in Nat

Role == {"cp", "dp"}
Other(r) == IF r = "cp" THEN "dp" ELSE "cp"
Id == 1 .. MaxJobs
Stamp == [Role -> Nat]  \* the boot identities seen in one observation
Job == [id : Id, role : Role, before : Stamp, old : BOOLEAN,
        status : {"queued", "running", "succeeded", "failed"}]
WorkerPc == {"none", "inflight", "launched", "check", "start", "owner", "verify",
             "cycle", "done"}
OwnerPc == {"off", "inspect", "pause", "prepare", "boot", "wait", "restore"}
Phase == {"none", "preflight", "preparing", "booting", "waiting-for-boot", "restoring",
          "returned", "failed"}
WorkerState == [pc : WorkerPc, before : Stamp, target : Role]
OwnerState == [pc : OwnerPc, result : {"success", "failed"}, before : Stamp, cause : Id \cup {0}]
Journal == [phase : Phase, units : BOOLEAN]
Proc == [boot : Nat, up : BOOLEAN]

ASSUME RstNoneAssumption == None \notin Nat /\ None \notin Role /\ None \notin Job

VARIABLES
  job,       \* state.json: id, role, status, before, and whether 30 s have passed
  lock,      \* who holds the lock of state.json between steps: a worker or None
  worker,    \* worker[id]: pc, the observation before, the role it is restarting
  owner,     \* owner[r]: pc, result, before, and the job that started the unit
  mutex,     \* who holds ffn-pa5200-restart-owner.lock
  ownerJournal,   \* journal[r]: the owner's journal: phase and whether it lists units
  writers,   \* the MP services are running
  proc,      \* proc[r]: boot identity and whether it can be observed
  pending,   \* the job whose DP boot the CP still has to carry out, or None
  uncertain, \* uncertain[r]: a reset was dispatched and its outcome not verified
  resets,    \* resets[id][r]: resets carried out on behalf of a job
  rstFaults

mp == <<job, lock, worker>>
own == <<owner, mutex, ownerJournal, writers, uncertain>>
rstHw == <<proc, pending, resets>>
rstVars == <<job, lock, worker, owner, mutex, ownerJournal, writers, proc, pending,
             uncertain, resets, rstFaults>>

Boots == [r \in Role |-> proc[r].boot]
RstFault == rstFaults < RstMaxFaults /\ rstFaults' = rstFaults + 1

Rebooted(p) == [boot |-> p.boot + 1, up |-> FALSE]

----------------------------------------------------------------------------
(* Lifecycle.status, submit and the clock.                                 *)

UnitActive(r) == owner[r].pc # "off"
Alive(id) == worker[id].pc \notin {"none", "inflight", "done"}

\* Mutant: a worker that is gone counts for ever.
BusyForever ==
  \/ job # None /\ job.status \in {"queued", "running"}
  \/ \E r \in Role : UnitActive(r)

Busy ==
  \/ job # None /\ job.status \in {"queued", "running"} /\ (job.old => Alive(job.id))
  \/ \E r \in Role : UnitActive(r)

\* The job is saved before its worker is dispatched; the dispatch may get lost.
Submit(r) ==
  LET id == IF job = None THEN 1 ELSE job.id + 1 IN
  /\ lock = None /\ ~Busy /\ id \in Id
  /\ proc[r].up /\ (r = "dp" => proc["cp"].up)
  /\ job' = [id |-> id, role |-> r, status |-> "queued", before |-> Boots, old |-> FALSE]
  /\ \E pc \in {"inflight", "none"} : worker' = [worker EXCEPT ![id].pc = pc]
  /\ UNCHANGED <<lock, own, rstHw, rstFaults>>

Age ==
  /\ job # None /\ ~job.old /\ job' = [job EXCEPT !.old = TRUE]
  /\ UNCHANGED <<lock, worker, own, rstHw, rstFaults>>

----------------------------------------------------------------------------
(* The worker: Lifecycle.work, which holds the lock to its end.            *)

RstGoto(id, pc) == worker' = [worker EXCEPT ![id].pc = pc]
End(id, status) ==
  /\ job' = [job EXCEPT !.status = status]
  /\ lock' = None /\ RstGoto(id, "done")

Launch(id) ==
  /\ worker[id].pc = "inflight" /\ RstGoto(id, "launched")
  /\ UNCHANGED <<job, lock, own, rstHw, rstFaults>>

\* A worker whose job was replaced or is not queued ends without effect.
Begin(id) ==
  /\ worker[id].pc = "launched" /\ lock = None
  /\ \/ /\ job.id = id /\ job.status = "queued"
        /\ lock' = id /\ RstGoto(id, "check")
     \/ /\ job.id # id \/ job.status # "queued"
        /\ lock' = lock /\ RstGoto(id, "done")
  /\ UNCHANGED <<job, own, rstHw, rstFaults>>

\* The preconditions still hold: the job is running.
Check(id) ==
  /\ worker[id].pc = "check"
  /\ proc[job.role].up /\ proc[job.role].boot = job.before[job.role]
  /\ job.role = "dp" => proc["cp"].up
  /\ \A r \in Role : ~UnitActive(r)
  /\ job' = [job EXCEPT !.status = "running"]
  /\ worker' = [worker EXCEPT ![id] = [pc |-> "start", before |-> Boots, target |-> job.role]]
  /\ UNCHANGED <<lock, own, rstHw, rstFaults>>

\* systemctl start waits for the oneshot unit, or joins one that is active.
StartOwner(id) ==
  LET r == worker[id].target IN
  /\ worker[id].pc = "start" /\ RstGoto(id, "owner")
  /\ owner' = IF UnitActive(r) THEN owner
              ELSE [owner EXCEPT ![r].pc = "inspect", ![r].cause = id]
  /\ UNCHANGED <<job, lock, mutex, ownerJournal, writers, uncertain, rstHw, rstFaults>>

OwnerDone(id) ==
  LET o == owner[worker[id].target] IN
  /\ worker[id].pc = "owner" /\ o.pc = "off" /\ o.result = "success"
  /\ RstGoto(id, "verify")
  /\ UNCHANGED <<job, lock, own, rstHw, rstFaults>>

\* A new boot of the target was observed.  After the CP comes the DP; a DP
\* restart that also rebooted the CP is a failure.
Verify(id) ==
  LET t == worker[id].target
      before == worker[id].before IN
  /\ worker[id].pc = "verify"
  /\ proc[t].up /\ proc[t].boot # before[t]
  /\ \/ /\ job.role = "cp" /\ t = "cp"
        /\ RstGoto(id, "cycle") /\ UNCHANGED <<job, lock>>
     \/ /\ job.role = "cp" /\ t = "dp" /\ End(id, "succeeded")
     \/ /\ job.role = "dp"
        /\ End(id, IF proc["cp"].up /\ proc["cp"].boot # before["cp"]
                     THEN "failed" ELSE "succeeded")
  /\ UNCHANGED <<own, rstHw, rstFaults>>

\* cycle_dp: reset a DP that survived on its old boot, else only wait for it.
CycleDp(id) ==
  /\ worker[id].pc = "cycle"
  /\ worker' = [worker EXCEPT ![id].target = "dp",
       ![id].pc = IF proc["dp"].up /\ proc["dp"].boot = worker[id].before["dp"]
                    THEN "start" ELSE "verify"]
  /\ UNCHANGED <<job, lock, own, rstHw, rstFaults>>

\* A precondition, a call, the unit or a deadline failed.
WorkerFails(id) ==
  /\ worker[id].pc \in {"check", "start", "owner", "verify", "cycle"}
  /\ End(id, "failed")
  /\ UNCHANGED <<own, rstHw, rstFaults>>

WorkerDies(id) ==
  /\ Alive(id) /\ RstFault /\ RstGoto(id, "done")
  /\ lock' = IF lock = id THEN None ELSE lock
  /\ UNCHANGED <<job, own, rstHw>>

Work(id) == \/ Launch(id) \/ Begin(id) \/ Check(id) \/ StartOwner(id) \/ OwnerDone(id)
            \/ Verify(id) \/ CycleDp(id) \/ WorkerFails(id)

----------------------------------------------------------------------------
(* The boot owner: plane_restart_owner.execute.                            *)

OwnerGoto(r, pc) == owner' = [owner EXCEPT ![r].pc = pc]
Exit(r, result, phase) ==
  /\ owner' = [owner EXCEPT ![r].pc = "off", ![r].result = result]
  /\ ownerJournal' = [ownerJournal EXCEPT ![r].phase = phase]
  /\ mutex' = None

\* Both processors are observed and the units to pause listed, in the journal.
Inspect(r) ==
  /\ owner[r].pc = "inspect" /\ mutex = None
  /\ \A x \in Role : proc[x].up
  /\ mutex' = r
  /\ owner' = [owner EXCEPT ![r].pc = "pause", ![r].before = Boots]
  /\ ownerJournal' = [ownerJournal EXCEPT ![r] = [phase |-> "preflight", units |-> writers]]
  /\ UNCHANGED <<mp, writers, uncertain, rstHw, rstFaults>>

\* Nothing was touched yet; the lock may also have been held too long.
InspectFails(r) ==
  /\ owner[r].pc = "inspect"
  /\ owner' = [owner EXCEPT ![r].pc = "off", ![r].result = "failed"]
  /\ UNCHANGED <<mp, mutex, ownerJournal, writers, uncertain, rstHw, rstFaults>>

Pause(r) ==
  /\ owner[r].pc = "pause" /\ OwnerGoto(r, "prepare")
  /\ writers' = FALSE
  /\ ownerJournal' = [ownerJournal EXCEPT ![r].phase = "preparing"]
  /\ UNCHANGED <<mp, mutex, uncertain, rstHw, rstFaults>>

\* The node is prepared and the plane daemon told of the reboot.
Prepare(r) ==
  /\ owner[r].pc = "prepare" /\ OwnerGoto(r, "boot")
  /\ ownerJournal' = [ownerJournal EXCEPT ![r].phase = "booting"]
  /\ UNCHANGED <<mp, mutex, writers, uncertain, rstHw, rstFaults>>

\* An error before the boot command: node and paused units are restored, which
\* may fail as well.
PrepareFails(r) ==
  /\ owner[r].pc \in {"pause", "prepare"}
  /\ \E restored \in BOOLEAN : writers' = (ownerJournal[r].units /\ restored)
  /\ Exit(r, "failed", "failed")
  /\ UNCHANGED <<mp, uncertain, rstHw, rstFaults>>

\* A CP reset also ends what the CP had been asked to do for the DP.
ResetCp(id) ==
  /\ proc' = [proc EXCEPT !["cp"] = Rebooted(@)]
  /\ pending' = None
  /\ resets' = [resets EXCEPT ![id]["cp"] = @ + 1]

\* The CP is booted synchronously; the DP by a unit of the CP, which an
\* earlier request may have started already.
Dispatch(r) ==
  \/ r = "cp" /\ ResetCp(owner[r].cause)
  \/ /\ r = "dp" /\ pending' = IF pending = None THEN owner[r].cause ELSE pending
     /\ UNCHANGED <<proc, resets>>

RstBoot(r) ==
  /\ owner[r].pc = "boot" /\ OwnerGoto(r, "wait")
  /\ Dispatch(r)
  /\ uncertain' = [uncertain EXCEPT ![r] = TRUE]
  /\ ownerJournal' = [ownerJournal EXCEPT ![r].phase = "waiting-for-boot"]
  /\ UNCHANGED <<mp, mutex, writers, rstFaults>>

\* Mutant: the paused units are started again after every failure.
BootFailsRestoring(r) ==
  /\ owner[r].pc = "boot"
  /\ Dispatch(r) \/ UNCHANGED rstHw
  /\ uncertain' = [uncertain EXCEPT ![r] = TRUE]
  /\ writers' = ownerJournal[r].units
  /\ Exit(r, "failed", "failed")
  /\ UNCHANGED <<mp, rstFaults>>

\* The boot command failed, before the reset or after it.
BootFails(r) ==
  /\ owner[r].pc = "boot"
  /\ Dispatch(r) \/ UNCHANGED rstHw
  /\ uncertain' = [uncertain EXCEPT ![r] = TRUE]
  /\ Exit(r, "failed", "failed")
  /\ UNCHANGED <<mp, writers, rstFaults>>

SeeBoot(r) ==
  /\ owner[r].pc = "wait" /\ OwnerGoto(r, "restore")
  /\ proc[r].up /\ proc[r].boot # owner[r].before[r]
  /\ ownerJournal' = [ownerJournal EXCEPT ![r].phase = "restoring"]
  /\ UNCHANGED <<mp, mutex, writers, uncertain, rstHw, rstFaults>>

\* The node is restored, the other processor kept its boot, and the units that
\* were listed are started.
Restore(r) ==
  /\ owner[r].pc = "restore"
  /\ r = "dp" => pending = None
  /\ \A x \in Role : proc[x].up
  /\ proc[Other(r)].boot = owner[r].before[Other(r)]
  /\ uncertain' = [uncertain EXCEPT ![r] = FALSE]
  /\ writers' = (writers \/ ownerJournal[r].units)
  /\ Exit(r, "success", "returned")
  /\ UNCHANGED <<mp, rstHw, rstFaults>>

\* No return in time, or restoration failed: nothing is started again.
OwnerFails(r) ==
  /\ owner[r].pc \in {"wait", "restore"}
  /\ Exit(r, "failed", "failed")
  /\ UNCHANGED <<mp, writers, uncertain, rstHw, rstFaults>>

\* The journal stays as it was.
OwnerDies(r) ==
  /\ owner[r].pc # "off" /\ RstFault
  /\ owner' = [owner EXCEPT ![r].pc = "off", ![r].result = "failed"]
  /\ mutex' = IF mutex = r THEN None ELSE mutex
  /\ UNCHANGED <<mp, ownerJournal, writers, uncertain, rstHw>>

Own(r) == \/ Inspect(r) \/ InspectFails(r) \/ Pause(r) \/ Prepare(r) \/ PrepareFails(r)
          \/ RstBoot(r) \/ BootFails(r) \/ SeeBoot(r) \/ Restore(r) \/ OwnerFails(r)

----------------------------------------------------------------------------
(* Processors.                                                             *)

\* ffn-native-dp-boot.service on the CP; it may refuse before the reset.
DpBoot ==
  /\ pending # None /\ proc["cp"].up /\ pending' = None
  /\ \/ /\ proc' = [proc EXCEPT !["dp"] = Rebooted(@)]
        /\ resets' = [resets EXCEPT ![pending]["dp"] = @ + 1]
     \/ UNCHANGED <<proc, resets>>
  /\ UNCHANGED <<mp, own, rstFaults>>

RstReturn(r) ==
  /\ ~proc[r].up /\ proc' = [proc EXCEPT ![r].up = TRUE]
  /\ UNCHANGED <<mp, own, pending, resets, rstFaults>>

\* A crash, or the supervisor's cold boot of a DP it cannot reach.
RstReboot(r) ==
  /\ RstFault /\ proc' = [proc EXCEPT ![r] = Rebooted(@)]
  /\ pending' = IF r = "cp" THEN None ELSE pending
  /\ UNCHANGED <<mp, own, resets>>

RstInit ==
  LET zero == [r \in Role |-> 0] IN
  /\ job = None /\ lock = None
  /\ worker = [id \in Id |-> [pc |-> "none", before |-> zero, target |-> "cp"]]
  /\ owner = [r \in Role |-> [pc |-> "off", result |-> "success", before |-> zero, cause |-> 0]]
  /\ mutex = None /\ writers = TRUE /\ rstFaults = 0
  /\ ownerJournal = [r \in Role |-> [phase |-> "none", units |-> FALSE]]
  /\ proc = [r \in Role |-> [boot |-> 1, up |-> TRUE]]
  /\ pending = None /\ uncertain = [r \in Role |-> FALSE]
  /\ resets = [id \in Id |-> zero]

Workers == \E id \in Id : Work(id)
Owners == \E r \in Role : Own(r)

RstNext ==
  \/ Age \/ Workers \/ Owners \/ DpBoot
  \/ \E r \in Role : Submit(r) \/ OwnerDies(r) \/ RstReturn(r) \/ RstReboot(r)
  \/ \E id \in Id : WorkerDies(id)

RstSpec == RstInit /\ [][RstNext]_rstVars

\* Every wait of a worker or owner has a deadline, whose expiry is one of its
\* steps; hardware commands are assumed to end.
RstFairSpec == RstSpec /\ WF_rstVars(Age) /\ (\A id \in Id : WF_rstVars(Work(id)))
                       /\ (\A r \in Role : WF_rstVars(Own(r)))

----------------------------------------------------------------------------
\* Job, journals, observations and both programs' positions hold what their
\* readers expect.
RstTypeOK ==
  /\ job \in Job \cup {None}
  /\ lock \in Id \cup {None} /\ mutex \in Role \cup {None}
  /\ worker \in [Id -> WorkerState] /\ owner \in [Role -> OwnerState]
  /\ ownerJournal \in [Role -> Journal] /\ proc \in [Role -> Proc]
  /\ writers \in BOOLEAN /\ uncertain \in [Role -> BOOLEAN] /\ pending \in Id \cup {None}
  /\ resets \in [Id -> Stamp] /\ rstFaults \in 0 .. RstMaxFaults

\* "No reset is retried automatically": whatever dies, times out or fails, one
\* acknowledged job resets a processor at most once.
OneResetPerJob == \A id \in Id, r \in Role : resets[id][r] <= 1

\* "An active owner continues blocking further restart requests": an owner
\* that outlives its worker still belongs to the latest job.
OwnerOfLatestJob ==
  \A r \in Role : owner[r].pc # "off" => job # None /\ owner[r].cause = job.id

\* "Do not ... re-enable BAR writers after an uncertain hardware reset": the
\* paused services only run when every dispatched reset has been verified.
WritersHeldBack == writers => pending = None /\ \A r \in Role : ~uncertain[r]

\* A job that reports success left the processor, and for the CP also the DP,
\* on another boot than the one the operator acknowledged.
SuccessIsNewBoot ==
  job # None /\ job.status = "succeeded" =>
    /\ proc[job.role].boot # job.before[job.role]
    /\ job.role = "cp" => proc["dp"].boot # job.before["dp"]

\* Restarting does not stay blocked: whoever died or hung up, another restart
\* can be requested in the end.
Unblocks == []<>~Busy

\* "The journal retains the restore list": services that were paused and are
\* not running can be found in a journal.
RestoreListRetained ==
  ~writers => \E r \in Role : ownerJournal[r].units

\* A job resets once, reports a boot that is new, and lets no writer back after
\* a reset nobody saw the end of.
RstSafe ==
  /\ RstTypeOK
  /\ OneResetPerJob
  /\ OwnerOfLatestJob
  /\ WritersHeldBack
  /\ SuccessIsNewBoot
=============================================================================
