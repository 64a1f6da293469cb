----------------------------- MODULE Fe100Guard -----------------------------
(* The guardian of an FE100 owner, with the owner it guards in the isolated  *)
(* packet lab.  The owner prepares tables, steering rules and redirects and  *)
(* never withdraws them; the guardian stops the owner's whole cgroup and     *)
(* then withdraws: redirects first, then the sessions, the tables, the rules.*)
(* Every durable save, hardware write and request to the switch daemon is a  *)
(* step, and the guardian, the owner or the switch daemon may die between    *)
(* any two.                                                                  *)
(*                                                                           *)
(* Abstracted: the tables of the lab are one table write; both directions    *)
(* are one session; the CP does not reboot (its boot id is in the journals). *)
EXTENDS Integers, Sequences

CONSTANTS
  GrdStarts,     \* starts of the guardian; the n-th names its owner n (bound)
  GrdMaxFaults   \* deaths of the guardian and of the daemon, failed calls, stuck processes (bound)

ASSUME GrdAssumption == GrdStarts \in Nat /\ GrdMaxFaults \in Nat

GrdRun == 1 .. GrdStarts
GrdTwo == 1 .. 2              \* the two steering rules, and their two redirects
GrdSup == GrdStarts + 1       \* the guardian, as the holder of the table lock

VARIABLES
  grdReport,   \* the guardian's report: phase, and the cgroup it is to fence
  grdRec,      \* the physical journal, shared by owner and guardian
  grdLab,      \* the lab's own journal: sess touched, and its table change
  grdSup,      \* the guardian: pc, why it drains, k
  grdStarted,
  grdOwn,      \* the owner process of every start
  grdGroups,   \* the cgroups that exist
  grdLock,     \* who holds the FE100 table lock
  grdHw,       \* FE100 and switch: session, tables, rules, redirects, lifetime
  grdBcm,      \* requests at the switch daemon, in order
  grdStolen,   \* a rule was deleted that was not there
  grdFaults

grdVars == <<grdReport, grdRec, grdLab, grdSup, grdStarted, grdOwn, grdGroups, grdLock, grdHw, grdBcm, grdStolen, grdFaults>>
grdJournals == <<grdRec, grdLab>>
grdHard == <<grdHw, grdBcm, grdStolen>>

Process(pc, k) == [pc |-> pc, k |-> k, stalled |-> FALSE]
GrdIdle == [pc |-> "off", why |-> "startup", k |-> 0]
NoRecord == [ex |-> FALSE, epoch |-> 0, touched |-> 0, pending |-> FALSE, left |-> 0, deleting |-> FALSE, done |-> FALSE]
NewRecord == [NoRecord EXCEPT !.ex = TRUE, !.epoch = grdHw.epoch]
NewLab == [sess |-> FALSE, change |-> "none"]
\* A process of the owner that may still touch hardware.
Acting(n) == grdOwn[n].pc \notin {"none", "boot", "dead"}
Unlocked(n) == IF grdLock = n THEN 0 ELSE grdLock

\* ---- the owner: ffn_fe100_guard_lab ---------------------------------------------

GrdRuns(n) == ~grdOwn[n].stalled
OwnerGo(n, from, to, k) ==
  /\ grdOwn[n].pc = from /\ GrdRuns(n) /\ grdOwn' = [grdOwn EXCEPT ![n] = Process(to, k)]
OwnerSave == UNCHANGED <<grdReport, grdLab, grdSup, grdStarted, grdGroups, grdLock, grdHard, grdFaults>>
OwnerRest == UNCHANGED <<grdReport, grdSup, grdStarted, grdGroups, grdFaults>>

\* The bootstrap's only act is to join its cgroup.
Join(n) ==
  /\ grdOwn[n].pc = "boot"
  /\ OwnerGo(n, "boot", IF n \in grdGroups THEN "open" ELSE "dead", 0)
  /\ OwnerRest /\ UNCHANGED <<grdJournals, grdLock, grdHard>>
\* Lab(): the table lock, without waiting, and a journal of its own.
LabOpen(n) ==
  /\ OwnerGo(n, "open", IF grdLock = 0 THEN "save" ELSE "dead", 0)
  /\ IF grdLock = 0 THEN grdLock' = n /\ grdLab' = NewLab ELSE UNCHANGED <<grdLock, grdLab>>
  /\ OwnerRest /\ UNCHANGED <<grdRec, grdHard>>
FirstSave(n) == OwnerGo(n, "save", "idle", 0) /\ grdRec' = NewRecord /\ OwnerSave
\* prepare: refused on what is prepared or uncertain, which ends the owner.
PrepareLab(n) ==
  /\ OwnerGo(n, "idle", IF grdRec.pending \/ grdRec.left > 0 \/ grdLab.sess THEN "dead" ELSE "intent", 0)
  /\ IF grdOwn'[n].pc = "dead" THEN grdLock' = 0 /\ UNCHANGED grdLab ELSE grdLab' = [grdLab EXCEPT !.sess = TRUE] /\ UNCHANGED grdLock
  /\ OwnerRest /\ UNCHANGED <<grdRec, grdHard>>
\* Mutant: the table is written first.
LabWriteFirst(n) ==
  \/ /\ OwnerGo(n, "intent", "insert", 0) /\ grdHw' = [grdHw EXCEPT !.table = TRUE]
     /\ OwnerRest /\ UNCHANGED <<grdJournals, grdLock, grdBcm, grdStolen>>
  \/ /\ OwnerGo(n, "insert", "allocate", 1) /\ grdLab' = [grdLab EXCEPT !.change = "wanted"]
     /\ OwnerRest /\ UNCHANGED <<grdRec, grdLock, grdHard>>
\* Lab.write: the change is journaled with what was there before, then made.
LabWrite(n) ==
  \/ /\ OwnerGo(n, "intent", "insert", 0) /\ grdLab' = [grdLab EXCEPT !.change = "wanted"]
     /\ OwnerRest /\ UNCHANGED <<grdRec, grdLock, grdHard>>
  \/ /\ OwnerGo(n, "insert", "allocate", 1) /\ grdHw' = [grdHw EXCEPT !.table = TRUE]
     /\ OwnerRest /\ UNCHANGED <<grdJournals, grdLock, grdBcm, grdStolen>>
GrdSend(n, from, to, op) ==
  /\ OwnerGo(n, from, to, grdOwn[n].k) /\ grdBcm' = Append(grdBcm, [op |-> op, i |-> grdOwn[n].k])
  /\ OwnerRest /\ UNCHANGED <<grdJournals, grdLock, grdHw, grdStolen>>
\* Each rule: pending is saved, the rule allocated, its identity saved.
AllocateRule(n) ==
  \/ OwnerGo(n, "allocate", "create", grdOwn[n].k) /\ grdRec' = [grdRec EXCEPT !.pending = TRUE] /\ OwnerSave
  \/ GrdSend(n, "create", "created", "create")
  \/ /\ grdBcm = <<>>
     /\ LET k == grdOwn[n].k
        IN  OwnerGo(n, "created", IF k = 2 THEN "touch" ELSE "allocate", IF k = 2 THEN 1 ELSE 2)
     /\ grdRec' = [grdRec EXCEPT !.pending = FALSE, !.left = @ + 1] /\ OwnerSave
\* Each redirect: how to take it back is saved before it is set.
SetRedirect(n) ==
  \/ OwnerGo(n, "touch", "enable", grdOwn[n].k) /\ grdRec' = [grdRec EXCEPT !.touched = grdOwn[n].k] /\ OwnerSave
  \/ GrdSend(n, "enable", "enabled", "enable")
  \/ /\ grdBcm = <<>>
     /\ LET k == grdOwn[n].k
        IN  OwnerGo(n, "enabled", IF k = 2 THEN "idle" ELSE "touch", IF k = 2 THEN 0 ELSE 2)
     /\ OwnerRest /\ UNCHANGED <<grdJournals, grdLock, grdHard>>
\* install, drop and remove of the session.
LabSession(n) ==
  /\ grdLab.sess /\ OwnerGo(n, "idle", "idle", 0)
  /\ \E b \in BOOLEAN : b # grdHw.session /\ grdHw' = [grdHw EXCEPT !.session = b]
  /\ OwnerRest /\ UNCHANGED <<grdJournals, grdLock, grdBcm, grdStolen>>
\* finish, an exception, an exit: the lock goes, nothing is withdrawn.
OwnerEnds(n) ==
  /\ Acting(n) /\ grdOwn[n].pc # "stuck" /\ GrdRuns(n)
  /\ grdOwn' = [grdOwn EXCEPT ![n] = Process("dead", 0)] /\ grdLock' = Unlocked(n)
  /\ OwnerRest /\ UNCHANGED <<grdJournals, grdHard>>
OwnerStalls(n) ==
  /\ Acting(n) /\ grdOwn[n].pc # "stuck" /\ GrdRuns(n) /\ grdFaults < GrdMaxFaults /\ grdFaults' = grdFaults + 1
  /\ grdOwn' = [grdOwn EXCEPT ![n].stalled = TRUE]
  /\ UNCHANGED <<grdReport, grdJournals, grdSup, grdStarted, grdGroups, grdLock, grdHard>>

OwnerStep(n) ==
  \/ Join(n) \/ LabOpen(n) \/ FirstSave(n) \/ PrepareLab(n) \/ LabWrite(n)
  \/ AllocateRule(n) \/ SetRedirect(n) \/ LabSession(n) \/ OwnerEnds(n) \/ OwnerStalls(n)

\* ---- the switch daemon, and traffic ---------------------------------------------------

BcmRuns ==
  /\ grdBcm # <<>> /\ grdBcm' = Tail(grdBcm)
  /\ LET q == Head(grdBcm)
     IN  /\ grdHw' = CASE q.op = "create" -> [grdHw EXCEPT !.rules = @ \union {q.i}]
                       [] q.op = "delete" -> [grdHw EXCEPT !.rules = @ \ {q.i}]
                       [] q.op = "enable" -> [grdHw EXCEPT !.redirect = @ \union {q.i}]
                       [] OTHER -> [grdHw EXCEPT !.redirect = @ \ {q.i}]
         /\ grdStolen' = (grdStolen \/ (q.op = "delete" /\ q.i \notin grdHw.rules /\ grdRec.epoch = grdHw.epoch))
  /\ UNCHANGED <<grdReport, grdJournals, grdSup, grdStarted, grdOwn, grdGroups, grdLock, grdFaults>>
\* Redirected traffic that the parser accepts is learned as a session.
GrdLearn ==
  /\ grdHw.table /\ grdHw.redirect # {} /\ ~grdHw.session
  /\ grdHw' = [grdHw EXCEPT !.session = TRUE]
  /\ UNCHANGED <<grdReport, grdJournals, grdSup, grdStarted, grdOwn, grdGroups, grdLock, grdBcm, grdStolen, grdFaults>>
BcmRestarts ==
  /\ grdFaults < GrdMaxFaults /\ grdFaults' = grdFaults + 1
  /\ grdHw' = [grdHw EXCEPT !.rules = {}, !.redirect = {}, !.epoch = @ + 1] /\ grdBcm' = <<>>
  /\ UNCHANGED <<grdReport, grdJournals, grdSup, grdStarted, grdOwn, grdGroups, grdLock, grdStolen>>

\* ---- the guardian: _supervise --------------------------------------------------------------

SupGo(from, to) == grdSup.pc = from /\ grdSup' = [grdSup EXCEPT !.pc = to, !.k = 0]
SupRest == UNCHANGED <<grdStarted, grdJournals, grdHard, grdFaults>>
Report(phase, group) == grdReport' = [phase |-> phase, group |-> group]
\* cgroup.kill: every member dies, unless one is stuck in the kernel.
KillGroup(g) == [n \in GrdRun |-> IF n = g /\ Acting(n) THEN Process("dead", 0) ELSE grdOwn[n]]

StartGuardian ==
  /\ SupGo("off", IF grdReport.group # 0 THEN "fence" ELSE "publish")
  /\ grdStarted < GrdStarts /\ grdStarted' = grdStarted + 1
  /\ UNCHANGED <<grdReport, grdJournals, grdOwn, grdGroups, grdLock, grdHard, grdFaults>>
\* The owner of a guardian that died: its cgroup is stopped and removed, which
\* a bootstrap that joins in between prevents.
FenceOld ==
  \/ /\ SupGo("fence", "remove") /\ grdOwn' = KillGroup(grdReport.group)
     /\ grdLock' = IF Acting(grdReport.group) THEN Unlocked(grdReport.group) ELSE grdLock
     /\ UNCHANGED <<grdGroups, grdReport>> /\ SupRest
  \/ /\ SupGo("remove", IF Acting(grdReport.group) THEN "off" ELSE "publish")
     /\ grdGroups' = IF Acting(grdReport.group) THEN grdGroups ELSE grdGroups \ {grdReport.group}
     /\ UNCHANGED <<grdReport, grdOwn, grdLock>> /\ SupRest
PublishRecovering ==
  /\ grdSup.pc = "publish" /\ grdSup' = [pc |-> "check", why |-> "startup", k |-> 0] /\ Report("recovering", 0)
  /\ UNCHANGED <<grdOwn, grdGroups, grdLock>> /\ SupRest
\* The cgroup is in the report before there is a process to put into it.
PublishGroup ==
  /\ SupGo("launch", "spawn") /\ grdGroups' = grdGroups \union {grdStarted} /\ Report("starting", grdStarted)
  /\ UNCHANGED <<grdOwn, grdLock>> /\ SupRest
Spawn ==
  /\ SupGo("spawn", "watch") /\ grdOwn' = [grdOwn EXCEPT ![grdStarted] = Process("boot", 0)]
  /\ UNCHANGED <<grdReport, grdGroups, grdLock>> /\ SupRest
\* Its exit, or no fresh heartbeat within the lease.
LeaseEnds ==
  /\ grdSup.pc = "watch" /\ (grdOwn[grdStarted].pc = "dead" \/ grdOwn[grdStarted].stalled)
  /\ SupGo("watch", "kill") /\ UNCHANGED <<grdReport, grdOwn, grdGroups, grdLock>> /\ SupRest
\* A live owner that is too slow, a bad heartbeat, or SIGTERM.
WatchEnds ==
  /\ grdSup.pc = "watch" /\ grdOwn[grdStarted].pc \notin {"dead"} /\ ~grdOwn[grdStarted].stalled
  /\ SupGo("watch", "kill") /\ UNCHANGED <<grdReport, grdOwn, grdGroups, grdLock>> /\ SupRest
\* The child, though it may not have joined, then the group; then the drain.
KillOwner ==
  /\ grdSup.pc = "kill" /\ grdOwn' = [grdOwn EXCEPT ![grdStarted] = Process("dead", 0)]
  /\ grdLock' = Unlocked(grdStarted)
  /\ grdSup' = [pc |-> "check", why |-> "final", k |-> 0] /\ Report("draining", grdReport.group)
  /\ UNCHANGED grdGroups /\ SupRest
\* A process that does not die: nothing is recovered while it is there.
KillTimesOut ==
  /\ grdSup.pc \in {"kill", "fence"} /\ grdFaults < GrdMaxFaults /\ grdFaults' = grdFaults + 1
  /\ LET g == IF grdSup.pc = "kill" THEN grdStarted ELSE grdReport.group
     IN  Acting(g) /\ grdOwn' = [grdOwn EXCEPT ![g] = Process("stuck", 0)]
  /\ IF grdSup.pc = "kill" THEN Report("blocked", grdReport.group) ELSE UNCHANGED grdReport
  /\ grdSup' = GrdIdle /\ UNCHANGED <<grdStarted, grdJournals, grdGroups, grdLock, grdHard>>
Unstuck(n) ==
  /\ grdOwn[n].pc = "stuck" /\ grdOwn' = [grdOwn EXCEPT ![n] = Process("dead", 0)] /\ grdLock' = Unlocked(n)
  /\ UNCHANGED <<grdReport, grdSup, grdGroups>> /\ SupRest
\* The guardian is killed; a request of it may be at the daemon.
GuardianDies ==
  /\ grdSup.pc # "off" /\ grdFaults < GrdMaxFaults /\ grdFaults' = grdFaults + 1
  /\ grdSup' = GrdIdle /\ grdLock' = Unlocked(GrdSup)
  /\ UNCHANGED <<grdReport, grdJournals, grdStarted, grdOwn, grdGroups, grdHard>>

\* ---- the withdrawal: Recovery ------------------------------------------------------------

Settled == UNCHANGED <<grdStarted, grdOwn, grdFaults>>
\* recover returned TRUE.
Acknowledged ==
  IF grdSup.why = "startup"
  THEN grdSup' = [grdSup EXCEPT !.pc = "launch", !.k = 0] /\ UNCHANGED <<grdReport, grdGroups>>
  ELSE /\ grdSup' = GrdIdle /\ Report("drained", 0) /\ grdGroups' = grdGroups \ {grdStarted}
\* It raised: the report keeps the cgroup, and says blocked.
Blocked == grdSup' = GrdIdle /\ Report("blocked", grdReport.group) /\ UNCHANGED grdGroups
\* A record that another lifetime of the switch wrote is nobody's to withdraw.
RecoverCheck ==
  /\ grdSup.pc = "check" /\ Settled /\ UNCHANGED <<grdJournals, grdHard>>
  /\ IF ~grdRec.ex THEN (IF grdSup.why = "startup" THEN Acknowledged ELSE Blocked) /\ UNCHANGED grdLock
     ELSE IF grdRec.epoch # grdHw.epoch THEN Blocked /\ UNCHANGED grdLock
     ELSE IF grdRec.done THEN Acknowledged /\ UNCHANGED grdLock
     ELSE IF grdLock # 0 THEN Blocked /\ UNCHANGED grdLock
     ELSE /\ grdLock' = GrdSup /\ UNCHANGED <<grdReport, grdGroups>>
          /\ grdSup' = [grdSup EXCEPT !.pc = IF grdRec.touched > 0 THEN "restore" ELSE "flow", !.k = grdRec.touched]
RecoverFails == Blocked /\ grdLock' = 0 /\ grdRec' = [grdRec EXCEPT !.done = FALSE]
SupSend(to, op) ==
  /\ grdSup' = [grdSup EXCEPT !.pc = to] /\ grdBcm' = Append(grdBcm, [op |-> op, i |-> grdSup.k])
  /\ UNCHANGED <<grdReport, grdGroups, grdLock, grdHw, grdStolen>>
\* The redirects, the last first.
RestoreRedirect ==
  \/ grdSup.pc = "restore" /\ SupSend("restored", "restore") /\ Settled /\ UNCHANGED grdJournals
  \/ /\ grdSup.pc = "restored" /\ grdBcm = <<>> /\ Settled
     /\ grdSup' = [grdSup EXCEPT !.pc = IF grdSup.k > 1 THEN "restore" ELSE "flow", !.k = IF grdSup.k > 1 THEN 1 ELSE 0]
     /\ UNCHANGED <<grdJournals, grdReport, grdGroups, grdLock, grdHard>>
\* Lab.restore: the sessions, verified gone, then the tables they refer to.
LabRestore ==
  /\ Settled /\ UNCHANGED <<grdRec, grdReport, grdGroups, grdLock, grdBcm, grdStolen>>
  /\ \/ /\ grdSup.pc = "flow" /\ grdSup' = [grdSup EXCEPT !.pc = "tables"]
        /\ grdHw' = [grdHw EXCEPT !.session = @ /\ ~grdLab.sess] /\ UNCHANGED grdLab
     \/ /\ grdSup.pc = "tables" /\ grdSup' = [grdSup EXCEPT !.pc = "uncertain"]
        /\ grdHw' = [grdHw EXCEPT !.table = @ /\ grdLab.change # "wanted"]
        /\ grdLab' = [grdLab EXCEPT !.change = IF @ = "wanted" THEN "restored" ELSE @]
\* An allocation or a deletion that was under way is not guessed at.
RefuseUncertain ==
  /\ grdSup.pc = "uncertain" /\ Settled /\ UNCHANGED <<grdLab, grdHard>>
  /\ IF grdRec.pending \/ grdRec.deleting THEN RecoverFails
     ELSE /\ grdSup' = [grdSup EXCEPT !.pc = IF grdRec.left > 0 THEN "mark" ELSE "finish", !.k = grdRec.left]
          /\ UNCHANGED <<grdRec, grdReport, grdGroups, grdLock>>
\* Each rule, the last first: marked, deleted, seen to be gone, recorded.
DeleteRule ==
  \/ /\ grdSup.pc = "mark" /\ grdRec' = [grdRec EXCEPT !.deleting = TRUE] /\ grdSup' = [grdSup EXCEPT !.pc = "delete"]
     /\ Settled /\ UNCHANGED <<grdLab, grdReport, grdGroups, grdLock, grdHard>>
  \/ grdSup.pc = "delete" /\ SupSend("deleted", "delete") /\ Settled /\ UNCHANGED grdJournals
  \/ /\ grdSup.pc = "deleted" /\ grdBcm = <<>> /\ grdRec' = [grdRec EXCEPT !.deleting = FALSE, !.left = grdSup.k - 1]
     /\ grdSup' = [grdSup EXCEPT !.pc = IF grdSup.k > 1 THEN "mark" ELSE "finish", !.k = grdSup.k - 1]
     /\ Settled /\ UNCHANGED <<grdLab, grdReport, grdGroups, grdLock, grdHard>>
RecoverDone ==
  /\ grdSup.pc = "finish" /\ grdRec' = [grdRec EXCEPT !.done = TRUE] /\ grdLock' = 0 /\ Acknowledged
  /\ Settled /\ UNCHANGED <<grdLab, grdHard>>
\* A call fails in a withdrawal: whether the daemon has run it is not known.
WithdrawalFails ==
  /\ grdSup.pc \in {"restored", "flow", "tables", "deleted"} /\ grdFaults < GrdMaxFaults /\ grdFaults' = grdFaults + 1
  /\ RecoverFails /\ UNCHANGED <<grdLab, grdStarted, grdOwn, grdHard>>

Recovering ==
  RecoverCheck \/ RestoreRedirect \/ LabRestore \/ RefuseUncertain \/ DeleteRule \/ RecoverDone
Guarding ==
  \/ StartGuardian \/ FenceOld \/ PublishRecovering \/ PublishGroup \/ Spawn \/ LeaseEnds \/ KillOwner \/ Recovering

GrdInit ==
  /\ grdReport = [phase |-> "none", group |-> 0] /\ grdRec = NoRecord /\ grdLab = NewLab
  /\ grdSup = GrdIdle /\ grdStarted = 0 /\ grdOwn = [n \in GrdRun |-> Process("none", 0)] /\ grdGroups = {} /\ grdLock = 0
  /\ grdHw = [session |-> FALSE, table |-> FALSE, rules |-> {}, redirect |-> {}, epoch |-> 1]
  /\ grdBcm = <<>> /\ grdStolen = FALSE /\ grdFaults = 0

GrdNext ==
  \/ (\E n \in GrdRun : OwnerStep(n) \/ Unstuck(n))
  \/ Guarding \/ WatchEnds \/ KillTimesOut \/ GuardianDies \/ WithdrawalFails
  \/ BcmRuns \/ GrdLearn \/ BcmRestarts
GrdSpec == GrdInit /\ [][GrdNext]_grdVars /\ WF_grdVars(Guarding) /\ WF_grdVars(BcmRuns)

-----------------------------------------------------------------------------
GrdTypeOK ==
  /\ grdReport.phase \in {"none", "recovering", "starting", "draining", "drained", "blocked"}
  /\ grdReport.group \in GrdRun \union {0} /\ grdGroups \subseteq GrdRun
  /\ grdHw.rules \subseteq GrdTwo /\ grdHw.redirect \subseteq GrdTwo
  /\ grdLock \in 0 .. GrdSup /\ (\A j \in 1 .. Len(grdBcm) : grdBcm[j].i \in GrdTwo) /\ grdRec.left \in 0 .. 2 /\ grdRec.touched \in 0 .. 2
  /\ \A n \in GrdRun : grdOwn[n].k \in 0 .. 2

\* While a withdrawal runs no owner acts and none can come to: also not the
\* owner of a guardian that was killed, nor a bootstrap that was about to join.
OwnerFenced ==
  grdSup.pc \in {"check", "restore", "restored", "flow", "tables", "uncertain", "mark", "delete", "deleted", "finish", "launch", "spawn"}
    => \A n \in GrdRun : ~Acting(n) /\ (grdOwn[n].pc = "boot" => n \notin grdGroups)

\* "drained" is true: no session, table, rule or redirect of the lab is left,
\* and no request of an owner is still on its way to the switch.
DrainedIsTrue ==
  grdReport.phase = "drained" =>
    ~grdHw.session /\ ~grdHw.table /\ grdHw.rules = {} /\ grdHw.redirect = {} /\ grdBcm = <<>>

\* Front-port traffic is redirected only into tables and rules that are there,
\* in the lifetime of the switch daemon in which the owner began: neither it nor
\* a withdrawal looks at the lifetime again.
RedirectBacked == grdHw.redirect # {} /\ grdRec.epoch = grdHw.epoch => grdHw.table /\ grdHw.rules = GrdTwo

\* In one lifetime of the switch daemon a rule's identity is deleted at most
\* once: afterwards it may be another owner's.
DeletedOnce == ~grdStolen

\* An owner that makes no progress is stopped, as long as the service restarts
\* its guardian.
StalledIsFenced ==
  \A n \in GrdRun : (grdOwn[n].stalled /\ grdOwn[n].pc # "none") ~> (~grdOwn[n].stalled \/ (grdSup.pc = "off" /\ grdStarted = GrdStarts))

\* The guardian withdraws what a dead owner left, all of it and only that,
\* after the owner is fenced.
GrdSafe ==
  /\ GrdTypeOK
  /\ OwnerFenced
  /\ DrainedIsTrue
  /\ RedirectBacked
  /\ DeletedOnce
=============================================================================
