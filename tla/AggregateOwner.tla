---------------------------- MODULE AggregateOwner ----------------------------
(***************************************************************************)
(* The owner of one aggregate group on the data plane: the state machine   *)
(* ffn-portd hosts for it (octeon/native/ffn_portd.c), the one-shot Python *)
(* helpers that change the kernel for it (ffn_aggregate_runtime.py), the   *)
(* DHCP hook (ffn_aggregate_dhcp.py) and the watchdog that retires an      *)
(* owner that stopped reporting.  Helpers and hooks are processes of their *)
(* own; the owner writes a journal (the intent file) that is all the       *)
(* watchdog and a restarted daemon have to clean up from.                  *)
(*                                                                         *)
(* A revision names a complete requested configuration; NetOf gives the    *)
(* network part of it, so that two revisions may differ in LLDP alone.     *)
(***************************************************************************)
EXTENDS FfnCommon, Integers

CONSTANTS Revision, Nets, NetOf, Dhcp,  \* Dhcp: the revisions that ask for a lease
          OwnLease                         \* ticks of silence the owner tolerates

ASSUME OwnAssumption == NetOf \in [Revision -> Nets] /\ OwnLease \in Nat

VARIABLES portd,    \* the daemon process: "run", "hung" or "down"
          group,     \* struct daemon of the group
          intent, \* the generation in the intent file, None when unlinked
          tap,     \* the group's netdevice: "none", "part" or "full"
          mine,    \* its alias carries the token of the journalled owner
          net,     \* the network configured on it, None while in between
          netHelper,  \* the network-update helper: revision and progress
          dhcp,    \* the generation the DHCP client was started for
          hook,    \* a hook in flight: its client's generation, the one it read
          lease,   \* the lease file: the generation that wrote it, whose token
          pending  \* the journal of an address update: whose token it carries

ownVars == <<portd, group, intent, tap, mine, net, netHelper, dhcp, hook, lease, pending>>
kernel == <<tap, mine, net>>
runFiles == <<lease, pending>>

NoOwner == [stage |-> "free", applied |-> None, tried |-> None, asked |-> None,
            gen |-> None, err |-> FALSE, silent |-> 0, ready |-> FALSE]
NoWork == [rev |-> None, at |-> "none"]
NoHook == [env |-> None, gen |-> None, at |-> "none"]
NoLease == [gen |-> None, own |-> FALSE]

OwnInit == /\ portd = "run" /\ group = NoOwner /\ intent = None
           /\ tap = "none" /\ mine = FALSE /\ net = None
           /\ netHelper = NoWork /\ dhcp = None /\ hook = NoHook
           /\ lease = NoLease /\ pending = "none"

Running == portd = "run" /\ group.stage = "running"

(* The teardown helper removes in this order: addresses and units with the *)
(* link down, the link, the lease file, the update journal; then whoever   *)
(* ran it unlinks the intent.  Any removal may fail, and what was already  *)
(* removed stays removed.  It refuses a link with another owner's alias.   *)
Removals == 0..5

LinkGoes(k) ==
  /\ k > 0 => tap = "none" \/ mine
  /\ tap' = IF k = 0 \/ tap = "none" THEN tap ELSE IF k = 1 THEN "part" ELSE "none"
  /\ mine' = (mine /\ tap' # "none")
  /\ net' = IF k = 0 THEN net ELSE None

IntentGoes(k) == intent' = IF k = 5 THEN None ELSE intent

Teardown(k) ==
  /\ LinkGoes(k) /\ IntentGoes(k)
  /\ lease' = IF k >= 3 THEN NoLease ELSE lease
  /\ pending' = IF k >= 4 THEN "none" ELSE pending

(* lease_begin and aggregate_begin: locks, the journal, then validation.   *)
(* The token is new, so run files an unfinished recovery left are foreign  *)
(* to this owner; nothing on its way up removes them.                      *)
OwnBegin(r) ==
  /\ portd = "run" /\ group.stage = "free"
  /\ group' = [NoOwner EXCEPT !.stage = "validating", !.applied = r, !.tried = r, !.gen = r]
  /\ intent' = r /\ mine' = FALSE
  /\ lease' = [lease EXCEPT !.own = FALSE]
  /\ pending' = IF pending = "none" THEN "none" ELSE "foreign"
  /\ UNCHANGED <<portd, tap, net, netHelper, dhcp, hook>>

(* validate answered: start network-setup.                                 *)
Validated ==
  /\ portd = "run" /\ group.stage = "validating"
  /\ group' = [group EXCEPT !.stage = "setup"]
  /\ UNCHANGED <<portd, intent, kernel, netHelper, dhcp, hook, runFiles>>

(* network_setup: the device appears first, then what hangs off it.        *)
SetupCreates ==
  /\ group.stage = "setup" /\ tap = "none"
  /\ tap' = "part" /\ mine' = TRUE
  /\ UNCHANGED <<portd, group, intent, net, netHelper, dhcp, hook, runFiles>>

SetupEnds ==
  /\ group.stage = "setup" /\ tap = "part" /\ mine
  /\ tap' = "full" /\ net' = NetOf[group.applied]
  /\ UNCHANGED <<portd, group, intent, mine, netHelper, dhcp, hook, runFiles>>

(* The owner reads the helper's reply and opens the native owner.          *)
OwnOpen ==
  /\ portd = "run" /\ group.stage = "setup" /\ tap = "full" /\ mine
  /\ group' = [group EXCEPT !.stage = "running"]
  /\ UNCHANGED <<portd, intent, kernel, netHelper, dhcp, hook, runFiles>>

(* shutdown_owner: gates, helpers, DHCP, the network, run files, locks.    *)
(* Only an owner that saw network-setup succeed tears the network down; it *)
(* unlinks the run files whether or not that succeeded, but leaves the     *)
(* intent to the watchdog when it did not.                                 *)
Shutdown ==
  /\ group' = NoOwner /\ netHelper' = NoWork /\ dhcp' = None /\ hook' = NoHook
  /\ lease' = NoLease /\ pending' = "none"
  /\ IF group.stage = "running"
       THEN \E k \in Removals : LinkGoes(k) /\ IntentGoes(k)
       ELSE intent' = None /\ UNCHANGED kernel

(* The lease connection closed, a helper failed or timed out, a fault.     *)
OwnFail == portd = "run" /\ group.stage # "free" /\ Shutdown /\ UNCHANGED portd

(* network_setup failed.  It tears down what it created, which may fail in *)
(* turn, and the owner that never ran unlinks its files.                   *)
SetupFails ==
  /\ portd = "run" /\ group.stage = "setup"
  /\ group' = NoOwner /\ intent' = None /\ lease' = NoLease /\ pending' = "none"
  /\ IF mine THEN \E k \in 0..2 : LinkGoes(k) ELSE UNCHANGED kernel
  /\ UNCHANGED <<portd, netHelper, dhcp, hook>>

(* control_line: an accepted observation renews the lease and may carry    *)
(* the configuration the MP wants.                                         *)
Observe(r) ==
  /\ Running
  /\ group' = [group EXCEPT !.silent = 0, !.asked = IF r = None THEN @ ELSE r]
  /\ UNCHANGED <<portd, intent, kernel, netHelper, dhcp, hook, runFiles>>

(* worker_finish: the reply names the revision, or the update failed.      *)
Finished(o) ==
  CASE netHelper.at = "ok"     -> [o EXCEPT !.applied = netHelper.rev, !.err = FALSE]
    [] netHelper.at = "failed" -> [o EXCEPT !.err = TRUE]
    [] OTHER                -> o

WorkerBusy == netHelper.at \in {"start", "mid"}

(* configuration_service: a revision not attempted yet.  The network that  *)
(* is already installed needs no worker, unless an update failed since.    *)
OwnFresh(o) == o.asked # None /\ ~WorkerBusy /\ o.asked # o.tried
\* Mutant: an update that failed is forgotten when the old network is asked
\* again.
SameForgetful(o) == NetOf[o.asked] = NetOf[o.applied]

Same(o) == NetOf[o.asked] = NetOf[o.applied] /\ ~o.err

Configured(o) ==
  CASE ~OwnFresh(o) -> o
    [] OwnFresh(o) /\ Same(o) -> [o EXCEPT !.tried = o.asked, !.applied = o.asked, !.err = FALSE]
    [] OTHER -> [o EXCEPT !.tried = o.asked, !.err = FALSE, !.gen = o.asked]

NetworkCurrent(o, w) ==
  w = NoWork /\ ~o.err /\ (o.asked = None \/ o.applied = o.asked)

(* One pass of aggregate_tick.  An exited DHCP client is an error; a       *)
(* retired one is signalled, and a hook it started may outlive it.         *)
OwnTick(exited) ==
  LET f == Finished(group)
      starts == OwnFresh(f) /\ ~Same(f)
      c == Configured(f)
      w == IF starts THEN [rev |-> c.asked, at |-> "start"]
           ELSE IF WorkerBusy THEN netHelper ELSE NoWork
      live == IF starts THEN None ELSE dhcp
      lost == exited /\ live # None
  IN /\ Running /\ group.silent < OwnLease
     /\ netHelper' = w
     /\ intent' = c.gen
     /\ dhcp' = IF live = None /\ NetworkCurrent(c, w) /\ c.applied \in Dhcp THEN c.gen ELSE live
     /\ hook' \in {hook} \cup (IF starts THEN {NoHook} ELSE {})
     /\ group' = [c EXCEPT !.silent = @ + 1, !.err = @ \/ lost,
                           !.ready = NetworkCurrent(c, w) /\ ~lost]
     /\ UNCHANGED <<portd, kernel, runFiles>>

(* The observation lease expired.                                          *)
OwnExpire == Running /\ group.silent = OwnLease /\ Shutdown /\ UNCHANGED portd

(* apply_network_update, under the network lock.  It checks the journalled *)
(* generation and that no run file carries another owner's token; then it  *)
(* journals the addresses and takes the old ones and the lease away before *)
(* it installs the new ones: killed or failing halfway it leaves neither.  *)
WorkerRuns ==
  /\ netHelper.at = "start" /\ hook.at # "locked"
  /\ IF /\ intent = netHelper.rev /\ tap # "none" /\ mine
        /\ lease.gen # None => lease.own
        /\ pending # "foreign"
       THEN netHelper' = [netHelper EXCEPT !.at = "mid"] /\ net' = None /\ pending' = "own"
       ELSE netHelper' = [netHelper EXCEPT !.at = "failed"] /\ UNCHANGED <<net, pending>>
  /\ UNCHANGED <<portd, group, intent, tap, mine, dhcp, hook, lease>>

WorkerEnds ==
  /\ netHelper.at = "mid"
  /\ \/ /\ net' = NetOf[netHelper.rev] /\ lease' = NoLease /\ pending' = "none"
        /\ netHelper' = [netHelper EXCEPT !.at = "ok"]
     \/ /\ lease' \in {lease, NoLease} /\ UNCHANGED <<net, pending>>
        /\ netHelper' = [netHelper EXCEPT !.at = "failed"]
  /\ UNCHANGED <<portd, group, intent, tap, mine, dhcp, hook>>

(* The DHCP hook reads the intent before it waits for the network lock     *)
(* and compares it again under the lock; a lease file with another owner's *)
(* token is refused.  A hook that fails, or has nothing to record, leaves  *)
(* the lease that was there.                                               *)
HookReads ==
  /\ dhcp # None /\ hook = NoHook /\ intent # None
  /\ hook' = [env |-> dhcp, gen |-> intent, at |-> "read"]
  /\ UNCHANGED <<portd, group, intent, kernel, netHelper, dhcp, runFiles>>

HookLocks ==
  /\ hook.at = "read" /\ netHelper.at # "mid"
  /\ hook' = IF /\ intent = hook.gen /\ hook.env = intent /\ tap # "none" /\ mine
                /\ lease.gen # None => lease.own
               THEN [hook EXCEPT !.at = "locked"] ELSE NoHook
  /\ UNCHANGED <<portd, group, intent, kernel, netHelper, dhcp, runFiles>>

HookEnds ==
  /\ hook.at = "locked"
  /\ lease' \in {lease, [gen |-> hook.env, own |-> TRUE]} /\ hook' = NoHook
  /\ UNCHANGED <<portd, group, intent, kernel, netHelper, dhcp, pending>>

(* The daemon's loop stalls, or the process dies with all its children.    *)
OwnHang == portd = "run" /\ portd' = "hung"
           /\ UNCHANGED <<group, intent, kernel, netHelper, dhcp, hook, runFiles>>

Killed == /\ portd' = "down" /\ group' = NoOwner /\ netHelper' = NoWork
          /\ dhcp' = None /\ hook' = NoHook

OwnCrash == portd = "run" /\ Killed /\ UNCHANGED <<intent, kernel, runFiles>>

(* recover_leftovers of a restarted daemon: every journalled group.        *)
OwnRestart ==
  /\ portd = "down" /\ portd' = "run"
  /\ IF intent # None THEN \E k \in Removals : Teardown(k)
                      ELSE UNCHANGED <<kernel, intent, runFiles>>
  /\ UNCHANGED <<group, netHelper, dhcp, hook>>

(* recover_group from the watchdog or the MP.  A free group lock is the    *)
(* proof that no owner lives; a held one is taken only from an owner whose *)
(* published status went stale, after its process is killed.               *)
LockFree == portd = "down" \/ group.stage = "free"

OwnStale == portd = "hung" /\ group.stage = "running"

OwnSweep ==
  /\ intent # None
  /\ \/ /\ LockFree
        /\ \E k \in Removals : Teardown(k)
        /\ UNCHANGED <<portd, group, netHelper, dhcp, hook>>
     \/ /\ OwnStale /\ Killed
        /\ \E k \in Removals : Teardown(k)

OwnNext ==
  \/ \E r \in Revision : OwnBegin(r)
  \/ Validated \/ SetupCreates \/ SetupEnds \/ SetupFails \/ OwnOpen
  \/ OwnFail \/ OwnExpire
  \/ \E r \in Revision \cup {None} : Observe(r)
  \/ \E exited \in BOOLEAN : OwnTick(exited)
  \/ WorkerRuns \/ WorkerEnds
  \/ HookReads \/ HookLocks \/ HookEnds
  \/ OwnHang \/ OwnCrash \/ OwnRestart \/ OwnSweep

(* systemd restarts the daemon, the watchdog timer fires, a loop that is   *)
(* not hung keeps ticking, and helpers end (they are killed otherwise).    *)
OwnFairness == /\ WF_ownVars(OwnRestart) /\ WF_ownVars(OwnSweep)
               /\ WF_ownVars(\E e \in BOOLEAN : OwnTick(e)) /\ WF_ownVars(OwnExpire)
               /\ WF_ownVars(WorkerRuns) /\ WF_ownVars(WorkerEnds) /\ WF_ownVars(HookLocks)
               /\ WF_ownVars(HookEnds)

OwnSpec == OwnInit /\ [][OwnNext]_ownVars /\ OwnFairness

-----------------------------------------------------------------------------
(* Every variable has its type.                                            *)
OwnTypeOK ==
  /\ portd \in {"run", "hung", "down"}
  /\ group \in [stage : {"free", "validating", "setup", "running"},
                applied : Revision \cup {None}, tried : Revision \cup {None},
                asked : Revision \cup {None}, gen : Revision \cup {None},
                err : BOOLEAN, silent : 0..OwnLease, ready : BOOLEAN]
  /\ intent \in Revision \cup {None} /\ pending \in {"none", "own", "foreign"}
  /\ lease \in [gen : Revision \cup {None}, own : BOOLEAN]
  /\ tap \in {"none", "part", "full"} /\ mine \in BOOLEAN
  /\ net \in Nets \cup {None}
  /\ netHelper.rev \in Revision \cup {None} /\ netHelper.at \in {"none", "start", "mid", "ok", "failed"}
  /\ dhcp \in Revision \cup {None} /\ hook.gen \in Revision \cup {None}

(* The workers deliver packets only over the interface as the applied      *)
(* revision describes it: whatever updates failed, were superseded or were *)
(* reverted before, nothing is in flight on it.                            *)
DeliversApplied ==
  group.ready => /\ tap = "full" /\ mine /\ net = NetOf[group.applied]
                 /\ ~WorkerBusy

(* A lease that a delivering owner accepts as its own (it compares the     *)
(* token) comes from the client of the configuration that is installed,    *)
(* never from a retired client whose hook waited for the network lock, nor *)
(* from a predecessor whose half-finished teardown left its file behind.   *)
LeaseOfCurrent == group.ready /\ lease.own => lease.gen = group.gen

(* A running owner holds what it started with: nobody takes the interface  *)
(* or the journal from under it, and whatever kills it leaves recovery the *)
(* journal to start from.                                                  *)
OwnerHoldsAll == group.stage = "running" => tap = "full" /\ mine /\ intent = group.gen

(* An owner that stalls while it runs is retired by the watchdog, so its   *)
(* locks come free for the next one.                                       *)
StalledRetired == (portd = "hung" /\ group.stage = "running") ~> (portd # "hung")

(* A requested configuration is attempted, unless the owner ends first.    *)
RequestAttempted ==
  \A r \in Revision :
    (group.asked = r) ~> (group.tried = r \/ group.asked # r \/ portd # "run")

\* While a group delivers, the installed network is the applied one, a lease it
\* accepts is the installed client's, and its interface and journal are its own.
OwnSafe ==
  /\ OwnTypeOK
  /\ DeliversApplied
  /\ LeaseOfCurrent
  /\ OwnerHoldsAll
=============================================================================
