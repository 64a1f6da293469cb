---------------------------- MODULE FabricProofs ----------------------------
(* Proofs about the owners of the front-port fabric: the guardian of an     *)
(* FE100 owner, and the owners of the redirects, which share the allocation *)
(* journal, each with the inductive invariant that its safety rests on.     *)
EXTENDS Fe100Guard, FabricOwners, TLAPS

-----------------------------------------------------------------------------
\* ---- the guardian of an FE100 owner ----

GrdWorking == {"idle", "intent", "insert", "allocate", "create", "created", "touch", "enable", "enabled"}
GrdOwnerPc == GrdWorking \cup {"none", "boot", "open", "save", "dead", "stuck"}
GrdDrains == {"flow", "tables", "uncertain", "mark", "delete", "deleted", "finish"}
GrdWithdraws == {"restore", "restored"} \cup GrdDrains
GrdSupPc == GrdWithdraws \cup {"off", "fence", "remove", "publish", "check", "launch", "spawn", "watch", "kill"}
GrdOps == {"create", "delete", "enable", "restore"}
GrdRequests == [op : GrdOps, i : GrdTwo]
GrdPhases == {"none", "recovering", "starting", "draining", "drained", "blocked"}
GrdRecords == [ex : BOOLEAN, epoch : Nat, touched : 0 .. 2, pending : BOOLEAN, left : 0 .. 2, deleting : BOOLEAN, done : BOOLEAN]
GrdHardware == [session : BOOLEAN, table : BOOLEAN, rules : SUBSET GrdTwo, redirect : SUBSET GrdTwo, epoch : Nat]

GrdShape ==
  /\ grdReport \in [phase : GrdPhases, group : GrdRun \cup {0}]
  /\ grdRec \in GrdRecords /\ grdHw \in GrdHardware
  /\ grdLab \in [sess : BOOLEAN, change : {"none", "wanted", "restored"}]
  /\ grdSup \in [pc : GrdSupPc, why : {"startup", "final"}, k : 0 .. 2]
  /\ grdStarted \in 0 .. GrdStarts
  /\ grdOwn \in [GrdRun -> [pc : GrdOwnerPc, k : 0 .. 2, stalled : BOOLEAN]]
  /\ grdGroups \subseteq GrdRun /\ grdLock \in 0 .. GrdSup
  /\ grdBcm \in Seq(GrdRequests) /\ grdStolen \in BOOLEAN /\ grdFaults \in Nat

\* A process of owner n that touches hardware, or may come to.
GrdAlive(n) == Acting(n) \/ (grdOwn[n].pc = "boot" /\ n \in grdGroups)
GrdUnfenced == {"off", "fence", "remove", "watch", "kill"}
GrdFence ==
  /\ \A n \in GrdRun : GrdAlive(n) => n = grdReport.group /\ grdSup.pc \in GrdUnfenced
  /\ \A n \in GrdRun : n > grdStarted => grdOwn[n].pc = "none"
  /\ grdSup.pc \in {"spawn", "watch", "kill"} => grdReport.group = grdStarted
  /\ \/ grdSup.pc \in {"fence", "remove", "publish", "launch", "spawn"}
     \/ grdSup.pc \in {"check"} \cup GrdWithdraws /\ grdSup.why = "startup"
     => grdOwn[grdStarted].pc = "none"
  /\ grdSup.pc # "off" => grdStarted \in GrdRun
  /\ grdSup.pc \in {"fence", "remove"} => grdReport.group \in GrdRun

GrdEmpty == ~grdHw.session /\ ~grdHw.table /\ grdHw.rules = {} /\ grdHw.redirect = {} /\ grdBcm = <<>>
GrdSame == grdRec.epoch = grdHw.epoch
GrdQueued(op) == \E j \in 1 .. Len(grdBcm) : grdBcm[j].op = op

GrdTrack ==
  /\ grdRec.epoch <= grdHw.epoch
  /\ grdHw.table => grdLab.sess /\ grdLab.change = "wanted"
  /\ grdHw.session => grdLab.sess
  /\ \A i \in grdHw.redirect : i <= grdRec.touched
  /\ grdHw.redirect # {} \/ GrdQueued("enable") =>
       grdRec.left = 2 /\ ~grdRec.deleting /\ ~grdRec.pending /\ grdHw.table
  /\ \A i \in grdHw.rules : i <= grdRec.left \/ (grdRec.pending /\ i = grdRec.left + 1)
  /\ GrdSame => \A i \in GrdTwo : i < grdRec.left \/ (i = grdRec.left /\ ~grdRec.deleting) => i \in grdHw.rules
  /\ grdRec.deleting => grdRec.left > 0
  /\ \A j \in 1 .. Len(grdBcm) :
       LET q == grdBcm[j]
       IN  /\ q.op = "create" => grdRec.pending /\ q.i = grdRec.left + 1
           /\ q.op = "enable" => q.i <= grdRec.touched
           /\ q.op = "restore" => grdRec.touched > 0
           /\ q.op = "delete" => grdRec.deleting /\ q.i = grdRec.left /\ (GrdSame => q.i \in grdHw.rules)
                /\ \A m \in 1 .. Len(grdBcm) : grdBcm[m].op = "delete" => m = j
  /\ ~grdRec.ex \/ grdRec.done => GrdEmpty
  /\ grdReport.phase = "drained" => GrdEmpty /\ grdSup.pc \in {"off", "publish"} /\ grdReport.group = 0
  /\ ~grdStolen

GrdOwner(n) ==
  LET pc == grdOwn[n].pc  k == grdOwn[n].k
  IN  /\ pc \in {"open", "save"} \/ (pc = "boot" /\ n \in grdGroups) => GrdEmpty
      /\ pc \in GrdWorking =>
           /\ grdRec.ex /\ ~grdRec.done /\ ~grdRec.deleting
           /\ grdRec.pending <=> pc \in {"create", "created"}
           /\ pc # "idle" => grdLab.sess
           /\ pc \notin {"created", "enabled"} => grdBcm = <<>>
      /\ pc = "idle" /\ grdRec.left = 0 => grdRec.touched = 0
      /\ pc \in {"intent", "insert"} => grdRec.left = 0 /\ grdRec.touched = 0
      /\ pc = "insert" => grdLab.change = "wanted"
      /\ pc \in {"allocate", "create", "created"} =>
           k \in GrdTwo /\ grdRec.left = k - 1 /\ grdRec.touched = 0 /\ grdHw.table
      /\ pc = "created" /\ grdBcm = <<>> => (GrdSame => k \in grdHw.rules)
      /\ pc = "created" /\ grdBcm # <<>> => grdBcm = <<[op |-> "create", i |-> k]>>
      /\ pc \in {"touch", "enable", "enabled"} => k \in GrdTwo /\ grdRec.left = 2 /\ grdHw.table
      /\ pc = "touch" => grdRec.touched = k - 1
      /\ pc \in {"enable", "enabled"} => grdRec.touched = k
      /\ pc = "enabled" /\ grdBcm # <<>> => grdBcm = <<[op |-> "enable", i |-> k]>>

GrdGuardian ==
  LET pc == grdSup.pc  k == grdSup.k
  IN  /\ pc \in {"launch", "spawn"} => GrdEmpty
      /\ pc \in GrdWithdraws => grdRec.ex /\ ~grdRec.done
      /\ pc \in {"restore", "restored"} =>
           /\ k \in GrdTwo /\ grdRec.touched > 0
           /\ \A i \in grdHw.redirect : i <= k
           /\ \A j \in 1 .. Len(grdBcm) : grdBcm[j].op = "enable" => grdBcm[j].i <= k
      /\ pc = "restored" =>
           IF grdBcm = <<>> THEN k \notin grdHw.redirect
           ELSE grdBcm[Len(grdBcm)] = [op |-> "restore", i |-> k]
      /\ pc \in GrdDrains =>
           grdHw.redirect = {} /\ ~GrdQueued("enable") /\ (grdBcm # <<>> => grdRec.pending \/ grdRec.deleting)
      /\ pc \in GrdDrains \ {"flow"} => ~grdHw.session
      /\ pc \in GrdDrains \ {"flow", "tables"} => ~grdHw.table
      /\ pc \in {"mark", "delete", "deleted", "finish"} => k = grdRec.left /\ ~grdRec.pending
      /\ pc \in {"mark", "finish"} => ~grdRec.deleting
      /\ pc \in {"mark", "delete", "deleted"} => k \in GrdTwo
      /\ pc = "finish" => k = 0
      /\ pc = "delete" => grdRec.deleting /\ grdBcm = <<>> /\ (GrdSame => k \in grdHw.rules)
      /\ pc = "deleted" => grdRec.deleting
      /\ pc = "deleted" => IF grdBcm = <<>> THEN k \notin grdHw.rules ELSE grdBcm = <<[op |-> "delete", i |-> k]>>

GrdInv == GrdShape /\ GrdFence /\ GrdTrack /\ (\A n \in GrdRun : GrdOwner(n)) /\ GrdGuardian

USE DEF GrdTwo, GrdRun, GrdSup

LEMMA GrdInitInv == GrdInit => GrdInv
<1> SUFFICES ASSUME GrdInit PROVE GrdInv
  OBVIOUS
<1> USE GrdAssumption DEF GrdInit, NoRecord, NewLab, GrdIdle, Process
<1>1. GrdShape
  <2>1. grdRec \in GrdRecords BY DEF GrdRecords
  <2>2. grdHw \in GrdHardware BY DEF GrdHardware
  <2>3. grdOwn \in [GrdRun -> [pc : GrdOwnerPc, k : 0 .. 2, stalled : BOOLEAN]] BY DEF GrdOwnerPc
  <2>4. grdSup \in [pc : GrdSupPc, why : {"startup", "final"}, k : 0 .. 2] BY DEF GrdSupPc
  <2>5. grdReport \in [phase : GrdPhases, group : GrdRun \cup {0}] BY DEF GrdPhases
  <2>6. grdLab \in [sess : BOOLEAN, change : {"none", "wanted", "restored"}] OBVIOUS
  <2>7. grdBcm \in Seq(GrdRequests) OBVIOUS
  <2>8. grdStarted \in 0 .. GrdStarts /\ grdLock \in 0 .. GrdSup /\ grdFaults \in Nat /\ grdGroups \subseteq GrdRun OBVIOUS
  <2>9. grdStolen \in BOOLEAN OBVIOUS
  <2> HIDE DEF GrdInit
  <2> QED BY <2>1, <2>2, <2>3, <2>4, <2>5, <2>6, <2>7, <2>8, <2>9 DEF GrdShape
<1>2. GrdFence BY DEF GrdFence, GrdAlive, Acting, GrdWithdraws, GrdDrains, GrdUnfenced
<1>3. GrdTrack BY DEF GrdTrack, GrdEmpty, GrdSame, GrdQueued
<1>4. \A n \in GrdRun : GrdOwner(n) BY DEF GrdOwner, GrdWorking, GrdEmpty
<1>5. GrdGuardian BY DEF GrdGuardian, GrdWithdraws, GrdDrains
<1> QED BY <1>1, <1>2, <1>3, <1>4, <1>5 DEF GrdInv

\* A process that is not alive is under no obligation.
LEMMA GrdQuiet == GrdShape => \A m \in GrdRun : ~GrdAlive(m) => GrdOwner(m)
  BY DEF GrdOwner, GrdAlive, Acting, GrdWorking

GrdProcesses == [pc : GrdOwnerPc, k : 0 .. 2, stalled : BOOLEAN]
GrdLabs == [sess : BOOLEAN, change : {"none", "wanted", "restored"}]

\* One owner moves: what is left to show is what its step does to the
\* journals and the hardware, and its own obligation.
LEMMA GrdOwnerMoves ==
  ASSUME GrdInv, NEW n \in GrdRun, NEW x \in GrdProcesses, grdOwn' = [grdOwn EXCEPT ![n] = x],
         grdOwn[n].pc \notin {"none", "dead"}, x.pc = "dead" \/ (GrdAlive(n) /\ x.pc \notin {"none", "boot"}),
         UNCHANGED <<grdReport, grdSup, grdStarted, grdGroups>>,
         GrdAlive(n) \/ UNCHANGED <<grdRec, grdLab, grdHw, grdBcm>>,
         grdRec' \in GrdRecords, grdHw' \in GrdHardware, grdLab' \in GrdLabs, grdBcm' \in Seq(GrdRequests),
         grdLock' \in 0 .. GrdSup, grdStolen' \in BOOLEAN, grdFaults' \in Nat,
         GrdTrack', GrdOwner(n)'
  PROVE  GrdInv'
<1>1. GrdShape'
  <2>1. grdOwn' \in [GrdRun -> GrdProcesses] BY DEF GrdInv, GrdShape, GrdProcesses
  <2> QED BY <2>1 DEF GrdInv, GrdShape, GrdProcesses, GrdLabs
<1>2. \A m \in GrdRun : GrdAlive(m)' => GrdAlive(m)
  BY DEF GrdAlive, Acting, GrdInv, GrdShape, GrdProcesses
<1>3. \A m \in GrdRun : grdOwn'[m] = IF m = n THEN x ELSE grdOwn[m]
  BY DEF GrdInv, GrdShape
<1>4. GrdFence'
  <2>1. grdOwn[grdStarted].pc = "none" => grdOwn'[grdStarted].pc = "none"
    BY <1>3, GrdAssumption DEF GrdInv, GrdShape
  <2>2. \A m \in GrdRun : m > grdStarted => grdOwn'[m].pc = "none"
    BY <1>3 DEF GrdInv, GrdFence
  <2> QED BY <1>2, <2>1, <2>2 DEF GrdInv, GrdFence
<1>5. \A m \in GrdRun : GrdOwner(m)'
  <2>1. \A m \in GrdRun : m # n => (GrdAlive(m)' <=> GrdAlive(m))
    BY <1>3 DEF GrdAlive, Acting
  <2>2. CASE GrdAlive(n)
    <3>1. \A m \in GrdRun : m # n => ~GrdAlive(m)'
      BY <2>1, <2>2 DEF GrdInv, GrdFence
    <3>2. ASSUME NEW m \in GrdRun, m # n PROVE GrdOwner(m)'
      BY <3>1, <3>2 DEF GrdOwner, GrdAlive, Acting, GrdWorking
    <3> QED BY <3>2
  <2>3. CASE UNCHANGED <<grdRec, grdLab, grdHw, grdBcm>> /\ ~GrdAlive(n)
    <3>1. ASSUME NEW m \in GrdRun, m # n, GrdAlive(m) PROVE GrdOwner(m)'
      <4>1. GrdOwner(m) /\ grdOwn'[m] = grdOwn[m] /\ grdGroups' = grdGroups BY <1>3, <3>1 DEF GrdInv
      <4> QED BY <4>1, <2>3 DEF GrdOwner, GrdEmpty, GrdSame
    <3>2. ASSUME NEW m \in GrdRun, m # n, ~GrdAlive(m)' PROVE GrdOwner(m)'
      BY <3>2 DEF GrdOwner, GrdAlive, Acting, GrdWorking
    <3> QED BY <2>1, <3>1, <3>2
  <2> QED BY <2>2, <2>3
<1>6. GrdGuardian'
  <2>1. CASE GrdAlive(n)
    BY <2>1 DEF GrdInv, GrdFence, GrdUnfenced, GrdGuardian, GrdWithdraws, GrdDrains
  <2>2. CASE UNCHANGED <<grdRec, grdLab, grdHw, grdBcm>>
    <3>1. GrdGuardian BY DEF GrdInv
    <3>2. grdSup' = grdSup /\ grdRec' = grdRec /\ grdHw' = grdHw /\ grdBcm' = grdBcm BY <2>2
    <3>3. GrdSame' <=> GrdSame BY <3>2 DEF GrdSame
    <3>4. GrdQueued("enable")' <=> GrdQueued("enable") BY <3>2 DEF GrdQueued
    <3>5. GrdEmpty' <=> GrdEmpty BY <3>2 DEF GrdEmpty
    <3> QED BY ONLY <3>1, <3>2, <3>3, <3>4, <3>5 DEF GrdGuardian
  <2> QED BY <2>1, <2>2
<1> QED BY <1>1, <1>4, <1>5, <1>6 DEF GrdInv

\* What a step that leaves hardware, journals and queue alone keeps.
GrdKept == UNCHANGED <<grdRec, grdLab, grdHw, grdBcm, grdStolen>>
LEMMA GrdTrackKept ==
  ASSUME GrdTrack, GrdKept, grdReport' = grdReport, grdSup' = grdSup
  PROVE  GrdTrack'
<1>1. (GrdSame' <=> GrdSame) /\ (GrdEmpty' <=> GrdEmpty) /\ (GrdQueued("enable")' <=> GrdQueued("enable"))
  BY DEF GrdKept, GrdSame, GrdEmpty, GrdQueued
<1>2. grdRec' = grdRec /\ grdLab' = grdLab /\ grdHw' = grdHw /\ grdBcm' = grdBcm /\ grdStolen' = grdStolen
  BY DEF GrdKept
<1> QED BY <1>1, <1>2 DEF GrdTrack

LEMMA GrdJoinInv == ASSUME GrdInv, NEW n \in GrdRun, Join(n) PROVE GrdInv'
<1>1. GrdTrack'
  BY GrdTrackKept DEF Join, OwnerRest, grdJournals, grdHard, GrdKept, GrdInv
<1> DEFINE x == Process(IF n \in grdGroups THEN "open" ELSE "dead", 0)
<1>2. x \in GrdProcesses BY DEF Process, GrdProcesses, GrdOwnerPc
<1>3. grdOwn' = [grdOwn EXCEPT ![n] = x] /\ grdOwn[n].pc = "boot" BY DEF Join, OwnerGo
<1>4. x.pc = "dead" \/ (GrdAlive(n) /\ x.pc \notin {"none", "boot"}) BY <1>3 DEF Process, GrdAlive
<1>5. GrdOwner(n)'
  <2>1. grdOwn'[n] = x BY <1>3 DEF GrdInv, GrdShape
  <2>2. x.pc = "open" => GrdEmpty BY <1>3 DEF GrdInv, GrdOwner, Process
  <2>3. GrdEmpty' <=> GrdEmpty BY DEF Join, OwnerRest, grdJournals, grdHard, GrdEmpty
  <2> QED BY <2>1, <2>2, <2>3 DEF GrdOwner, Process, GrdWorking
<1>6. grdRec' \in GrdRecords /\ grdHw' \in GrdHardware /\ grdLab' \in GrdLabs /\ grdBcm' \in Seq(GrdRequests)
  BY DEF Join, OwnerRest, grdJournals, grdHard, GrdInv, GrdShape, GrdLabs
<1>7. grdLock' \in 0 .. GrdSup /\ grdStolen' \in BOOLEAN /\ grdFaults' \in Nat
  BY DEF Join, OwnerRest, grdJournals, grdHard, GrdInv, GrdShape
<1>8. UNCHANGED <<grdReport, grdSup, grdStarted, grdGroups>> /\ UNCHANGED <<grdRec, grdLab, grdHw, grdBcm>>
  BY DEF Join, OwnerRest, grdJournals, grdHard
<1> HIDE DEF x
<1> QED BY <1>1, <1>2, <1>3, <1>4, <1>5, <1>6, <1>7, <1>8, GrdOwnerMoves

LEMMA GrdOwnerEndsInv == ASSUME GrdInv, NEW n \in GrdRun, OwnerEnds(n) PROVE GrdInv'
<1>1. GrdTrack'
  BY GrdTrackKept DEF OwnerEnds, OwnerRest, grdJournals, grdHard, GrdKept, GrdInv
<1> DEFINE x == Process("dead", 0)
<1>2. x \in GrdProcesses /\ x.pc = "dead" BY DEF Process, GrdProcesses, GrdOwnerPc
<1>3. grdOwn' = [grdOwn EXCEPT ![n] = x] /\ grdOwn[n].pc \notin {"none", "dead"} BY DEF OwnerEnds, Acting
<1>5. GrdOwner(n)'
  <2>1. grdOwn'[n] = x BY <1>3 DEF GrdInv, GrdShape
  <2> QED BY <2>1 DEF GrdOwner, Process, GrdWorking
<1>6. grdRec' \in GrdRecords /\ grdHw' \in GrdHardware /\ grdLab' \in GrdLabs /\ grdBcm' \in Seq(GrdRequests)
  BY DEF OwnerEnds, OwnerRest, grdJournals, grdHard, GrdInv, GrdShape, GrdLabs
<1>7. grdLock' \in 0 .. GrdSup /\ grdStolen' \in BOOLEAN /\ grdFaults' \in Nat
  BY GrdAssumption DEF OwnerEnds, OwnerRest, grdJournals, grdHard, GrdInv, GrdShape, Unlocked
<1>8. UNCHANGED <<grdReport, grdSup, grdStarted, grdGroups>> /\ UNCHANGED <<grdRec, grdLab, grdHw, grdBcm>>
  BY DEF OwnerEnds, OwnerRest, grdJournals, grdHard
<1> HIDE DEF x
<1> QED BY <1>1, <1>2, <1>3, <1>5, <1>6, <1>7, <1>8, GrdOwnerMoves

LEMMA GrdUnstuckInv == ASSUME GrdInv, NEW n \in GrdRun, Unstuck(n) PROVE GrdInv'
<1>1. GrdTrack'
  BY GrdTrackKept DEF Unstuck, SupRest, grdJournals, grdHard, GrdKept, GrdInv
<1> DEFINE x == Process("dead", 0)
<1>2. x \in GrdProcesses /\ x.pc = "dead" BY DEF Process, GrdProcesses, GrdOwnerPc
<1>3. grdOwn' = [grdOwn EXCEPT ![n] = x] /\ grdOwn[n].pc \notin {"none", "dead"} BY DEF Unstuck
<1>5. GrdOwner(n)'
  <2>1. grdOwn'[n] = x BY <1>3 DEF GrdInv, GrdShape
  <2> QED BY <2>1 DEF GrdOwner, Process, GrdWorking
<1>6. grdRec' \in GrdRecords /\ grdHw' \in GrdHardware /\ grdLab' \in GrdLabs /\ grdBcm' \in Seq(GrdRequests)
  BY DEF Unstuck, SupRest, grdJournals, grdHard, GrdInv, GrdShape, GrdLabs
<1>7. grdLock' \in 0 .. GrdSup /\ grdStolen' \in BOOLEAN /\ grdFaults' \in Nat
  BY GrdAssumption DEF Unstuck, SupRest, grdJournals, grdHard, GrdInv, GrdShape, Unlocked
<1>8. UNCHANGED <<grdReport, grdSup, grdStarted, grdGroups>> /\ UNCHANGED <<grdRec, grdLab, grdHw, grdBcm>>
  BY DEF Unstuck, SupRest, grdJournals, grdHard
<1> HIDE DEF x
<1> QED BY <1>1, <1>2, <1>3, <1>5, <1>6, <1>7, <1>8, GrdOwnerMoves

LEMMA GrdOwnerStallsInv == ASSUME GrdInv, NEW n \in GrdRun, OwnerStalls(n) PROVE GrdInv'
<1>1. GrdTrack'
  BY GrdTrackKept DEF OwnerStalls, grdJournals, grdHard, GrdKept, GrdInv
<1> DEFINE x == [grdOwn[n] EXCEPT !.stalled = TRUE]
<1>2. x \in GrdProcesses /\ x.pc = grdOwn[n].pc /\ x.k = grdOwn[n].k BY DEF GrdProcesses, GrdInv, GrdShape
<1>3. grdOwn' = [grdOwn EXCEPT ![n] = x] /\ grdOwn[n].pc \notin {"none", "dead", "boot"} BY DEF OwnerStalls, Acting
<1>4. GrdAlive(n) BY <1>3 DEF GrdAlive, Acting
<1>8. UNCHANGED <<grdReport, grdSup, grdStarted, grdGroups>> /\ UNCHANGED <<grdRec, grdLab, grdHw, grdBcm>>
  BY DEF OwnerStalls, grdJournals, grdHard
<1>5. GrdOwner(n)'
  <2>1. grdOwn'[n].pc = grdOwn[n].pc /\ grdOwn'[n].k = grdOwn[n].k BY <1>2, <1>3 DEF GrdInv, GrdShape
  <2>2. GrdOwner(n) BY DEF GrdInv
  <2> QED BY <2>1, <2>2, <1>8 DEF GrdOwner, GrdEmpty, GrdSame
<1>6. grdRec' \in GrdRecords /\ grdHw' \in GrdHardware /\ grdLab' \in GrdLabs /\ grdBcm' \in Seq(GrdRequests)
  BY <1>8 DEF GrdInv, GrdShape, GrdLabs
<1>7. grdLock' \in 0 .. GrdSup /\ grdStolen' \in BOOLEAN /\ grdFaults' \in Nat
  BY DEF OwnerStalls, grdJournals, grdHard, GrdInv, GrdShape
<1> HIDE DEF x
<1> QED BY <1>1, <1>2, <1>3, <1>4, <1>5, <1>6, <1>7, <1>8, GrdOwnerMoves

\* An owner that acts is the one in the report, which then says not drained.
LEMMA GrdActs ==
  ASSUME GrdInv, NEW n \in GrdRun, Acting(n)
  PROVE  GrdAlive(n) /\ grdReport.phase # "drained" /\ GrdOwner(n) /\ GrdTrack
<1>1. GrdAlive(n) /\ GrdOwner(n) /\ GrdTrack BY DEF GrdAlive, GrdInv
<1>2. grdReport.group = n BY <1>1 DEF GrdInv, GrdFence
<1>3. n # 0 BY GrdAssumption
<1> QED BY <1>1, <1>2, <1>3 DEF GrdTrack

\* An owner of the lab moves on: GrdOwnerMoves with the facts its steps share.
LEMMA GrdOwnerWorks ==
  ASSUME GrdInv, NEW n \in GrdRun, NEW from \in GrdOwnerPc \ {"none", "boot", "dead"}, NEW to \in GrdOwnerPc \ {"none", "boot"},
         NEW k \in 0 .. 2, OwnerGo(n, from, to, k), OwnerRest,
         grdRec' \in GrdRecords, grdHw' \in GrdHardware, grdLab' \in GrdLabs, grdBcm' \in Seq(GrdRequests),
         grdLock' \in 0 .. GrdSup, grdStolen' \in BOOLEAN,
         GrdTrack', GrdOwner(n)'
  PROVE  GrdInv'
<1> DEFINE x == Process(to, k)
<1>1. x \in GrdProcesses /\ x.pc = to BY DEF Process, GrdProcesses
<1>2. grdOwn' = [grdOwn EXCEPT ![n] = x] /\ grdOwn[n].pc = from BY DEF OwnerGo
<1>3. GrdAlive(n) BY <1>2 DEF GrdAlive, Acting
<1>4. grdFaults' \in Nat BY DEF OwnerRest, GrdInv, GrdShape
<1>5. UNCHANGED <<grdReport, grdSup, grdStarted, grdGroups>> BY DEF OwnerRest
<1> HIDE DEF x
<1> QED BY <1>1, <1>2, <1>3, <1>4, <1>5, GrdOwnerMoves

\* The new place and counter of the owner that moves.
LEMMA GrdNewPc ==
  ASSUME GrdInv, NEW n \in GrdRun, NEW from, NEW to, NEW k, OwnerGo(n, from, to, k)
  PROVE  grdOwn[n].pc = from /\ grdOwn'[n].pc = to /\ grdOwn'[n].k = k
BY DEF OwnerGo, Process, GrdInv, GrdShape

LEMMA GrdLabOpenInv == ASSUME GrdInv, NEW n \in GrdRun, LabOpen(n) PROVE GrdInv'
<1> DEFINE to == IF grdLock = 0 THEN "save" ELSE "dead"
<1>1. OwnerGo(n, "open", to, 0) /\ OwnerRest BY DEF LabOpen
<1>2. UNCHANGED <<grdRec, grdHw, grdBcm, grdStolen>> /\ grdReport' = grdReport /\ grdSup' = grdSup
  BY DEF LabOpen, OwnerRest, grdHard
<1>3. grdOwn[n].pc = "open" /\ grdOwn'[n].pc = to BY <1>1, GrdNewPc
<1>4. GrdOwner(n) /\ GrdTrack BY DEF GrdInv
<1>5. GrdEmpty BY <1>3, <1>4 DEF GrdOwner
<1>6. grdLab' \in GrdLabs /\ grdLock' \in 0 .. GrdSup
  <2>1. grdLab \in GrdLabs /\ grdLock \in 0 .. GrdSup BY DEF GrdInv, GrdShape, GrdLabs
  <2>2. NewLab \in GrdLabs BY DEF NewLab, GrdLabs
  <2>3. n \in 0 .. GrdSup BY GrdAssumption
  <2> QED BY <2>1, <2>2, <2>3 DEF LabOpen
<1>7. GrdEmpty' BY <1>2, <1>5 DEF GrdEmpty
<1>8. GrdTrack' BY <1>2, <1>4, <1>5, <1>7 DEF GrdTrack, GrdEmpty, GrdSame, GrdQueued
<1>9. GrdOwner(n)' BY <1>3, <1>7 DEF GrdOwner, GrdWorking
<1>10. grdRec' \in GrdRecords /\ grdHw' \in GrdHardware /\ grdBcm' \in Seq(GrdRequests) /\ grdStolen' \in BOOLEAN
  BY <1>2 DEF GrdInv, GrdShape
<1>11. to \in GrdOwnerPc \ {"none", "boot"} /\ "open" \in GrdOwnerPc \ {"none", "boot", "dead"} BY DEF GrdOwnerPc
<1> HIDE DEF to
<1> QED BY <1>1, <1>6, <1>8, <1>9, <1>10, <1>11, GrdOwnerWorks

LEMMA GrdFirstSaveInv == ASSUME GrdInv, NEW n \in GrdRun, FirstSave(n) PROVE GrdInv'
<1>1. OwnerGo(n, "save", "idle", 0) /\ OwnerRest BY DEF FirstSave, OwnerSave, OwnerRest
<1>2. UNCHANGED <<grdLab, grdHw, grdBcm, grdStolen, grdLock>> /\ grdReport' = grdReport /\ grdSup' = grdSup
  BY DEF FirstSave, OwnerSave, grdHard
<1>3. grdOwn[n].pc = "save" /\ grdOwn'[n].pc = "idle" BY <1>1, GrdNewPc
<1>4. GrdOwner(n) /\ GrdTrack BY DEF GrdInv
<1>5. GrdEmpty BY <1>3, <1>4 DEF GrdOwner
<1>6. grdRec' = NewRecord /\ grdHw.epoch \in Nat BY DEF FirstSave, GrdInv, GrdShape, GrdHardware
<1>7. grdRec' \in GrdRecords
  <2>1. NoRecord \in GrdRecords BY DEF NoRecord, GrdRecords
  <2> QED BY <1>6, <2>1 DEF NewRecord, GrdRecords
<1>8. grdRec'.epoch = grdHw.epoch /\ grdRec'.touched = 0 /\ grdRec'.left = 0 /\ grdRec'.ex /\ ~grdRec'.pending
        /\ ~grdRec'.deleting /\ ~grdRec'.done
  BY <1>6 DEF NewRecord, NoRecord
<1>9. GrdEmpty' BY <1>2, <1>5 DEF GrdEmpty
<1>10. GrdTrack'
  BY <1>2, <1>4, <1>5, <1>6, <1>8, <1>9 DEF GrdTrack, GrdEmpty, GrdSame, GrdQueued
<1>11. GrdOwner(n)' BY <1>3, <1>8, <1>9 DEF GrdOwner, GrdWorking, GrdEmpty
<1>12. grdLab' \in GrdLabs /\ grdHw' \in GrdHardware /\ grdBcm' \in Seq(GrdRequests) /\ grdStolen' \in BOOLEAN /\ grdLock' \in 0 .. GrdSup
  BY <1>2 DEF GrdInv, GrdShape, GrdLabs
<1>13. "idle" \in GrdOwnerPc \ {"none", "boot"} /\ "save" \in GrdOwnerPc \ {"none", "boot", "dead"} BY DEF GrdOwnerPc, GrdWorking
<1> QED BY <1>1, <1>7, <1>10, <1>11, <1>12, <1>13, GrdOwnerWorks

LEMMA GrdPrepareInv == ASSUME GrdInv, NEW n \in GrdRun, PrepareLab(n) PROVE GrdInv'
<1> DEFINE to == IF grdRec.pending \/ grdRec.left > 0 \/ grdLab.sess THEN "dead" ELSE "intent"
<1>1. OwnerGo(n, "idle", to, 0) /\ OwnerRest BY DEF PrepareLab
<1>2. UNCHANGED <<grdRec, grdHw, grdBcm, grdStolen>> /\ grdReport' = grdReport /\ grdSup' = grdSup
  BY DEF PrepareLab, OwnerRest, grdHard
<1>3. grdOwn[n].pc = "idle" /\ grdOwn'[n].pc = to BY <1>1, GrdNewPc
<1>4. GrdOwner(n) /\ GrdTrack BY DEF GrdInv
<1>5. to = "dead" => grdLab' = grdLab BY <1>3 DEF PrepareLab
<1>6. to = "intent" => grdLab' = [grdLab EXCEPT !.sess = TRUE] BY <1>3 DEF PrepareLab
<1>7. grdLab' \in GrdLabs /\ grdLock' \in 0 .. GrdSup
  <2>1. grdLab \in GrdLabs /\ grdLock \in 0 .. GrdSup BY DEF GrdInv, GrdShape, GrdLabs
  <2>2. [grdLab EXCEPT !.sess = TRUE] \in GrdLabs BY <2>1 DEF GrdLabs
  <2>3. 0 \in 0 .. GrdSup BY GrdAssumption
  <2> QED BY <2>1, <2>2, <2>3, <1>3, <1>5, <1>6 DEF PrepareLab
<1>8. (grdLab.sess => grdLab'.sess) /\ grdLab'.change = grdLab.change /\ (to = "intent" => grdLab'.sess)
  BY <1>5, <1>6 DEF GrdInv, GrdShape
<1>9. (GrdSame' <=> GrdSame) /\ (GrdEmpty' <=> GrdEmpty) /\ (GrdQueued("enable")' <=> GrdQueued("enable"))
  BY <1>2 DEF GrdSame, GrdEmpty, GrdQueued
<1>10. GrdTrack' BY <1>2, <1>4, <1>8, <1>9 DEF GrdTrack
<1>11. GrdOwner(n)'
  <2>1. CASE to = "dead" BY <2>1, <1>3 DEF GrdOwner, GrdWorking
  <2>2. CASE to = "intent"
    <3>1. grdRec.left = 0 /\ grdRec.touched = 0 /\ grdBcm = <<>> /\ grdRec.ex /\ ~grdRec.done /\ ~grdRec.deleting /\ ~grdRec.pending
      BY <2>2, <1>3, <1>4 DEF GrdOwner, GrdWorking, GrdInv, GrdShape, GrdRecords
    <3> HIDE DEF to
    <3> QED BY <2>2, <3>1, <1>2, <1>3, <1>8 DEF GrdOwner, GrdWorking
  <2> QED BY <2>1, <2>2
<1>12. grdRec' \in GrdRecords /\ grdHw' \in GrdHardware /\ grdBcm' \in Seq(GrdRequests) /\ grdStolen' \in BOOLEAN
  BY <1>2 DEF GrdInv, GrdShape
<1>13. to \in GrdOwnerPc \ {"none", "boot"} /\ "idle" \in GrdOwnerPc \ {"none", "boot", "dead"} BY DEF GrdOwnerPc, GrdWorking
<1> HIDE DEF to
<1> QED BY <1>1, <1>7, <1>10, <1>11, <1>12, <1>13, GrdOwnerWorks

\* The labels of an owner's work, as members of the sets the lemmas name.
LEMMA GrdLabels ==
  /\ \A p \in GrdWorking \cup {"save"} : p \in GrdOwnerPc \ {"none", "boot", "dead"} /\ p \in GrdOwnerPc \ {"none", "boot"}
  /\ 0 \in 0 .. 2 /\ 1 \in 0 .. 2 /\ 2 \in 0 .. 2
  BY DEF GrdOwnerPc, GrdWorking

LEMMA GrdLabWriteInv == ASSUME GrdInv, NEW n \in GrdRun, LabWrite(n) PROVE GrdInv'
<1>1. CASE OwnerGo(n, "intent", "insert", 0) /\ grdLab' = [grdLab EXCEPT !.change = "wanted"]
           /\ OwnerRest /\ UNCHANGED <<grdRec, grdLock, grdHard>>
  <2>1. grdOwn[n].pc = "intent" /\ grdOwn'[n].pc = "insert" BY <1>1, GrdNewPc
  <2>2. GrdOwner(n) /\ GrdTrack BY DEF GrdInv
  <2>3. grdLab' \in GrdLabs BY <1>1 DEF GrdLabs, GrdInv, GrdShape
  <2>4. grdLab'.sess = grdLab.sess /\ grdLab'.change = "wanted" BY <1>1 DEF GrdInv, GrdShape
  <2>5. UNCHANGED <<grdRec, grdHw, grdBcm, grdStolen, grdLock>> /\ grdReport' = grdReport /\ grdSup' = grdSup
    BY <1>1 DEF grdHard, OwnerRest
  <2>6. (GrdSame' <=> GrdSame) /\ (GrdEmpty' <=> GrdEmpty) /\ (GrdQueued("enable")' <=> GrdQueued("enable"))
    BY <2>5 DEF GrdSame, GrdEmpty, GrdQueued
  <2>7. GrdTrack' BY <2>2, <2>4, <2>5, <2>6 DEF GrdTrack
  <2>8. GrdOwner(n)' BY <2>1, <2>2, <2>4, <2>5 DEF GrdOwner, GrdWorking
  <2>9. grdRec' \in GrdRecords /\ grdHw' \in GrdHardware /\ grdBcm' \in Seq(GrdRequests) /\ grdStolen' \in BOOLEAN /\ grdLock' \in 0 .. GrdSup
    BY <2>5 DEF GrdInv, GrdShape
  <2>10. "intent" \in GrdWorking /\ "insert" \in GrdWorking BY DEF GrdWorking
  <2> QED BY <1>1, <2>3, <2>7, <2>8, <2>9, <2>10, GrdLabels, GrdOwnerWorks
<1>2. CASE OwnerGo(n, "insert", "allocate", 1) /\ grdHw' = [grdHw EXCEPT !.table = TRUE]
           /\ OwnerRest /\ UNCHANGED <<grdJournals, grdLock, grdBcm, grdStolen>>
  <2>1. grdOwn[n].pc = "insert" /\ grdOwn'[n].pc = "allocate" /\ grdOwn'[n].k = 1 BY <1>2, GrdNewPc
  <2>2. Acting(n) BY <2>1 DEF Acting
  <2>3. GrdOwner(n) /\ GrdTrack /\ grdReport.phase # "drained" BY <2>2, GrdActs
  <2>4. grdHw' \in GrdHardware BY <1>2 DEF GrdHardware, GrdInv, GrdShape
  <2>5. grdHw'.session = grdHw.session /\ grdHw'.rules = grdHw.rules /\ grdHw'.redirect = grdHw.redirect /\ grdHw'.epoch = grdHw.epoch /\ grdHw'.table
    BY <1>2 DEF GrdInv, GrdShape, GrdHardware
  <2>6. UNCHANGED <<grdRec, grdLab, grdBcm, grdStolen, grdLock>> /\ grdReport' = grdReport /\ grdSup' = grdSup
    BY <1>2 DEF grdJournals, OwnerRest
  <2>7. (GrdSame' <=> GrdSame) /\ (GrdQueued("enable")' <=> GrdQueued("enable"))
    BY <2>5, <2>6 DEF GrdSame, GrdQueued
  <2>8. grdRec.ex /\ ~grdRec.done /\ grdLab.sess /\ grdLab.change = "wanted" /\ grdBcm = <<>> /\ grdRec.left = 0 /\ grdRec.touched = 0
          /\ ~grdRec.pending /\ ~grdRec.deleting
    BY <2>1, <2>3 DEF GrdOwner, GrdWorking, GrdInv, GrdShape, GrdRecords
  <2>9. GrdTrack' BY <2>3, <2>5, <2>6, <2>7, <2>8 DEF GrdTrack
  <2>10. GrdOwner(n)' BY <2>1, <2>5, <2>6, <2>8 DEF GrdOwner, GrdWorking
  <2>11. grdRec' \in GrdRecords /\ grdLab' \in GrdLabs /\ grdBcm' \in Seq(GrdRequests) /\ grdStolen' \in BOOLEAN /\ grdLock' \in 0 .. GrdSup
    BY <2>6 DEF GrdInv, GrdShape, GrdLabs
  <2>12. "allocate" \in GrdWorking /\ "insert" \in GrdWorking BY DEF GrdWorking
  <2> QED BY <1>2, <2>4, <2>9, <2>10, <2>11, <2>12, GrdLabels, GrdOwnerWorks
<1> QED BY <1>1, <1>2 DEF LabWrite

LEMMA GrdLabSessionInv == ASSUME GrdInv, NEW n \in GrdRun, LabSession(n) PROVE GrdInv'
<1>1. OwnerGo(n, "idle", "idle", 0) /\ OwnerRest /\ grdLab.sess BY DEF LabSession
<1>2. PICK b \in BOOLEAN : grdHw' = [grdHw EXCEPT !.session = b] BY DEF LabSession
<1>3. grdOwn[n].pc = "idle" /\ grdOwn'[n].pc = "idle" BY <1>1, GrdNewPc
<1>4. Acting(n) BY <1>3 DEF Acting
<1>5. GrdOwner(n) /\ GrdTrack /\ grdReport.phase # "drained" BY <1>4, GrdActs
<1>6. UNCHANGED <<grdRec, grdLab, grdBcm, grdStolen, grdLock>> /\ grdReport' = grdReport /\ grdSup' = grdSup
  BY DEF LabSession, grdJournals, OwnerRest
<1>7. grdHw' \in GrdHardware BY <1>2 DEF GrdHardware, GrdInv, GrdShape
<1>8. grdHw'.table = grdHw.table /\ grdHw'.rules = grdHw.rules /\ grdHw'.redirect = grdHw.redirect /\ grdHw'.epoch = grdHw.epoch
  BY <1>2 DEF GrdInv, GrdShape, GrdHardware
<1>9. (GrdSame' <=> GrdSame) /\ (GrdQueued("enable")' <=> GrdQueued("enable"))
  BY <1>6, <1>8 DEF GrdSame, GrdQueued
<1>10. grdRec.ex /\ ~grdRec.done BY <1>3, <1>5 DEF GrdOwner, GrdWorking
<1>11. GrdTrack' BY <1>1, <1>5, <1>6, <1>8, <1>9, <1>10 DEF GrdTrack
<1>12. GrdOwner(n)' BY <1>3, <1>5, <1>6, <1>8 DEF GrdOwner, GrdWorking
<1>13. grdRec' \in GrdRecords /\ grdLab' \in GrdLabs /\ grdBcm' \in Seq(GrdRequests) /\ grdStolen' \in BOOLEAN /\ grdLock' \in 0 .. GrdSup
  BY <1>6 DEF GrdInv, GrdShape, GrdLabs
<1>14. "idle" \in GrdWorking BY DEF GrdWorking
<1> QED BY <1>1, <1>7, <1>11, <1>12, <1>13, <1>14, GrdLabels, GrdOwnerWorks

\* A request into an empty queue is alone there.
LEMMA GrdSendAlone ==
  ASSUME GrdInv, NEW n \in GrdRun, NEW from, NEW to, NEW op \in GrdOps, GrdSend(n, from, to, op), grdBcm = <<>>, grdOwn[n].k \in GrdTwo
  PROVE  /\ grdBcm' = <<[op |-> op, i |-> grdOwn[n].k]>> /\ Len(grdBcm') = 1 /\ grdBcm'[1] = [op |-> op, i |-> grdOwn[n].k]
         /\ grdBcm' \in Seq(GrdRequests) /\ grdBcm' # <<>>
<1> DEFINE q == [op |-> op, i |-> grdOwn[n].k]
<1>1. q \in GrdRequests BY DEF GrdRequests
<1>2. grdBcm' = Append(<<>>, q) BY DEF GrdSend
<1> HIDE DEF q
<1>3. grdBcm' = <<q>> /\ Len(grdBcm') = 1 /\ grdBcm'[1] = q /\ grdBcm' # <<>> BY <1>2
<1>4. <<q>> \in Seq(GrdRequests) BY <1>1
<1> QED BY <1>3, <1>4 DEF q

LEMMA GrdAllocateInv == ASSUME GrdInv, NEW n \in GrdRun, AllocateRule(n) PROVE GrdInv'
<1> DEFINE k == grdOwn[n].k
<1>0. k \in 0 .. 2 BY DEF GrdInv, GrdShape
<1>1. CASE OwnerGo(n, "allocate", "create", k) /\ grdRec' = [grdRec EXCEPT !.pending = TRUE] /\ OwnerSave
  <2>1. grdOwn[n].pc = "allocate" /\ grdOwn'[n].pc = "create" /\ grdOwn'[n].k = k BY <1>1, GrdNewPc
  <2>2. GrdOwner(n) /\ GrdTrack /\ grdReport.phase # "drained" BY <2>1, GrdActs DEF Acting
  <2>3. UNCHANGED <<grdHw, grdLab, grdBcm, grdStolen, grdLock>> /\ grdReport' = grdReport /\ grdSup' = grdSup /\ OwnerRest
    BY <1>1 DEF OwnerSave, grdHard, OwnerRest
  <2>4. grdRec' \in GrdRecords BY <1>1 DEF GrdRecords, GrdInv, GrdShape
  <2>5. grdRec'.ex = grdRec.ex /\ grdRec'.epoch = grdRec.epoch /\ grdRec'.touched = grdRec.touched /\ grdRec'.left = grdRec.left
          /\ grdRec'.deleting = grdRec.deleting /\ grdRec'.done = grdRec.done /\ grdRec'.pending
    BY <1>1 DEF GrdInv, GrdShape, GrdRecords
  <2>6. grdRec.ex /\ ~grdRec.done /\ ~grdRec.pending /\ ~grdRec.deleting /\ grdBcm = <<>> /\ k \in GrdTwo /\ grdRec.left = k - 1
          /\ grdLab.sess /\ grdRec.touched = 0 /\ grdHw.table
    BY <2>1, <2>2 DEF GrdOwner, GrdWorking, GrdInv, GrdShape, GrdRecords
  <2>7. grdHw.redirect = {} /\ ~GrdQueued("enable") BY <1>0, <2>2, <2>6 DEF GrdTrack
  <2>8. (GrdSame' <=> GrdSame) /\ (GrdQueued("enable")' <=> GrdQueued("enable")) BY <2>3, <2>5 DEF GrdSame, GrdQueued
  <2>9. GrdTrack' BY <2>2, <2>3, <2>5, <2>6, <2>7, <2>8 DEF GrdTrack
  <2>10. GrdOwner(n)' BY <2>1, <2>3, <2>5, <2>6 DEF GrdOwner, GrdWorking
  <2>11. grdHw' \in GrdHardware /\ grdLab' \in GrdLabs /\ grdBcm' \in Seq(GrdRequests) /\ grdStolen' \in BOOLEAN /\ grdLock' \in 0 .. GrdSup
    BY <2>3 DEF GrdInv, GrdShape, GrdLabs
  <2>12. "allocate" \in GrdWorking /\ "create" \in GrdWorking BY DEF GrdWorking
  <2> HIDE DEF k
  <2> QED BY <1>0, <1>1, <2>3, <2>4, <2>9, <2>10, <2>11, <2>12, GrdLabels, GrdOwnerWorks
<1>2. CASE GrdSend(n, "create", "created", "create")
  <2>0. OwnerGo(n, "create", "created", k) /\ OwnerRest BY <1>2 DEF GrdSend
  <2>1. grdOwn[n].pc = "create" /\ grdOwn'[n].pc = "created" /\ grdOwn'[n].k = k BY <2>0, GrdNewPc
  <2>2. GrdOwner(n) /\ GrdTrack /\ grdReport.phase # "drained" BY <2>1, GrdActs DEF Acting
  <2>3. UNCHANGED <<grdHw, grdLab, grdRec, grdStolen, grdLock>> /\ grdReport' = grdReport /\ grdSup' = grdSup
    BY <1>2 DEF GrdSend, grdJournals, OwnerRest
  <2>4. grdRec.ex /\ ~grdRec.done /\ grdRec.pending /\ ~grdRec.deleting /\ grdBcm = <<>> /\ k \in GrdTwo /\ grdRec.left = k - 1
          /\ grdLab.sess /\ grdRec.touched = 0 /\ grdHw.table
    BY <2>1, <2>2 DEF GrdOwner, GrdWorking, GrdInv, GrdShape, GrdRecords
  <2>5. grdBcm' = <<[op |-> "create", i |-> k]>> /\ Len(grdBcm') = 1 /\ grdBcm'[1] = [op |-> "create", i |-> k] /\ grdBcm' \in Seq(GrdRequests)
          /\ grdBcm' # <<>>
    BY <1>2, <2>4, GrdSendAlone DEF GrdOps
  <2>6. (GrdSame' <=> GrdSame) /\ ~GrdQueued("enable")' BY <2>3, <2>5 DEF GrdSame, GrdQueued
  <2>7. GrdTrack' BY <2>2, <2>3, <2>4, <2>5, <2>6 DEF GrdTrack
  <2>8. GrdOwner(n)' BY <2>1, <2>3, <2>4, <2>5 DEF GrdOwner, GrdWorking
  <2>9. grdHw' \in GrdHardware /\ grdLab' \in GrdLabs /\ grdRec' \in GrdRecords /\ grdStolen' \in BOOLEAN /\ grdLock' \in 0 .. GrdSup
    BY <2>3 DEF GrdInv, GrdShape, GrdLabs
  <2>10. "create" \in GrdWorking /\ "created" \in GrdWorking BY DEF GrdWorking
  <2> HIDE DEF k
  <2> QED BY <1>0, <2>0, <2>5, <2>7, <2>8, <2>9, <2>10, GrdLabels, GrdOwnerWorks
<1>3. CASE /\ grdBcm = <<>> /\ OwnerGo(n, "created", IF k = 2 THEN "touch" ELSE "allocate", IF k = 2 THEN 1 ELSE 2)
           /\ grdRec' = [grdRec EXCEPT !.pending = FALSE, !.left = @ + 1] /\ OwnerSave
  <2> DEFINE to == IF k = 2 THEN "touch" ELSE "allocate"
             j == IF k = 2 THEN 1 ELSE 2
  <2>1. grdOwn[n].pc = "created" /\ grdOwn'[n].pc = to /\ grdOwn'[n].k = j BY <1>3, GrdNewPc
  <2>2. GrdOwner(n) /\ GrdTrack /\ grdReport.phase # "drained" BY <2>1, GrdActs DEF Acting
  <2>3. UNCHANGED <<grdHw, grdLab, grdBcm, grdStolen, grdLock>> /\ grdReport' = grdReport /\ grdSup' = grdSup /\ OwnerRest
    BY <1>3 DEF OwnerSave, grdHard, OwnerRest
  <2>4. grdRec.ex /\ ~grdRec.done /\ grdRec.pending /\ ~grdRec.deleting /\ k \in GrdTwo /\ grdRec.left = k - 1
          /\ grdLab.sess /\ grdRec.touched = 0 /\ grdHw.table /\ (GrdSame => k \in grdHw.rules)
    BY <1>3, <2>1, <2>2 DEF GrdOwner, GrdWorking, GrdInv, GrdShape, GrdRecords
  <2>5. grdRec'.ex = grdRec.ex /\ grdRec'.epoch = grdRec.epoch /\ grdRec'.touched = grdRec.touched /\ grdRec'.left = k
          /\ grdRec'.deleting = grdRec.deleting /\ grdRec'.done = grdRec.done /\ ~grdRec'.pending
    <3>1. grdRec \in GrdRecords /\ grdRec.left + 1 = k BY <1>0, <2>4 DEF GrdInv, GrdShape
    <3> HIDE DEF k
    <3> QED BY <1>3, <3>1 DEF GrdRecords
  <2>6. grdRec' \in GrdRecords
    <3>1. grdRec \in GrdRecords /\ grdRec.left + 1 \in 0 .. 2 BY <1>0, <2>4 DEF GrdInv, GrdShape
    <3> QED BY <1>3, <3>1 DEF GrdRecords
  <2>7. grdHw.redirect = {} /\ ~GrdQueued("enable") BY <1>0, <2>2, <2>4 DEF GrdTrack
  <2>8. (GrdSame' <=> GrdSame) /\ (GrdQueued("enable")' <=> GrdQueued("enable")) BY <2>3, <2>5 DEF GrdSame, GrdQueued
  <2>9. grdHw.rules \subseteq GrdTwo BY DEF GrdInv, GrdShape, GrdHardware
  <2>10. GrdTrack' BY <1>3, <2>2, <2>3, <2>4, <2>5, <2>7, <2>8, <2>9 DEF GrdTrack
  <2>11. GrdOwner(n)'
    <3>1. CASE k = 2 BY <1>3, <2>1, <2>3, <2>4, <2>5, <3>1 DEF GrdOwner, GrdWorking
    <3>2. CASE k = 1 BY <1>3, <2>1, <2>3, <2>4, <2>5, <3>2 DEF GrdOwner, GrdWorking
    <3> QED BY <2>4, <3>1, <3>2
  <2>12. grdHw' \in GrdHardware /\ grdLab' \in GrdLabs /\ grdBcm' \in Seq(GrdRequests) /\ grdStolen' \in BOOLEAN /\ grdLock' \in 0 .. GrdSup
    BY <2>3 DEF GrdInv, GrdShape, GrdLabs
  <2>13. "created" \in GrdWorking /\ to \in GrdWorking /\ j \in 0 .. 2 BY DEF GrdWorking
  <2>14. OwnerGo(n, "created", to, j) BY <1>3
  <2> HIDE DEF k, j, to
  <2> QED BY <2>3, <2>6, <2>10, <2>11, <2>12, <2>13, <2>14, GrdLabels, GrdOwnerWorks
<1> QED BY <1>1, <1>2, <1>3 DEF AllocateRule

LEMMA GrdRedirectInv == ASSUME GrdInv, NEW n \in GrdRun, SetRedirect(n) PROVE GrdInv'
<1> DEFINE k == grdOwn[n].k
<1>0. k \in 0 .. 2 BY DEF GrdInv, GrdShape
<1>1. CASE OwnerGo(n, "touch", "enable", k) /\ grdRec' = [grdRec EXCEPT !.touched = k] /\ OwnerSave
  <2>1. grdOwn[n].pc = "touch" /\ grdOwn'[n].pc = "enable" /\ grdOwn'[n].k = k BY <1>1, GrdNewPc
  <2>2. GrdOwner(n) /\ GrdTrack /\ grdReport.phase # "drained" BY <2>1, GrdActs DEF Acting
  <2>3. UNCHANGED <<grdHw, grdLab, grdBcm, grdStolen, grdLock>> /\ grdReport' = grdReport /\ grdSup' = grdSup /\ OwnerRest
    BY <1>1 DEF OwnerSave, grdHard, OwnerRest
  <2>4. grdRec' \in GrdRecords BY <1>0, <1>1 DEF GrdRecords, GrdInv, GrdShape
  <2>5. grdRec'.ex = grdRec.ex /\ grdRec'.epoch = grdRec.epoch /\ grdRec'.touched = k /\ grdRec'.left = grdRec.left
          /\ grdRec'.deleting = grdRec.deleting /\ grdRec'.done = grdRec.done /\ grdRec'.pending = grdRec.pending
    BY <1>1 DEF GrdInv, GrdShape, GrdRecords
  <2>6. grdRec.ex /\ ~grdRec.done /\ ~grdRec.pending /\ ~grdRec.deleting /\ grdBcm = <<>> /\ k \in GrdTwo /\ grdRec.left = 2
          /\ grdLab.sess /\ grdRec.touched = k - 1 /\ grdHw.table
    BY <2>1, <2>2 DEF GrdOwner, GrdWorking, GrdInv, GrdShape, GrdRecords
  <2>7. (GrdSame' <=> GrdSame) /\ (GrdQueued("enable")' <=> GrdQueued("enable")) BY <2>3, <2>5 DEF GrdSame, GrdQueued
  <2>8. grdHw.redirect \subseteq GrdTwo BY DEF GrdInv, GrdShape, GrdHardware
  <2>9. GrdTrack' BY <1>0, <2>2, <2>3, <2>5, <2>6, <2>7, <2>8 DEF GrdTrack
  <2>10. GrdOwner(n)' BY <2>1, <2>3, <2>5, <2>6 DEF GrdOwner, GrdWorking
  <2>11. grdHw' \in GrdHardware /\ grdLab' \in GrdLabs /\ grdBcm' \in Seq(GrdRequests) /\ grdStolen' \in BOOLEAN /\ grdLock' \in 0 .. GrdSup
    BY <2>3 DEF GrdInv, GrdShape, GrdLabs
  <2>12. "touch" \in GrdWorking /\ "enable" \in GrdWorking BY DEF GrdWorking
  <2> HIDE DEF k
  <2> QED BY <1>0, <1>1, <2>3, <2>4, <2>9, <2>10, <2>11, <2>12, GrdLabels, GrdOwnerWorks
<1>2. CASE GrdSend(n, "enable", "enabled", "enable")
  <2>0. OwnerGo(n, "enable", "enabled", k) /\ OwnerRest BY <1>2 DEF GrdSend
  <2>1. grdOwn[n].pc = "enable" /\ grdOwn'[n].pc = "enabled" /\ grdOwn'[n].k = k BY <2>0, GrdNewPc
  <2>2. GrdOwner(n) /\ GrdTrack /\ grdReport.phase # "drained" BY <2>1, GrdActs DEF Acting
  <2>3. UNCHANGED <<grdHw, grdLab, grdRec, grdStolen, grdLock>> /\ grdReport' = grdReport /\ grdSup' = grdSup
    BY <1>2 DEF GrdSend, grdJournals, OwnerRest
  <2>4. grdRec.ex /\ ~grdRec.done /\ ~grdRec.pending /\ ~grdRec.deleting /\ grdBcm = <<>> /\ k \in GrdTwo /\ grdRec.left = 2
          /\ grdLab.sess /\ grdRec.touched = k /\ grdHw.table
    BY <2>1, <2>2 DEF GrdOwner, GrdWorking, GrdInv, GrdShape, GrdRecords
  <2>5. grdBcm' = <<[op |-> "enable", i |-> k]>> /\ Len(grdBcm') = 1 /\ grdBcm'[1] = [op |-> "enable", i |-> k] /\ grdBcm' \in Seq(GrdRequests)
          /\ grdBcm' # <<>>
    BY <1>2, <2>4, GrdSendAlone DEF GrdOps
  <2>6. (GrdSame' <=> GrdSame) BY <2>3 DEF GrdSame
  <2>7. GrdTrack' BY <1>0, <2>2, <2>3, <2>4, <2>5, <2>6 DEF GrdTrack
  <2>8. GrdOwner(n)' BY <2>1, <2>3, <2>4, <2>5 DEF GrdOwner, GrdWorking
  <2>9. grdHw' \in GrdHardware /\ grdLab' \in GrdLabs /\ grdRec' \in GrdRecords /\ grdStolen' \in BOOLEAN /\ grdLock' \in 0 .. GrdSup
    BY <2>3 DEF GrdInv, GrdShape, GrdLabs
  <2>10. "enable" \in GrdWorking /\ "enabled" \in GrdWorking BY DEF GrdWorking
  <2> HIDE DEF k
  <2> QED BY <1>0, <2>0, <2>5, <2>7, <2>8, <2>9, <2>10, GrdLabels, GrdOwnerWorks
<1>3. CASE /\ grdBcm = <<>> /\ OwnerGo(n, "enabled", IF k = 2 THEN "idle" ELSE "touch", IF k = 2 THEN 0 ELSE 2)
           /\ OwnerRest /\ UNCHANGED <<grdJournals, grdLock, grdHard>>
  <2> DEFINE to == IF k = 2 THEN "idle" ELSE "touch"
             j == IF k = 2 THEN 0 ELSE 2
  <2>1. grdOwn[n].pc = "enabled" /\ grdOwn'[n].pc = to /\ grdOwn'[n].k = j BY <1>3, GrdNewPc
  <2>2. GrdOwner(n) /\ GrdTrack /\ grdReport.phase # "drained" BY <2>1, GrdActs DEF Acting
  <2>3. UNCHANGED <<grdRec, grdHw, grdLab, grdBcm, grdStolen, grdLock>> /\ grdReport' = grdReport /\ grdSup' = grdSup
    BY <1>3 DEF grdJournals, grdHard, OwnerRest
  <2>4. grdRec.ex /\ ~grdRec.done /\ ~grdRec.pending /\ ~grdRec.deleting /\ k \in GrdTwo /\ grdRec.left = 2
          /\ grdLab.sess /\ grdRec.touched = k /\ grdHw.table
    BY <1>3, <2>1, <2>2 DEF GrdOwner, GrdWorking, GrdInv, GrdShape, GrdRecords
  <2>5. GrdTrack' BY <2>2, <2>3, GrdTrackKept DEF GrdKept
  <2>6. GrdOwner(n)'
    <3>1. CASE k = 2 BY <1>3, <2>1, <2>3, <2>4, <3>1 DEF GrdOwner, GrdWorking
    <3>2. CASE k = 1 BY <1>3, <2>1, <2>3, <2>4, <3>2 DEF GrdOwner, GrdWorking
    <3> QED BY <2>4, <3>1, <3>2
  <2>7. grdRec' \in GrdRecords /\ grdHw' \in GrdHardware /\ grdLab' \in GrdLabs /\ grdBcm' \in Seq(GrdRequests) /\ grdStolen' \in BOOLEAN /\ grdLock' \in 0 .. GrdSup
    BY <2>3 DEF GrdInv, GrdShape, GrdLabs
  <2>8. "enabled" \in GrdWorking /\ to \in GrdWorking /\ j \in 0 .. 2 BY DEF GrdWorking
  <2>9. OwnerGo(n, "enabled", to, j) /\ OwnerRest BY <1>3
  <2> HIDE DEF k, j, to
  <2> QED BY <2>5, <2>6, <2>7, <2>8, <2>9, GrdLabels, GrdOwnerWorks
<1> QED BY <1>1, <1>2, <1>3 DEF SetRedirect

LEMMA GrdOwnerStepInv == ASSUME GrdInv, NEW n \in GrdRun, OwnerStep(n) \/ Unstuck(n) PROVE GrdInv'
BY GrdJoinInv, GrdLabOpenInv, GrdFirstSaveInv, GrdPrepareInv, GrdLabWriteInv, GrdAllocateInv, GrdRedirectInv,
   GrdLabSessionInv, GrdOwnerEndsInv, GrdOwnerStallsInv, GrdUnstuckInv DEF OwnerStep

\* ---- the switch daemon, traffic ----

\* What is queued behind the first request stays queued, one place earlier.
LEMMA GrdTailFacts ==
  ASSUME GrdShape, grdBcm # <<>>, grdBcm' = Tail(grdBcm)
  PROVE  /\ Len(grdBcm) \in Nat /\ Len(grdBcm) > 0 /\ Len(grdBcm') = Len(grdBcm) - 1 /\ grdBcm' \in Seq(GrdRequests)
         /\ Head(grdBcm) = grdBcm[1] /\ grdBcm[1] \in GrdRequests
         /\ \A j \in 1 .. Len(grdBcm') : grdBcm'[j] = grdBcm[j + 1] /\ j + 1 \in 1 .. Len(grdBcm)
         /\ grdBcm' = <<>> => Len(grdBcm) = 1
         /\ \A op : GrdQueued(op)' => GrdQueued(op)
<1>1. grdBcm \in Seq(GrdRequests) BY DEF GrdShape
<1>2. Len(grdBcm) \in Nat /\ Len(grdBcm) > 0 /\ Len(grdBcm') = Len(grdBcm) - 1 /\ grdBcm' \in Seq(GrdRequests)
  BY <1>1
<1>3. Head(grdBcm) = grdBcm[1] /\ grdBcm[1] \in GrdRequests BY <1>1, <1>2
<1>4. \A j \in 1 .. Len(grdBcm') : grdBcm'[j] = grdBcm[j + 1] /\ j + 1 \in 1 .. Len(grdBcm)
  BY <1>1, <1>2
<1>5. grdBcm' = <<>> => Len(grdBcm) = 1 BY <1>2
<1>6. \A op : GrdQueued(op)' => GrdQueued(op) BY <1>4 DEF GrdQueued
<1> QED BY <1>2, <1>3, <1>4, <1>5, <1>6

LEMMA GrdBcmRunsInv == ASSUME GrdInv, BcmRuns PROVE GrdInv'
<1> DEFINE q == Head(grdBcm)
<1>0. GrdShape /\ GrdFence /\ GrdTrack /\ GrdGuardian BY DEF GrdInv
<1>1. grdBcm # <<>> /\ grdBcm' = Tail(grdBcm) BY DEF BcmRuns
<1>2. UNCHANGED <<grdReport, grdRec, grdLab, grdSup, grdStarted, grdOwn, grdGroups, grdLock, grdFaults>>
  BY DEF BcmRuns, grdJournals
<1>3. q = grdBcm[1] /\ q \in GrdRequests /\ q.op \in GrdOps /\ q.i \in GrdTwo BY <1>0, <1>1, GrdTailFacts DEF GrdRequests
<1>4. Len(grdBcm) \in Nat /\ Len(grdBcm) > 0 /\ Len(grdBcm') = Len(grdBcm) - 1 /\ grdBcm' \in Seq(GrdRequests)
  BY <1>0, <1>1, GrdTailFacts
<1>5. \A j \in 1 .. Len(grdBcm') : grdBcm'[j] = grdBcm[j + 1] /\ j + 1 \in 1 .. Len(grdBcm)
  BY <1>0, <1>1, GrdTailFacts
<1>6. (grdBcm' = <<>> => Len(grdBcm) = 1) /\ (GrdQueued("enable")' => GrdQueued("enable"))
  BY <1>0, <1>1, GrdTailFacts
<1>7. GrdQueued(q.op) BY <1>3, <1>4 DEF GrdQueued
<1>8. grdHw' = CASE q.op = "create" -> [grdHw EXCEPT !.rules = @ \union {q.i}]
                 [] q.op = "delete" -> [grdHw EXCEPT !.rules = @ \ {q.i}]
                 [] q.op = "enable" -> [grdHw EXCEPT !.redirect = @ \union {q.i}]
                 [] OTHER -> [grdHw EXCEPT !.redirect = @ \ {q.i}]
  BY DEF BcmRuns
<1>9. grdStolen' = (grdStolen \/ (q.op = "delete" /\ q.i \notin grdHw.rules /\ GrdSame)) BY DEF BcmRuns, GrdSame
<1> HIDE DEF q
<1>10. grdHw' \in GrdHardware /\ grdHw'.session = grdHw.session /\ grdHw'.table = grdHw.table /\ grdHw'.epoch = grdHw.epoch
  <2>1. grdHw \in GrdHardware BY <1>0 DEF GrdShape
  <2>2. CASE q.op = "create" BY <1>3, <1>8, <2>1, <2>2 DEF GrdHardware
  <2>3. CASE q.op = "delete" BY <1>3, <1>8, <2>1, <2>3 DEF GrdHardware
  <2>4. CASE q.op = "enable" BY <1>3, <1>8, <2>1, <2>4 DEF GrdHardware
  <2>5. CASE q.op = "restore" BY <1>3, <1>8, <2>1, <2>5 DEF GrdHardware
  <2> QED BY <1>3, <2>2, <2>3, <2>4, <2>5 DEF GrdOps
<1>11. grdHw'.rules = IF q.op = "create" THEN grdHw.rules \cup {q.i} ELSE IF q.op = "delete" THEN grdHw.rules \ {q.i} ELSE grdHw.rules
  BY <1>0, <1>3, <1>8 DEF GrdShape, GrdHardware, GrdOps
<1>12. grdHw'.redirect = IF q.op = "enable" THEN grdHw.redirect \cup {q.i}
                         ELSE IF q.op = "restore" THEN grdHw.redirect \ {q.i} ELSE grdHw.redirect
  BY <1>0, <1>3, <1>8 DEF GrdShape, GrdHardware, GrdOps
<1>13. (GrdSame' <=> GrdSame) /\ ~GrdEmpty BY <1>1, <1>2, <1>10 DEF GrdSame, GrdEmpty
<1>14. /\ q.op = "create" => grdRec.pending /\ q.i = grdRec.left + 1
       /\ q.op = "enable" => q.i <= grdRec.touched
       /\ q.op = "delete" => grdRec.deleting /\ q.i = grdRec.left /\ (GrdSame => q.i \in grdHw.rules)
       /\ q.op = "delete" => \A m \in 1 .. Len(grdBcm) : grdBcm[m].op = "delete" => m = 1
  BY <1>0, <1>3, <1>4 DEF GrdTrack
<1>15. grdRec.left \in 0 .. 2 /\ grdRec.touched \in 0 .. 2 /\ grdHw.rules \subseteq GrdTwo BY <1>0 DEF GrdShape, GrdRecords, GrdHardware
<1>16. GrdShape'
  BY <1>0, <1>2, <1>4, <1>9, <1>10 DEF GrdShape
<1>17. GrdFence' BY <1>0, <1>2 DEF GrdFence, GrdAlive, Acting
<1>18. GrdTrack'
  <2>1. grdHw'.redirect # {} \/ GrdQueued("enable")' => grdHw.redirect # {} \/ GrdQueued("enable")
    BY <1>6, <1>7, <1>12
  <2>2. \A i \in grdHw'.redirect : i <= grdRec.touched BY <1>0, <1>12, <1>14 DEF GrdTrack
  <2>3. \A i \in grdHw'.rules : i <= grdRec.left \/ (grdRec.pending /\ i = grdRec.left + 1)
    BY <1>0, <1>11, <1>14 DEF GrdTrack
  <2>4. GrdSame => \A i \in GrdTwo : i < grdRec.left \/ (i = grdRec.left /\ ~grdRec.deleting) => i \in grdHw'.rules
    BY <1>0, <1>11, <1>14, <1>15 DEF GrdTrack
  <2>5. ASSUME NEW j \in 1 .. Len(grdBcm'), NEW r, r = grdBcm'[j]
        PROVE  /\ r.op = "create" => grdRec.pending /\ r.i = grdRec.left + 1
               /\ r.op = "enable" => r.i <= grdRec.touched
               /\ r.op = "restore" => grdRec.touched > 0
               /\ r.op = "delete" => grdRec.deleting /\ r.i = grdRec.left /\ (GrdSame => r.i \in grdHw'.rules)
               /\ r.op = "delete" => \A m \in 1 .. Len(grdBcm') : grdBcm'[m].op = "delete" => m = j
    <3>1. r = grdBcm[j + 1] /\ j + 1 \in 1 .. Len(grdBcm) BY <1>5, <2>5
    <3>2. /\ r.op = "create" => grdRec.pending /\ r.i = grdRec.left + 1
          /\ r.op = "enable" => r.i <= grdRec.touched
          /\ r.op = "restore" => grdRec.touched > 0
          /\ r.op = "delete" => grdRec.deleting /\ r.i = grdRec.left /\ (GrdSame => r.i \in grdHw.rules)
          /\ r.op = "delete" => \A m \in 1 .. Len(grdBcm) : grdBcm[m].op = "delete" => m = j + 1
      BY <1>0, <3>1 DEF GrdTrack
    <3>3. r.op = "delete" => q.op # "delete" BY <1>3, <1>4, <3>2
    <3>4. r.op = "delete" => \A m \in 1 .. Len(grdBcm') : grdBcm'[m].op = "delete" => m = j
      BY <1>4, <1>5, <3>2
    <3>5. r.op = "delete" /\ GrdSame => r.i \in grdHw'.rules BY <1>11, <3>2, <3>3
    <3> QED BY <3>2, <3>4, <3>5
  <2>6. ~grdStolen' BY <1>0, <1>9, <1>14 DEF GrdTrack
  <2>7. ~(~grdRec.ex \/ grdRec.done) /\ grdReport.phase # "drained" BY <1>0, <1>13 DEF GrdTrack
  <2>8. \A j \in 1 .. Len(grdBcm') :
          /\ grdBcm'[j].op = "create" => grdRec.pending /\ grdBcm'[j].i = grdRec.left + 1
          /\ grdBcm'[j].op = "enable" => grdBcm'[j].i <= grdRec.touched
          /\ grdBcm'[j].op = "restore" => grdRec.touched > 0
          /\ grdBcm'[j].op = "delete" => grdRec.deleting /\ grdBcm'[j].i = grdRec.left /\ (GrdSame => grdBcm'[j].i \in grdHw'.rules)
          /\ grdBcm'[j].op = "delete" => \A m \in 1 .. Len(grdBcm') : grdBcm'[m].op = "delete" => m = j
    BY <2>5
  <2> HIDE <2>5
  <2> QED BY <1>0, <1>2, <1>10, <1>13, <2>1, <2>2, <2>3, <2>4, <2>6, <2>7, <2>8 DEF GrdTrack
<1>19. ASSUME NEW n \in GrdRun PROVE GrdOwner(n)'
  <2>1. GrdOwner(n) /\ grdOwn'[n] = grdOwn[n] BY <1>2 DEF GrdInv
  <2>2. grdOwn[n].pc \in GrdWorking => grdOwn[n].pc \in {"created", "enabled"} BY <1>1, <2>1 DEF GrdOwner
  <2>3. ~(grdOwn[n].pc \in {"open", "save"} \/ (grdOwn[n].pc = "boot" /\ n \in grdGroups)) BY <1>13, <2>1 DEF GrdOwner
  <2>4. CASE grdOwn[n].pc = "created"
    <3> DEFINE k == grdOwn[n].k
    <3>1. grdBcm = <<[op |-> "create", i |-> k]>> BY <1>1, <2>1, <2>4 DEF GrdOwner
    <3>2. q = [op |-> "create", i |-> k] /\ grdBcm' = <<>> BY <1>1, <1>3, <3>1
    <3>3. k \in grdHw'.rules BY <1>11, <3>2
    <3> HIDE DEF k
    <3>4. k = grdOwn[n].k BY DEF k
    <3> QED BY <1>2, <1>10, <2>1, <2>4, <3>2, <3>3, <3>4 DEF GrdOwner, GrdWorking
  <2>5. CASE grdOwn[n].pc = "enabled"
    <3> DEFINE k == grdOwn[n].k
    <3>1. grdBcm = <<[op |-> "enable", i |-> k]>> BY <1>1, <2>1, <2>5 DEF GrdOwner
    <3>2. grdBcm' = <<>> BY <1>1, <3>1
    <3> QED BY <1>2, <1>10, <2>1, <2>5, <3>2 DEF GrdOwner, GrdWorking
  <2>6. CASE grdOwn[n].pc \notin GrdWorking
    BY <1>2, <2>1, <2>3, <2>6 DEF GrdOwner, GrdWorking
  <2> QED BY <2>2, <2>4, <2>5, <2>6
<1>20. GrdGuardian'
  <2> DEFINE pc == grdSup.pc  k == grdSup.k
  <2>1. pc \notin {"launch", "spawn", "delete"} BY <1>0, <1>1, <1>13 DEF GrdGuardian
  <2>2. pc \in {"restore", "restored"} =>
           /\ \A i \in grdHw'.redirect : i <= k
           /\ \A j \in 1 .. Len(grdBcm') : grdBcm'[j].op = "enable" => grdBcm'[j].i <= k
    BY <1>0, <1>3, <1>4, <1>5, <1>12 DEF GrdGuardian
  <2>3. pc = "restored" => IF grdBcm' = <<>> THEN k \notin grdHw'.redirect ELSE grdBcm'[Len(grdBcm')] = [op |-> "restore", i |-> k]
    <3> SUFFICES ASSUME pc = "restored" PROVE IF grdBcm' = <<>> THEN k \notin grdHw'.redirect ELSE grdBcm'[Len(grdBcm')] = [op |-> "restore", i |-> k]
      OBVIOUS
    <3>1. grdBcm[Len(grdBcm)] = [op |-> "restore", i |-> k] BY <1>0, <1>1 DEF GrdGuardian
    <3>2. CASE grdBcm' = <<>>
      <4>1. q = [op |-> "restore", i |-> k] BY <1>3, <1>6, <3>1, <3>2
      <4> QED BY <1>12, <3>2, <4>1
    <3>3. CASE grdBcm' # <<>>
      <4>1. Len(grdBcm') \in 1 .. Len(grdBcm') BY <1>4, <3>3
      <4> QED BY <1>4, <1>5, <3>1, <3>3, <4>1
    <3> QED BY <3>2, <3>3
  <2>4. pc \in GrdDrains => grdHw'.redirect = {} /\ ~GrdQueued("enable")'
    BY <1>0, <1>6, <1>7, <1>12 DEF GrdGuardian
  <2>5. pc = "deleted" => grdBcm' = <<>> /\ k \notin grdHw'.rules
    <3> SUFFICES ASSUME pc = "deleted" PROVE grdBcm' = <<>> /\ k \notin grdHw'.rules
      OBVIOUS
    <3>1. grdBcm = <<[op |-> "delete", i |-> k]>> BY <1>0, <1>1 DEF GrdGuardian
    <3>2. q = [op |-> "delete", i |-> k] /\ grdBcm' = <<>> BY <1>1, <1>3, <3>1
    <3> QED BY <1>11, <3>2
  <2>6. pc \in GrdDrains => grdRec.pending \/ grdRec.deleting BY <1>0, <1>1 DEF GrdGuardian
  <2>7. pc = grdSup'.pc /\ k = grdSup'.k BY <1>2
  <2> HIDE DEF pc, k
  <2>8. /\ pc \in GrdWithdraws => grdRec.ex /\ ~grdRec.done
        /\ pc \in {"restore", "restored"} => k \in GrdTwo /\ grdRec.touched > 0
        /\ pc \in GrdDrains \ {"flow"} => ~grdHw.session
        /\ pc \in GrdDrains \ {"flow", "tables"} => ~grdHw.table
        /\ pc \in {"mark", "delete", "deleted", "finish"} => k = grdRec.left /\ ~grdRec.pending
        /\ pc \in {"mark", "finish"} => ~grdRec.deleting
        /\ pc \in {"mark", "delete", "deleted"} => k \in GrdTwo
        /\ pc = "finish" => k = 0
        /\ pc = "deleted" => grdRec.deleting
    BY <1>0 DEF GrdGuardian, pc, k
  <2> QED BY <1>2, <1>10, <2>1, <2>2, <2>3, <2>4, <2>5, <2>6, <2>7, <2>8 DEF GrdGuardian
<1> QED BY <1>16, <1>17, <1>18, <1>19, <1>20 DEF GrdInv

LEMMA GrdLearnInv == ASSUME GrdInv, GrdLearn PROVE GrdInv'
<1>0. GrdShape /\ GrdFence /\ GrdTrack /\ GrdGuardian BY DEF GrdInv
<1>1. UNCHANGED <<grdReport, grdRec, grdLab, grdSup, grdStarted, grdOwn, grdGroups, grdLock, grdBcm, grdStolen, grdFaults>>
  BY DEF GrdLearn, grdJournals
<1>2. grdHw.table /\ grdHw.redirect # {} /\ grdHw' = [grdHw EXCEPT !.session = TRUE] BY DEF GrdLearn
<1>3. grdHw' \in GrdHardware BY <1>0, <1>2 DEF GrdShape, GrdHardware
<1>4. grdHw'.table = grdHw.table /\ grdHw'.rules = grdHw.rules /\ grdHw'.redirect = grdHw.redirect /\ grdHw'.epoch = grdHw.epoch
  BY <1>0, <1>2 DEF GrdShape, GrdHardware
<1>5. (GrdSame' <=> GrdSame) /\ ~GrdEmpty /\ (GrdQueued("enable")' <=> GrdQueued("enable"))
  BY <1>1, <1>2, <1>4 DEF GrdSame, GrdEmpty, GrdQueued
<1>6. GrdShape' BY <1>0, <1>1, <1>3 DEF GrdShape
<1>7. GrdFence' BY <1>0, <1>1 DEF GrdFence, GrdAlive, Acting
<1>8. GrdTrack' BY <1>0, <1>1, <1>2, <1>4, <1>5 DEF GrdTrack
<1>9. ASSUME NEW n \in GrdRun PROVE GrdOwner(n)'
  <2>1. GrdOwner(n) BY DEF GrdInv
  <2> QED BY <1>1, <1>4, <1>5, <2>1 DEF GrdOwner
<1>10. GrdGuardian'
  <2>1. grdSup.pc \notin {"launch", "spawn"} /\ grdSup.pc \notin GrdDrains BY <1>0, <1>2, <1>5 DEF GrdGuardian
  <2> QED BY <1>0, <1>1, <1>4, <1>5, <2>1 DEF GrdGuardian, GrdDrains
<1> QED BY <1>6, <1>7, <1>8, <1>9, <1>10 DEF GrdInv

LEMMA GrdBcmRestartsInv == ASSUME GrdInv, BcmRestarts PROVE GrdInv'
<1>0. GrdShape /\ GrdFence /\ GrdTrack /\ GrdGuardian BY DEF GrdInv
<1>1. UNCHANGED <<grdReport, grdRec, grdLab, grdSup, grdStarted, grdOwn, grdGroups, grdLock, grdStolen>> /\ grdBcm' = <<>>
  BY DEF BcmRestarts, grdJournals
<1>2. grdHw' = [grdHw EXCEPT !.rules = {}, !.redirect = {}, !.epoch = @ + 1] BY DEF BcmRestarts
<1>3. grdHw \in GrdHardware /\ grdHw.epoch \in Nat /\ grdRec.epoch \in Nat BY <1>0 DEF GrdShape, GrdHardware, GrdRecords
<1>4. grdHw' \in GrdHardware
  <2>1. grdHw.epoch + 1 \in Nat /\ {} \in SUBSET GrdTwo BY <1>3
  <2> QED BY <1>2, <1>3, <2>1 DEF GrdHardware
<1>5. grdHw'.table = grdHw.table /\ grdHw'.session = grdHw.session /\ grdHw'.rules = {} /\ grdHw'.redirect = {} /\ grdHw'.epoch = grdHw.epoch + 1
  BY <1>2, <1>3 DEF GrdHardware
<1>6. grdRec.epoch <= grdHw.epoch BY <1>0 DEF GrdTrack
<1>7. ~GrdSame' /\ (GrdEmpty => GrdEmpty') /\ ~GrdQueued("enable")' /\ Len(grdBcm') = 0
  BY <1>1, <1>3, <1>5, <1>6 DEF GrdSame, GrdEmpty, GrdQueued
<1>8. GrdShape'
  <2>1. grdFaults' \in Nat BY <1>0 DEF BcmRestarts, GrdShape
  <2>2. grdBcm' \in Seq(GrdRequests) BY <1>1
  <2> QED BY <1>0, <1>1, <1>4, <2>1, <2>2 DEF GrdShape
<1>9. GrdFence' BY <1>0, <1>1 DEF GrdFence, GrdAlive, Acting
<1>10. GrdTrack'
  <2>1. grdRec'.epoch <= grdHw'.epoch BY <1>1, <1>3, <1>5, <1>6
  <2> QED BY <1>0, <1>1, <1>5, <1>7, <2>1 DEF GrdTrack
<1>11. ASSUME NEW n \in GrdRun PROVE GrdOwner(n)'
  <2>1. GrdOwner(n) BY DEF GrdInv
  <2> QED BY <1>1, <1>5, <1>7, <2>1 DEF GrdOwner
<1>12. GrdGuardian' BY <1>0, <1>1, <1>5, <1>7 DEF GrdGuardian
<1> QED BY <1>8, <1>9, <1>10, <1>11, <1>12 DEF GrdInv

\* ---- the guardian ----

\* Where owners and guardian are, and nothing else, changes: what is left of
\* the invariant to show.
LEMMA GrdGuardMoves ==
  ASSUME GrdInv, GrdKept, grdStarted' \in 0 .. GrdStarts, grdFaults' \in Nat, grdLock' \in 0 .. GrdSup,
         grdReport' \in [phase : GrdPhases, group : GrdRun \cup {0}],
         grdReport'.phase = "drained" => GrdEmpty /\ grdReport'.group = 0 /\ grdSup'.pc \in {"off", "publish"},
         grdSup' \in [pc : GrdSupPc, why : {"startup", "final"}, k : 0 .. 2],
         grdOwn' \in [GrdRun -> GrdProcesses], grdGroups' \subseteq GrdRun,
         \A n \in GrdRun : grdOwn'[n] = grdOwn[n] \/ grdOwn'[n].pc \in {"dead", "stuck"} \/ (GrdEmpty /\ grdOwn'[n].pc = "boot"),
         \A n \in GrdRun : n \in grdGroups' /\ n \notin grdGroups => GrdEmpty,
         GrdFence', grdSup'.pc \notin GrdWithdraws, grdSup'.pc \in {"launch", "spawn"} => GrdEmpty
  PROVE  GrdInv'
<1>0. GrdShape /\ GrdFence /\ GrdTrack /\ GrdGuardian BY DEF GrdInv
<1>1. grdRec' = grdRec /\ grdLab' = grdLab /\ grdHw' = grdHw /\ grdBcm' = grdBcm /\ grdStolen' = grdStolen BY DEF GrdKept
<1>2. (GrdSame' <=> GrdSame) /\ (GrdEmpty' <=> GrdEmpty) /\ (GrdQueued("enable")' <=> GrdQueued("enable"))
  BY <1>1 DEF GrdSame, GrdEmpty, GrdQueued
<1>3. GrdShape' BY <1>0, <1>1 DEF GrdShape, GrdProcesses
<1>4. GrdTrack'
  BY <1>0, <1>1, <1>2 DEF GrdTrack
<1>5. ASSUME NEW n \in GrdRun PROVE GrdOwner(n)'
  <2>1. GrdOwner(n) BY DEF GrdInv
  <2>2. CASE grdOwn'[n].pc \in {"dead", "stuck"} BY <2>2 DEF GrdOwner, GrdWorking
  <2>3. CASE GrdEmpty /\ grdOwn'[n].pc = "boot" BY <1>2, <2>3 DEF GrdOwner, GrdWorking
  <2>4. CASE grdOwn'[n] = grdOwn[n]
    <3>1. grdOwn'[n].pc = "boot" /\ n \in grdGroups' => GrdEmpty BY <2>1, <2>4 DEF GrdOwner
    <3> QED BY <1>1, <1>2, <2>1, <2>4, <3>1 DEF GrdOwner
  <2> QED BY <2>2, <2>3, <2>4
<1>6. GrdGuardian'
  BY <1>2 DEF GrdGuardian, GrdWithdraws, GrdDrains
<1> QED BY <1>3, <1>4, <1>5, <1>6 DEF GrdInv

\* What the guardian's own steps start from.
LEMMA GrdBase ==
  GrdInv => /\ GrdShape /\ GrdFence /\ GrdTrack /\ GrdGuardian
            /\ grdStarted \in 0 .. GrdStarts /\ grdFaults \in Nat /\ grdLock \in 0 .. GrdSup /\ grdOwn \in [GrdRun -> GrdProcesses]
            /\ grdGroups \subseteq GrdRun /\ grdReport \in [phase : GrdPhases, group : GrdRun \cup {0}]
            /\ grdSup \in [pc : GrdSupPc, why : {"startup", "final"}, k : 0 .. 2]
  BY DEF GrdInv, GrdShape, GrdProcesses

LEMMA GrdUnlocked == ASSUME GrdInv, NEW n PROVE Unlocked(n) \in 0 .. GrdSup /\ 0 \in 0 .. GrdSup
<1>1. grdLock \in 0 .. GrdSup BY GrdBase
<1>2. 0 \in 0 .. GrdSup BY GrdAssumption
<1> QED BY <1>1, <1>2 DEF Unlocked

LEMMA GrdIdleTyped == GrdIdle \in [pc : GrdSupPc, why : {"startup", "final"}, k : 0 .. 2] /\ GrdIdle.pc = "off"
  BY DEF GrdIdle, GrdSupPc

LEMMA GrdDead == \A n \in {"dead", "stuck", "boot"} : Process(n, 0) \in GrdProcesses /\ Process(n, 0).pc = n
  BY DEF Process, GrdProcesses, GrdOwnerPc

\* Where the guardian goes, and that nothing else of it changes.
LEMMA GrdSupGoes ==
  ASSUME GrdInv, NEW from, NEW to \in GrdSupPc, SupGo(from, to)
  PROVE  /\ grdSup.pc = from /\ grdSup'.pc = to /\ grdSup'.why = grdSup.why
         /\ grdSup' \in [pc : GrdSupPc, why : {"startup", "final"}, k : 0 .. 2]
<1>1. grdSup \in [pc : GrdSupPc, why : {"startup", "final"}, k : 0 .. 2] BY GrdBase
<1>2. grdSup.pc = from /\ grdSup' = [grdSup EXCEPT !.pc = to, !.k = 0] BY DEF SupGo
<1>3. grdSup'.pc = to /\ grdSup'.why = grdSup.why BY <1>1, <1>2
<1>4. grdSup' \in [pc : GrdSupPc, why : {"startup", "final"}, k : 0 .. 2]
  <2>1. 0 \in 0 .. 2 OBVIOUS
  <2> QED BY <1>1, <1>2, <2>1
<1> QED BY <1>2, <1>3, <1>4

LEMMA GrdStartInv == ASSUME GrdInv, StartGuardian PROVE GrdInv'
<1>0. GrdFence /\ GrdTrack BY GrdBase
<1> DEFINE to == IF grdReport.group # 0 THEN "fence" ELSE "publish"
<1>1. SupGo("off", to) /\ grdStarted < GrdStarts /\ grdStarted' = grdStarted + 1
      /\ UNCHANGED <<grdReport, grdOwn, grdGroups, grdLock, grdFaults>> /\ GrdKept
  BY DEF StartGuardian, grdJournals, grdHard, GrdKept
<1>2. to \in GrdSupPc BY DEF GrdSupPc
<1>3. grdSup.pc = "off" /\ grdSup'.pc = to /\ grdSup' \in [pc : GrdSupPc, why : {"startup", "final"}, k : 0 .. 2]
  BY <1>1, <1>2, GrdSupGoes
<1>4. grdStarted' \in 1 .. GrdStarts /\ grdStarted' > grdStarted BY <1>1, GrdBase, GrdAssumption
<1>5. grdReport.phase = "drained" => GrdEmpty /\ grdReport.group = 0 BY <1>0 DEF GrdTrack
<1>6. GrdFence'
  <2>1. \A n \in GrdRun : GrdAlive(n)' => GrdAlive(n) BY <1>1 DEF GrdAlive, Acting
  <2>2. grdOwn'[grdStarted'].pc = "none" BY <1>0, <1>1, <1>4 DEF GrdFence
  <2>3. \A n \in GrdRun : GrdAlive(n) => n = grdReport.group /\ to \in GrdUnfenced
    BY <1>0, GrdAssumption DEF GrdFence, GrdUnfenced
  <2>4. \A n \in GrdRun : n > grdStarted' => grdOwn'[n].pc = "none" BY <1>0, <1>1, <1>4, GrdBase DEF GrdFence
  <2>5. to = "fence" => grdReport.group \in GrdRun BY GrdBase
  <2> QED BY <1>1, <1>3, <1>4, <2>1, <2>2, <2>3, <2>4, <2>5 DEF GrdFence
<1>7. grdSup'.pc \notin GrdWithdraws /\ grdSup'.pc \notin {"launch", "spawn"} BY <1>3 DEF GrdWithdraws, GrdDrains
<1>8. grdStarted' \in 0 .. GrdStarts BY <1>4
<1> QED BY <1>1, <1>3, <1>5, <1>6, <1>7, <1>8, GrdBase, GrdGuardMoves

LEMMA GrdFenceOldInv == ASSUME GrdInv, FenceOld PROVE GrdInv'
<1>0. GrdFence /\ GrdTrack BY GrdBase
<1> DEFINE g == grdReport.group
<1>1. CASE /\ SupGo("fence", "remove") /\ grdOwn' = KillGroup(g)
           /\ grdLock' = IF Acting(g) THEN Unlocked(g) ELSE grdLock
           /\ UNCHANGED <<grdGroups, grdReport>> /\ SupRest
  <2>1. "remove" \in GrdSupPc BY DEF GrdSupPc
  <2>2. grdSup.pc = "fence" /\ grdSup'.pc = "remove" /\ grdSup' \in [pc : GrdSupPc, why : {"startup", "final"}, k : 0 .. 2]
        /\ grdSup'.why = grdSup.why
    BY <1>1, <2>1, GrdSupGoes
  <2>3. \A n \in GrdRun : grdOwn'[n] = IF n = g /\ Acting(n) THEN Process("dead", 0) ELSE grdOwn[n]
    BY <1>1 DEF KillGroup
  <2>4. grdOwn' \in [GrdRun -> GrdProcesses]
    <3>1. DOMAIN grdOwn' = GrdRun /\ grdOwn' = [n \in GrdRun |-> grdOwn'[n]] BY <1>1 DEF KillGroup
    <3>2. \A n \in GrdRun : grdOwn'[n] \in GrdProcesses BY <2>3, GrdBase, GrdDead
    <3> QED BY <3>1, <3>2
  <2>5. UNCHANGED <<grdReport, grdGroups, grdStarted, grdFaults>> /\ GrdKept BY <1>1 DEF SupRest, grdJournals, grdHard, GrdKept
  <2>6. grdReport.phase # "drained" BY <1>0, <2>2 DEF GrdTrack
  <2>7. \A n \in GrdRun : GrdAlive(n)' => GrdAlive(n)
    BY <2>3, <2>5, GrdDead DEF GrdAlive, Acting
  <2>8. GrdFence'
    <3>1. grdOwn[grdStarted].pc = "none" /\ grdStarted \in GrdRun /\ g \in GrdRun BY <1>0, <2>2 DEF GrdFence
    <3>2. grdOwn'[grdStarted].pc = "none" BY <2>3, <3>1 DEF Acting
    <3>3. \A n \in GrdRun : n > grdStarted => grdOwn'[n].pc = "none" BY <1>0, <2>3 DEF GrdFence, Acting
    <3> QED BY <1>0, <2>2, <2>5, <2>7, <3>1, <3>2, <3>3 DEF GrdFence, GrdUnfenced
  <2>9. grdLock' \in 0 .. GrdSup BY <1>1, GrdBase, GrdUnlocked
  <2>10. grdSup'.pc \notin GrdWithdraws /\ grdSup'.pc \notin {"launch", "spawn"} BY <2>2 DEF GrdWithdraws, GrdDrains
  <2>11. \A n \in GrdRun : grdOwn'[n] = grdOwn[n] \/ grdOwn'[n].pc \in {"dead", "stuck"} BY <2>3, GrdDead
  <2> HIDE DEF g
  <2> QED BY <2>2, <2>4, <2>5, <2>6, <2>8, <2>9, <2>10, <2>11, GrdBase, GrdGuardMoves
<1>2. CASE /\ SupGo("remove", IF Acting(g) THEN "off" ELSE "publish")
           /\ grdGroups' = IF Acting(g) THEN grdGroups ELSE grdGroups \ {g}
           /\ UNCHANGED <<grdReport, grdOwn, grdLock>> /\ SupRest
  <2> DEFINE to == IF Acting(g) THEN "off" ELSE "publish"
  <2>1. to \in GrdSupPc BY DEF GrdSupPc
  <2>2. grdSup.pc = "remove" /\ grdSup'.pc = to /\ grdSup' \in [pc : GrdSupPc, why : {"startup", "final"}, k : 0 .. 2]
        /\ grdSup'.why = grdSup.why
    BY <1>2, <2>1, GrdSupGoes
  <2>3. UNCHANGED <<grdReport, grdOwn, grdLock, grdStarted, grdFaults>> /\ GrdKept BY <1>2 DEF SupRest, grdJournals, grdHard, GrdKept
  <2>4. grdReport.phase # "drained" BY <1>0, <2>2 DEF GrdTrack
  <2>5. grdGroups' \subseteq grdGroups BY <1>2
  <2>6. \A n \in GrdRun : GrdAlive(n)' => GrdAlive(n) BY <2>3, <2>5 DEF GrdAlive, Acting
  <2>7. ~Acting(g) => \A n \in GrdRun : ~GrdAlive(n)'
    <3> SUFFICES ASSUME ~Acting(g), NEW n \in GrdRun, GrdAlive(n)' PROVE FALSE
      OBVIOUS
    <3>1. n = g BY <1>0, <2>6 DEF GrdFence
    <3>2. g \notin grdGroups' BY <1>2
    <3> QED BY <2>3, <3>1, <3>2 DEF GrdAlive, Acting
  <2>8. GrdFence'
    <3>1. grdStarted \in GrdRun /\ grdOwn[grdStarted].pc = "none" BY <1>0, <2>2 DEF GrdFence
    <3>2. CASE Acting(g)
      BY <1>0, <2>2, <2>3, <2>6, <3>1, <3>2 DEF GrdFence, GrdUnfenced, GrdWithdraws, GrdDrains
    <3>3. CASE ~Acting(g)
      BY <1>0, <2>2, <2>3, <2>7, <3>1, <3>3 DEF GrdFence, GrdUnfenced
    <3> QED BY <3>2, <3>3
  <2>9. grdSup'.pc \notin GrdWithdraws /\ grdSup'.pc \notin {"launch", "spawn"} BY <2>2 DEF GrdWithdraws, GrdDrains
  <2>10. grdGroups' \subseteq GrdRun /\ \A n \in GrdRun : n \in grdGroups' => n \in grdGroups BY <2>5, GrdBase
  <2>11. \A n \in GrdRun : grdOwn'[n] = grdOwn[n] BY <2>3
  <2> HIDE DEF g, to
  <2> QED BY <2>2, <2>3, <2>4, <2>8, <2>9, <2>10, <2>11, GrdBase, GrdGuardMoves
<1> QED BY <1>1, <1>2 DEF FenceOld

LEMMA GrdPublishInv == ASSUME GrdInv, PublishRecovering \/ PublishGroup PROVE GrdInv'
<1>0. GrdFence /\ GrdTrack /\ GrdGuardian BY GrdBase
<1>1. UNCHANGED <<grdOwn, grdLock, grdStarted, grdFaults>> /\ GrdKept
  BY DEF PublishRecovering, PublishGroup, SupRest, grdJournals, grdHard, GrdKept
<1>2. \A n \in GrdRun : grdSup.pc \in {"publish", "launch"} => ~GrdAlive(n)
  BY <1>0 DEF GrdFence, GrdUnfenced
<1>3. \A n \in GrdRun : grdOwn'[n] = grdOwn[n] BY <1>1
<1>4. CASE PublishRecovering
  <2>1. grdSup.pc = "publish" /\ grdSup' = [pc |-> "check", why |-> "startup", k |-> 0]
        /\ grdReport' = [phase |-> "recovering", group |-> 0] /\ grdGroups' = grdGroups
    BY <1>4 DEF PublishRecovering, Report
  <2>2. grdSup'.pc = "check" /\ grdReport'.phase = "recovering" BY <2>1
  <2>3. grdSup' \in [pc : GrdSupPc, why : {"startup", "final"}, k : 0 .. 2] BY <2>1 DEF GrdSupPc
  <2>4. grdReport' \in [phase : GrdPhases, group : GrdRun \cup {0}] BY <2>1 DEF GrdPhases
  <2>5. \A n \in GrdRun : ~GrdAlive(n)' BY <1>1, <1>2, <2>1 DEF GrdAlive, Acting
  <2>6. GrdFence' BY <1>0, <1>1, <2>1, <2>2, <2>5 DEF GrdFence
  <2>7. grdSup'.pc \notin GrdWithdraws /\ grdSup'.pc \notin {"launch", "spawn"} BY <2>2 DEF GrdWithdraws, GrdDrains
  <2>8. grdGroups' \subseteq GrdRun /\ \A n \in GrdRun : n \in grdGroups' => n \in grdGroups BY <2>1, GrdBase
  <2> QED BY <1>1, <1>3, <2>2, <2>3, <2>4, <2>6, <2>7, <2>8, GrdBase, GrdGuardMoves
<1>5. CASE PublishGroup
  <2>1. "spawn" \in GrdSupPc BY DEF GrdSupPc
  <2>2. SupGo("launch", "spawn") /\ grdGroups' = grdGroups \union {grdStarted}
        /\ grdReport' = [phase |-> "starting", group |-> grdStarted]
    BY <1>5 DEF PublishGroup, Report
  <2>3. grdSup.pc = "launch" /\ grdSup'.pc = "spawn" /\ grdSup' \in [pc : GrdSupPc, why : {"startup", "final"}, k : 0 .. 2]
    BY <2>1, <2>2, GrdSupGoes
  <2>4. grdStarted \in GrdRun /\ grdOwn[grdStarted].pc = "none" /\ GrdEmpty BY <1>0, <2>3 DEF GrdFence, GrdGuardian
  <2>5. grdReport' \in [phase : GrdPhases, group : GrdRun \cup {0}] /\ grdReport'.phase = "starting" /\ grdReport'.group = grdStarted
    BY <2>2, <2>4 DEF GrdPhases
  <2>6. \A n \in GrdRun : ~GrdAlive(n)'
    <3>1. ASSUME NEW n \in GrdRun PROVE ~GrdAlive(n)'
      <4>1. n \in grdGroups' => n \in grdGroups \/ n = grdStarted BY <2>2
      <4> QED BY <1>1, <1>2, <2>3, <2>4, <4>1 DEF GrdAlive, Acting
    <3> QED BY <3>1
  <2>7. GrdFence' BY <1>0, <1>1, <2>3, <2>4, <2>5, <2>6 DEF GrdFence
  <2>8. grdSup'.pc \notin GrdWithdraws BY <2>3 DEF GrdWithdraws, GrdDrains
  <2>9. grdGroups' \subseteq GrdRun BY <2>2, <2>4, GrdBase
  <2> QED BY <1>1, <1>3, <2>3, <2>4, <2>5, <2>7, <2>8, <2>9, GrdBase, GrdGuardMoves
<1> QED BY <1>4, <1>5

LEMMA GrdSpawnInv == ASSUME GrdInv, Spawn PROVE GrdInv'
<1>0. GrdFence /\ GrdTrack /\ GrdGuardian BY GrdBase
<1>1. "watch" \in GrdSupPc BY DEF GrdSupPc
<1>2. SupGo("spawn", "watch") /\ grdOwn' = [grdOwn EXCEPT ![grdStarted] = Process("boot", 0)] BY DEF Spawn
<1>3. grdSup.pc = "spawn" /\ grdSup'.pc = "watch" /\ grdSup' \in [pc : GrdSupPc, why : {"startup", "final"}, k : 0 .. 2]
  BY <1>1, <1>2, GrdSupGoes
<1>4. UNCHANGED <<grdReport, grdGroups, grdLock, grdStarted, grdFaults>> /\ GrdKept BY DEF Spawn, SupRest, grdJournals, grdHard, GrdKept
<1>5. grdStarted \in GrdRun /\ grdReport.group = grdStarted /\ GrdEmpty /\ grdReport.phase # "drained"
  BY <1>0, <1>3 DEF GrdFence, GrdGuardian, GrdTrack
<1>6. grdOwn' \in [GrdRun -> GrdProcesses] BY <1>2, <1>5, GrdBase, GrdDead
<1>7. \A n \in GrdRun : IF n = grdStarted THEN grdOwn'[n].pc = "boot" ELSE grdOwn'[n] = grdOwn[n]
  BY <1>2, <1>5, GrdBase, GrdDead
<1>8. \A n \in GrdRun : ~GrdAlive(n) BY <1>0, <1>3 DEF GrdFence, GrdUnfenced
<1>9. \A n \in GrdRun : GrdAlive(n)' => n = grdStarted BY <1>4, <1>7, <1>8 DEF GrdAlive, Acting
<1>10. \A n \in GrdRun : n > grdStarted => grdOwn'[n].pc = "none" BY <1>0, <1>5, <1>7, GrdAssumption DEF GrdFence
<1>11. GrdFence' BY <1>0, <1>3, <1>4, <1>5, <1>9, <1>10 DEF GrdFence, GrdUnfenced, GrdWithdraws, GrdDrains
<1>12. grdSup'.pc \notin GrdWithdraws /\ grdSup'.pc \notin {"launch", "spawn"} BY <1>3 DEF GrdWithdraws, GrdDrains
<1> QED BY <1>3, <1>4, <1>5, <1>6, <1>7, <1>11, <1>12, GrdBase, GrdGuardMoves

LEMMA GrdWatchInv == ASSUME GrdInv, LeaseEnds \/ WatchEnds PROVE GrdInv'
<1>0. GrdFence /\ GrdTrack BY GrdBase
<1>1. "kill" \in GrdSupPc BY DEF GrdSupPc
<1>2. SupGo("watch", "kill") /\ UNCHANGED <<grdReport, grdOwn, grdGroups, grdLock, grdStarted, grdFaults>> /\ GrdKept
  BY DEF LeaseEnds, WatchEnds, SupRest, grdJournals, grdHard, GrdKept
<1>3. grdSup.pc = "watch" /\ grdSup'.pc = "kill" /\ grdSup' \in [pc : GrdSupPc, why : {"startup", "final"}, k : 0 .. 2]
  BY <1>1, <1>2, GrdSupGoes
<1>4. grdReport.phase # "drained" BY <1>0, <1>3 DEF GrdTrack
<1>5. GrdFence' BY <1>0, <1>2, <1>3 DEF GrdFence, GrdUnfenced, GrdAlive, Acting, GrdWithdraws, GrdDrains
<1>6. grdSup'.pc \notin GrdWithdraws /\ grdSup'.pc \notin {"launch", "spawn"} BY <1>3 DEF GrdWithdraws, GrdDrains
<1>7. \A n \in GrdRun : grdOwn'[n] = grdOwn[n] BY <1>2
<1> QED BY <1>2, <1>3, <1>4, <1>5, <1>6, <1>7, GrdBase, GrdGuardMoves

LEMMA GrdKillInv == ASSUME GrdInv, KillOwner PROVE GrdInv'
<1>0. GrdFence BY GrdBase
<1>1. grdSup.pc = "kill" /\ grdOwn' = [grdOwn EXCEPT ![grdStarted] = Process("dead", 0)] /\ grdLock' = Unlocked(grdStarted)
      /\ grdSup' = [pc |-> "check", why |-> "final", k |-> 0] /\ grdReport' = [phase |-> "draining", group |-> grdReport.group]
  BY DEF KillOwner, Report
<1>2. UNCHANGED <<grdGroups, grdStarted, grdFaults>> /\ GrdKept BY DEF KillOwner, SupRest, grdJournals, grdHard, GrdKept
<1>3. grdSup'.pc = "check" /\ grdSup'.why = "final" /\ grdSup' \in [pc : GrdSupPc, why : {"startup", "final"}, k : 0 .. 2]
  BY <1>1 DEF GrdSupPc
<1>4. grdReport' \in [phase : GrdPhases, group : GrdRun \cup {0}] /\ grdReport'.phase = "draining" /\ grdReport'.group = grdReport.group
  BY <1>1, GrdBase DEF GrdPhases
<1>5. grdStarted \in GrdRun /\ grdReport.group = grdStarted BY <1>0, <1>1 DEF GrdFence
<1>6. grdOwn' \in [GrdRun -> GrdProcesses] BY <1>1, <1>5, GrdBase, GrdDead
<1>7. \A n \in GrdRun : IF n = grdStarted THEN grdOwn'[n].pc = "dead" ELSE grdOwn'[n] = grdOwn[n]
  BY <1>1, <1>5, GrdBase, GrdDead
<1>8. \A n \in GrdRun : ~GrdAlive(n)' BY <1>0, <1>2, <1>5, <1>7 DEF GrdFence, GrdAlive, Acting
<1>9. \A n \in GrdRun : n > grdStarted => grdOwn'[n].pc = "none" BY <1>0, <1>5, <1>7, GrdAssumption DEF GrdFence
<1>10. GrdFence' BY <1>0, <1>2, <1>3, <1>4, <1>5, <1>8, <1>9 DEF GrdFence
<1>11. grdSup'.pc \notin GrdWithdraws /\ grdSup'.pc \notin {"launch", "spawn"} BY <1>3 DEF GrdWithdraws, GrdDrains
<1>12. grdLock' \in 0 .. GrdSup BY <1>1, GrdUnlocked
<1> QED BY <1>2, <1>3, <1>4, <1>6, <1>7, <1>10, <1>11, <1>12, GrdBase, GrdGuardMoves

LEMMA GrdKillTimesOutInv == ASSUME GrdInv, KillTimesOut PROVE GrdInv'
<1>0. GrdFence /\ GrdTrack BY GrdBase
<1> DEFINE g == IF grdSup.pc = "kill" THEN grdStarted ELSE grdReport.group
<1>1. grdSup.pc \in {"kill", "fence"} /\ Acting(g) /\ grdOwn' = [grdOwn EXCEPT ![g] = Process("stuck", 0)]
      /\ grdSup' = GrdIdle /\ grdFaults' = grdFaults + 1 BY DEF KillTimesOut
<1>2. UNCHANGED <<grdStarted, grdGroups, grdLock>> /\ GrdKept BY DEF KillTimesOut, grdJournals, grdHard, GrdKept
<1>3. grdReport' = grdReport \/ grdReport' = [phase |-> "blocked", group |-> grdReport.group] BY DEF KillTimesOut, Report
<1>4. grdReport.phase # "drained" /\ g \in GrdRun /\ g = grdReport.group BY <1>0, <1>1 DEF GrdFence, GrdTrack
<1>5. grdReport' \in [phase : GrdPhases, group : GrdRun \cup {0}] /\ grdReport'.phase # "drained" /\ grdReport'.group = grdReport.group
  BY <1>3, <1>4, GrdBase DEF GrdPhases
<1> HIDE DEF g
<1>6. grdOwn' \in [GrdRun -> GrdProcesses] BY <1>1, <1>4, GrdBase, GrdDead
<1>7. \A n \in GrdRun : IF n = g THEN grdOwn'[n].pc = "stuck" ELSE grdOwn'[n] = grdOwn[n]
  BY <1>1, <1>4, GrdBase, GrdDead
<1>8. grdSup'.pc = "off" /\ grdSup' \in [pc : GrdSupPc, why : {"startup", "final"}, k : 0 .. 2] BY <1>1, GrdIdleTyped
<1>9. \A n \in GrdRun : GrdAlive(n)' => n = grdReport.group
  BY <1>0, <1>2, <1>4, <1>7 DEF GrdFence, GrdAlive, Acting
<1>10. \A n \in GrdRun : n > grdStarted => grdOwn'[n].pc = "none" BY <1>0, <1>1, <1>4, <1>7 DEF GrdFence, Acting
<1>11. GrdFence' BY <1>2, <1>5, <1>8, <1>9, <1>10 DEF GrdFence, GrdUnfenced, GrdWithdraws, GrdDrains
<1>12. grdSup'.pc \notin GrdWithdraws /\ grdSup'.pc \notin {"launch", "spawn"} BY <1>8 DEF GrdWithdraws, GrdDrains
<1>13. grdFaults' \in Nat BY <1>1, GrdBase
<1> QED BY <1>2, <1>5, <1>6, <1>7, <1>8, <1>11, <1>12, <1>13, GrdBase, GrdGuardMoves

LEMMA GrdDiesInv == ASSUME GrdInv, GuardianDies PROVE GrdInv'
<1>0. GrdFence /\ GrdTrack BY GrdBase
<1>1. grdSup' = GrdIdle /\ grdFaults' = grdFaults + 1 /\ grdLock' = Unlocked(GrdSup)
      /\ UNCHANGED <<grdReport, grdStarted, grdOwn, grdGroups>> /\ GrdKept
  BY DEF GuardianDies, grdJournals, grdHard, GrdKept
<1>2. grdSup'.pc = "off" /\ grdSup' \in [pc : GrdSupPc, why : {"startup", "final"}, k : 0 .. 2] BY <1>1, GrdIdleTyped
<1>3. grdReport'.phase = "drained" => GrdEmpty /\ grdReport'.group = 0 BY <1>0, <1>1 DEF GrdTrack
<1>4. GrdFence' BY <1>0, <1>1, <1>2 DEF GrdFence, GrdUnfenced, GrdAlive, Acting, GrdWithdraws, GrdDrains
<1>5. grdSup'.pc \notin GrdWithdraws /\ grdSup'.pc \notin {"launch", "spawn"} BY <1>2 DEF GrdWithdraws, GrdDrains
<1>6. grdFaults' \in Nat /\ grdLock' \in 0 .. GrdSup BY <1>1, GrdBase, GrdUnlocked
<1>7. \A n \in GrdRun : grdOwn'[n] = grdOwn[n] BY <1>1
<1> QED BY <1>1, <1>2, <1>3, <1>4, <1>5, <1>6, <1>7, GrdBase, GrdGuardMoves

\* ---- the withdrawal ----

\* While the guardian withdraws no owner is alive: the step only has to keep
\* what is known of journals, hardware and queue.
LEMMA GrdWithdrawMoves ==
  ASSUME GrdInv, grdSup.pc \in {"check"} \cup GrdWithdraws, UNCHANGED <<grdStarted, grdOwn>>, grdGroups' \subseteq grdGroups,
         grdSup' \in [pc : GrdSupPc, why : {"startup", "final"}, k : 0 .. 2],
         \/ grdSup'.pc = "off"
         \/ grdSup'.pc \in GrdWithdraws /\ grdSup'.why = grdSup.why
         \/ grdSup'.pc = "launch" /\ grdSup.why = "startup",
         grdReport' \in [phase : GrdPhases, group : GrdRun \cup {0}],
         grdRec' \in GrdRecords, grdHw' \in GrdHardware, grdLab' \in GrdLabs, grdBcm' \in Seq(GrdRequests),
         grdLock' \in 0 .. GrdSup, grdStolen' \in BOOLEAN, grdFaults' \in Nat,
         GrdTrack', GrdGuardian'
  PROVE  GrdInv'
<1>0. GrdShape /\ GrdFence BY GrdBase
<1>1. GrdShape' BY <1>0 DEF GrdShape, GrdLabs
<1>2. \A n \in GrdRun : ~GrdAlive(n)'
  <2>1. \A n \in GrdRun : ~GrdAlive(n) BY <1>0 DEF GrdFence, GrdUnfenced, GrdWithdraws, GrdDrains
  <2> QED BY <2>1 DEF GrdAlive, Acting
<1>3. GrdFence'
  <2>1. grdStarted \in GrdRun /\ (grdSup.why = "startup" => grdOwn[grdStarted].pc = "none")
    BY <1>0 DEF GrdFence, GrdWithdraws, GrdDrains
  <2>2. grdSup'.pc \notin {"spawn", "watch", "kill", "fence", "remove", "publish"} BY DEF GrdWithdraws, GrdDrains
  <2>3. grdSup'.pc = "off" => grdSup'.pc \notin {"check"} \cup GrdWithdraws BY DEF GrdWithdraws, GrdDrains
  <2>4. \A n \in GrdRun : n > grdStarted => grdOwn[n].pc = "none" BY <1>0 DEF GrdFence
  <2>5. grdSup'.pc # "off" /\ (grdSup'.pc = "launch" \/ grdSup'.why = "startup") => grdOwn[grdStarted].pc = "none"
    BY <2>1 DEF GrdWithdraws, GrdDrains
  <2>6. grdSup'.pc \in {"fence", "remove", "publish", "launch", "spawn"} => grdSup'.pc = "launch" BY <2>2
  <2> QED BY <1>2, <2>1, <2>2, <2>3, <2>4, <2>5, <2>6 DEF GrdFence
<1>4. ASSUME NEW n \in GrdRun PROVE GrdOwner(n)' BY <1>2 DEF GrdOwner, GrdAlive, Acting, GrdWorking
<1> QED BY <1>1, <1>3, <1>4 DEF GrdInv

\* The types a step of the withdrawal that leaves a variable alone keeps.
LEMMA GrdTypes ==
  GrdInv => /\ grdRec \in GrdRecords /\ grdHw \in GrdHardware /\ grdLab \in GrdLabs /\ grdBcm \in Seq(GrdRequests)
            /\ grdStolen \in BOOLEAN
            /\ grdRec.left \in 0 .. 2 /\ grdRec.touched \in 0 .. 2 /\ grdHw.rules \subseteq GrdTwo /\ grdHw.redirect \subseteq GrdTwo
            /\ grdRec.pending \in BOOLEAN /\ grdRec.deleting \in BOOLEAN
            /\ grdSup.k \in 0 .. 2 /\ grdSup.why \in {"startup", "final"}
            /\ Len(grdBcm) \in Nat /\ (grdBcm # <<>> => Len(grdBcm) > 0)
            /\ \A j \in 1 .. Len(grdBcm) : grdBcm[j].op \in GrdOps /\ grdBcm[j].i \in GrdTwo
<1> SUFFICES ASSUME GrdInv PROVE GrdTypes!2
  OBVIOUS
<1>1. grdBcm \in Seq(GrdRequests) BY DEF GrdInv, GrdShape
<1>2. Len(grdBcm) \in Nat /\ (grdBcm # <<>> => Len(grdBcm) > 0) BY <1>1
<1>3. \A j \in 1 .. Len(grdBcm) : grdBcm[j].op \in GrdOps /\ grdBcm[j].i \in GrdTwo
  <2>1. \A j \in 1 .. Len(grdBcm) : grdBcm[j] \in GrdRequests BY <1>1
  <2> QED BY <2>1 DEF GrdRequests
<1> QED BY <1>1, <1>2, <1>3 DEF GrdInv, GrdShape, GrdLabs, GrdRecords, GrdHardware

\* An acknowledged recovery: everything is gone.
LEMMA GrdAcks ==
  ASSUME GrdInv, grdSup.pc \in {"check"} \cup GrdWithdraws, Acknowledged, Settled, GrdEmpty',
         grdRec' \in GrdRecords, grdLock' \in 0 .. GrdSup, UNCHANGED <<grdLab, grdHw, grdBcm, grdStolen>>,
         grdRec' = grdRec \/ (/\ grdRec'.epoch = grdRec.epoch /\ grdRec'.left = grdRec.left /\ ~grdRec'.deleting /\ grdRec.left = 0)
  PROVE  GrdInv'
<1>0. GrdTrack BY GrdBase
<1>1. UNCHANGED <<grdStarted, grdOwn, grdFaults>> BY DEF Settled
<1>2. grdSup' \in [pc : GrdSupPc, why : {"startup", "final"}, k : 0 .. 2] /\ grdSup'.pc \in {"off", "launch"}
      /\ (grdSup'.pc = "launch" => grdSup.why = "startup")
  <2>1. CASE grdSup.why = "startup"
    <3>1. grdSup' = [grdSup EXCEPT !.pc = "launch", !.k = 0] BY <2>1 DEF Acknowledged
    <3>2. "launch" \in GrdSupPc /\ 0 \in 0 .. 2 BY DEF GrdSupPc
    <3>3. grdSup \in [pc : GrdSupPc, why : {"startup", "final"}, k : 0 .. 2] BY GrdBase
    <3> QED BY <2>1, <3>1, <3>2, <3>3
  <2>2. CASE grdSup.why # "startup" BY <2>2, GrdIdleTyped DEF Acknowledged
  <2> QED BY <2>1, <2>2
<1>3. grdGroups' \subseteq grdGroups BY DEF Acknowledged
<1>4. grdReport' \in [phase : GrdPhases, group : GrdRun \cup {0}]
  <2>1. [phase |-> "drained", group |-> 0] \in [phase : GrdPhases, group : GrdRun \cup {0}] BY DEF GrdPhases
  <2> QED BY <2>1, GrdBase DEF Acknowledged, Report
<1>5. grdReport'.phase = "drained" => grdReport'.group = 0 /\ grdSup'.pc = "off"
  <2>1. grdReport.phase # "drained" BY <1>0 DEF GrdTrack, GrdWithdraws, GrdDrains
  <2> QED BY <2>1, GrdIdleTyped DEF Acknowledged, Report
<1>6. grdHw'.rules = {} /\ grdHw'.redirect = {} /\ ~grdHw'.table /\ ~grdHw'.session /\ grdBcm' = <<>> /\ Len(grdBcm') = 0
  BY DEF GrdEmpty
<1>7. GrdTrack'
  <2>1. ~GrdQueued("enable")' BY <1>6 DEF GrdQueued
  <2>2. grdHw' = grdHw OBVIOUS
  <2>3. CASE grdRec' = grdRec
    <3>1. GrdSame' <=> GrdSame BY <2>2, <2>3 DEF GrdSame
    <3> QED BY <1>0, <1>5, <1>6, <2>1, <2>2, <2>3, <3>1 DEF GrdTrack
  <2>4. CASE /\ grdRec'.epoch = grdRec.epoch /\ grdRec'.left = grdRec.left /\ ~grdRec'.deleting /\ grdRec.left = 0
    <3>1. ~(\E i \in GrdTwo : i < grdRec'.left \/ (i = grdRec'.left /\ ~grdRec'.deleting)) BY <2>4
    <3> QED BY <1>0, <1>5, <1>6, <2>1, <2>2, <2>4, <3>1 DEF GrdTrack
  <2> QED BY <2>3, <2>4
<1>8. GrdGuardian' BY <1>2 DEF GrdGuardian, GrdWithdraws, GrdDrains
<1>9. grdHw' \in GrdHardware /\ grdLab' \in GrdLabs /\ grdBcm' \in Seq(GrdRequests) /\ grdStolen' \in BOOLEAN /\ grdFaults' \in Nat
  BY <1>1, GrdTypes, GrdBase
<1> QED BY <1>1, <1>2, <1>3, <1>4, <1>7, <1>8, <1>9, GrdWithdrawMoves

\* A recovery that raises.
LEMMA GrdBlocks ==
  ASSUME GrdInv, grdSup.pc \in {"check"} \cup GrdWithdraws, Blocked, UNCHANGED <<grdStarted, grdOwn, grdLab, grdHw, grdBcm, grdStolen>>,
         grdLock' \in 0 .. GrdSup, grdFaults' \in Nat,
         grdRec' = grdRec \/ (grdSup.pc \in GrdWithdraws /\ grdRec' = [grdRec EXCEPT !.done = FALSE])
  PROVE  GrdInv'
<1>0. GrdTrack /\ GrdGuardian BY GrdBase
<1>1. grdRec' = grdRec
  <2>1. CASE grdSup.pc \in GrdWithdraws /\ grdRec' = [grdRec EXCEPT !.done = FALSE]
    <3>1. ~grdRec.done /\ grdRec \in GrdRecords BY <1>0, <2>1, GrdTypes DEF GrdGuardian
    <3> QED BY <2>1, <3>1 DEF GrdRecords
  <2> QED BY <2>1
<1>2. grdSup'.pc = "off" /\ grdSup' \in [pc : GrdSupPc, why : {"startup", "final"}, k : 0 .. 2] BY GrdIdleTyped DEF Blocked
<1>3. grdReport' \in [phase : GrdPhases, group : GrdRun \cup {0}] /\ grdReport'.phase = "blocked"
  <2>1. grdReport.group \in GrdRun \cup {0} BY GrdBase
  <2> QED BY <2>1 DEF Blocked, Report, GrdPhases
<1>4. (GrdSame' <=> GrdSame) /\ (GrdEmpty' <=> GrdEmpty) /\ (GrdQueued("enable")' <=> GrdQueued("enable"))
  BY <1>1 DEF GrdSame, GrdEmpty, GrdQueued
<1>5. GrdTrack' BY <1>0, <1>1, <1>3, <1>4 DEF GrdTrack
<1>6. GrdGuardian' BY <1>2 DEF GrdGuardian, GrdWithdraws, GrdDrains
<1>7. grdGroups' \subseteq grdGroups BY DEF Blocked
<1>8. grdRec' \in GrdRecords /\ grdHw' \in GrdHardware /\ grdLab' \in GrdLabs /\ grdBcm' \in Seq(GrdRequests) /\ grdStolen' \in BOOLEAN
  BY <1>1, GrdTypes
<1> QED BY <1>2, <1>3, <1>5, <1>6, <1>7, <1>8, GrdWithdrawMoves

LEMMA GrdCheckInv == ASSUME GrdInv, RecoverCheck PROVE GrdInv'
<1>0. GrdTrack /\ grdSup.pc = "check" BY GrdBase DEF RecoverCheck
<1>1. UNCHANGED <<grdStarted, grdOwn, grdFaults, grdRec, grdLab, grdHw, grdBcm, grdStolen>> /\ Settled
  BY DEF RecoverCheck, Settled, grdJournals, grdHard
<1>2. grdHw' \in GrdHardware /\ grdLab' \in GrdLabs /\ grdBcm' \in Seq(GrdRequests) /\ grdStolen' \in BOOLEAN /\ grdFaults' \in Nat
      /\ grdRec' \in GrdRecords
  BY <1>1, GrdTypes, GrdBase
<1>3. CASE Blocked /\ UNCHANGED grdLock
  BY <1>0, <1>1, <1>2, <1>3, GrdBlocks, GrdBase
<1>4. CASE Acknowledged /\ UNCHANGED grdLock /\ (~grdRec.ex \/ grdRec.done)
  <2>1. GrdEmpty BY <1>0, <1>4 DEF GrdTrack
  <2>2. GrdEmpty' BY <1>1, <2>1 DEF GrdEmpty
  <2>3. grdLock' \in 0 .. GrdSup BY <1>4, GrdBase
  <2> QED BY <1>0, <1>1, <1>2, <1>4, <2>2, <2>3, GrdAcks
<1>5. CASE /\ grdRec.ex /\ GrdSame /\ ~grdRec.done /\ grdLock' = GrdSup /\ UNCHANGED <<grdReport, grdGroups>>
           /\ grdSup' = [grdSup EXCEPT !.pc = IF grdRec.touched > 0 THEN "restore" ELSE "flow", !.k = grdRec.touched]
  <2> DEFINE to == IF grdRec.touched > 0 THEN "restore" ELSE "flow"
  <2>1. to \in GrdSupPc /\ to \in GrdWithdraws /\ grdRec.touched \in 0 .. 2 BY GrdTypes DEF GrdSupPc, GrdWithdraws, GrdDrains
  <2>2. grdSup \in [pc : GrdSupPc, why : {"startup", "final"}, k : 0 .. 2] BY GrdBase
  <2>3. grdSup' = [grdSup EXCEPT !.pc = to, !.k = grdRec.touched] BY <1>5
  <2>4. grdSup'.pc = to /\ grdSup'.why = grdSup.why /\ grdSup'.k = grdRec.touched BY <2>2, <2>3
  <2>5. grdSup' \in [pc : GrdSupPc, why : {"startup", "final"}, k : 0 .. 2] BY <2>1, <2>2, <2>3
  <2>6. grdReport.phase # "drained" BY <1>0 DEF GrdTrack
  <2>7. (GrdSame' <=> GrdSame) /\ (GrdEmpty' <=> GrdEmpty) /\ (GrdQueued("enable")' <=> GrdQueued("enable"))
    BY <1>1 DEF GrdSame, GrdEmpty, GrdQueued
  <2>8. GrdTrack' BY <1>0, <1>1, <1>5, <2>6, <2>7 DEF GrdTrack
  <2>9. GrdGuardian'
    <3>1. \A j \in 1 .. Len(grdBcm) : grdBcm[j].op = "enable" => grdBcm[j].i <= grdRec.touched BY <1>0 DEF GrdTrack
    <3>2. \A i \in grdHw.redirect : i <= grdRec.touched BY <1>0 DEF GrdTrack
    <3>3. CASE grdRec.touched > 0
      <4>1. grdSup'.pc = "restore" /\ grdRec.touched \in GrdTwo BY <2>1, <2>4, <3>3
      <4> QED BY <1>1, <1>5, <2>4, <3>1, <3>2, <3>3, <4>1 DEF GrdGuardian, GrdWithdraws, GrdDrains
    <3>4. CASE grdRec.touched = 0
      <4>1. grdSup'.pc = "flow" BY <2>4, <3>4
      <4>2. grdHw.redirect = {} BY <3>2, <3>4, GrdTypes
      <4>3. ~GrdQueued("enable")
        <5>1. ASSUME NEW j \in 1 .. Len(grdBcm), grdBcm[j].op = "enable" PROVE FALSE
          <6>1. grdBcm[j].i \in GrdTwo BY GrdTypes
          <6> QED BY <3>1, <3>4, <5>1, <6>1
        <5> QED BY <5>1 DEF GrdQueued
      <4>4. grdBcm # <<>> => grdRec.pending \/ grdRec.deleting
        <5>1. ASSUME grdBcm # <<>> PROVE grdRec.pending \/ grdRec.deleting
          <6>1. 1 \in 1 .. Len(grdBcm) /\ grdBcm[1].op \in GrdOps BY <5>1, GrdTypes
          <6>2. grdBcm[1].op \notin {"enable", "restore"} BY <1>0, <3>4, <4>3, <6>1 DEF GrdTrack, GrdQueued
          <6> QED BY <1>0, <6>1, <6>2 DEF GrdTrack, GrdOps
        <5> QED BY <5>1
      <4> QED BY <1>1, <1>5, <2>7, <4>1, <4>2, <4>3, <4>4 DEF GrdGuardian, GrdWithdraws, GrdDrains
    <3> QED BY <2>1, <3>3, <3>4
  <2>10. grdLock' \in 0 .. GrdSup BY <1>5, GrdAssumption
  <2>11. grdReport' \in [phase : GrdPhases, group : GrdRun \cup {0}] /\ grdGroups' \subseteq grdGroups BY <1>5, GrdBase
  <2> HIDE DEF to
  <2> QED BY <1>0, <1>1, <1>2, <2>1, <2>4, <2>5, <2>8, <2>9, <2>10, <2>11, GrdWithdrawMoves
<1> QED BY <1>3, <1>4, <1>5 DEF RecoverCheck, GrdSame

\* A request of the guardian joins the queue.
LEMMA GrdAppendFacts ==
  ASSUME GrdInv, NEW q \in GrdRequests, grdBcm' = Append(grdBcm, q)
  PROVE  /\ Len(grdBcm') = Len(grdBcm) + 1 /\ grdBcm'[Len(grdBcm')] = q /\ grdBcm' # <<>> /\ grdBcm' \in Seq(GrdRequests)
         /\ \A j \in 1 .. Len(grdBcm') : (j \in 1 .. Len(grdBcm) /\ grdBcm'[j] = grdBcm[j]) \/ (j = Len(grdBcm') /\ grdBcm'[j] = q)
         /\ \A op : q.op # op => (GrdQueued(op)' => GrdQueued(op))
<1>1. grdBcm \in Seq(GrdRequests) BY GrdTypes
<1>2. Len(grdBcm) \in Nat /\ Len(grdBcm') = Len(grdBcm) + 1 /\ grdBcm'[Len(grdBcm')] = q /\ grdBcm' \in Seq(GrdRequests) /\ grdBcm' # <<>>
  BY <1>1
<1>3. \A j \in 1 .. Len(grdBcm') : (j \in 1 .. Len(grdBcm) /\ grdBcm'[j] = grdBcm[j]) \/ (j = Len(grdBcm') /\ grdBcm'[j] = q)
  BY <1>1, <1>2
<1>4. \A op : q.op # op => (GrdQueued(op)' => GrdQueued(op)) BY <1>3 DEF GrdQueued
<1> QED BY <1>2, <1>3, <1>4

\* The guardian's place and counter.
LEMMA GrdSupAt ==
  ASSUME GrdInv, NEW to \in GrdSupPc, NEW k \in 0 .. 2, grdSup' = [grdSup EXCEPT !.pc = to, !.k = k]
  PROVE  grdSup'.pc = to /\ grdSup'.k = k /\ grdSup'.why = grdSup.why /\ grdSup' \in [pc : GrdSupPc, why : {"startup", "final"}, k : 0 .. 2]
<1>1. grdSup \in [pc : GrdSupPc, why : {"startup", "final"}, k : 0 .. 2] BY GrdBase
<1>2. grdSup'.pc = to /\ grdSup'.k = k /\ grdSup'.why = grdSup.why BY <1>1
<1>3. grdSup' \in [pc : GrdSupPc, why : {"startup", "final"}, k : 0 .. 2] BY <1>1
<1> QED BY <1>2, <1>3

LEMMA GrdSupKeepsK ==
  ASSUME GrdInv, NEW to \in GrdSupPc, grdSup' = [grdSup EXCEPT !.pc = to]
  PROVE  grdSup'.pc = to /\ grdSup'.k = grdSup.k /\ grdSup'.why = grdSup.why /\ grdSup' \in [pc : GrdSupPc, why : {"startup", "final"}, k : 0 .. 2]
<1>1. grdSup \in [pc : GrdSupPc, why : {"startup", "final"}, k : 0 .. 2] BY GrdBase
<1> QED BY <1>1

LEMMA GrdRestoreInv == ASSUME GrdInv, RestoreRedirect PROVE GrdInv'
<1> DEFINE k == grdSup.k
<1>0. GrdTrack /\ GrdGuardian /\ grdSup.pc \in {"restore", "restored"} /\ "restore" \in GrdSupPc /\ "restored" \in GrdSupPc /\ "flow" \in GrdSupPc
  BY GrdBase DEF RestoreRedirect, GrdSupPc, GrdWithdraws, GrdDrains
<1>1. grdRec.ex /\ ~grdRec.done /\ k \in GrdTwo /\ grdRec.touched > 0 /\ (\A i \in grdHw.redirect : i <= k) /\ grdReport.phase # "drained"
      /\ \A j \in 1 .. Len(grdBcm) : grdBcm[j].op = "enable" => grdBcm[j].i <= k
  BY <1>0 DEF GrdGuardian, GrdTrack, GrdWithdraws, GrdDrains
<1>2. UNCHANGED <<grdStarted, grdOwn, grdGroups, grdReport, grdRec, grdHw, grdLab, grdLock, grdStolen, grdFaults>>
  BY DEF RestoreRedirect, SupSend, Settled, grdJournals, grdHard
<1>3. grdRec' \in GrdRecords /\ grdHw' \in GrdHardware /\ grdLab' \in GrdLabs /\ grdLock' \in 0 .. GrdSup /\ grdStolen' \in BOOLEAN /\ grdFaults' \in Nat
      /\ grdReport' \in [phase : GrdPhases, group : GrdRun \cup {0}] /\ grdGroups' \subseteq grdGroups
  BY <1>2, GrdTypes, GrdBase
<1>4. GrdSame' <=> GrdSame BY <1>2 DEF GrdSame
<1>5. CASE grdSup.pc = "restore" /\ SupSend("restored", "restore")
  <2> DEFINE q == [op |-> "restore", i |-> k]
  <2>1. q \in GrdRequests /\ q.op = "restore" /\ q.i = k BY <1>1 DEF GrdRequests, GrdOps
  <2>2. grdBcm' = Append(grdBcm, q) /\ grdSup' = [grdSup EXCEPT !.pc = "restored"] BY <1>5 DEF SupSend
  <2>3. grdSup'.pc = "restored" /\ grdSup'.k = k /\ grdSup'.why = grdSup.why /\ grdSup' \in [pc : GrdSupPc, why : {"startup", "final"}, k : 0 .. 2]
    BY <1>0, <2>2, GrdSupKeepsK
  <2> HIDE DEF q
  <2>4. /\ Len(grdBcm') = Len(grdBcm) + 1 /\ grdBcm'[Len(grdBcm')] = q /\ grdBcm' # <<>> /\ grdBcm' \in Seq(GrdRequests)
        /\ \A j \in 1 .. Len(grdBcm') : (j \in 1 .. Len(grdBcm) /\ grdBcm'[j] = grdBcm[j]) \/ (j = Len(grdBcm') /\ grdBcm'[j] = q)
        /\ (GrdQueued("enable")' => GrdQueued("enable"))
    BY <2>1, <2>2, GrdAppendFacts
  <2>5. ASSUME NEW j \in 1 .. Len(grdBcm')
        PROVE  /\ grdBcm'[j].op = "create" => grdRec.pending /\ grdBcm'[j].i = grdRec.left + 1
               /\ grdBcm'[j].op = "enable" => grdBcm'[j].i <= grdRec.touched /\ grdBcm'[j].i <= k
               /\ grdBcm'[j].op = "restore" => grdRec.touched > 0
               /\ grdBcm'[j].op = "delete" => grdRec.deleting /\ grdBcm'[j].i = grdRec.left /\ (GrdSame => grdBcm'[j].i \in grdHw.rules)
               /\ grdBcm'[j].op = "delete" => \A m \in 1 .. Len(grdBcm') : grdBcm'[m].op = "delete" => m = j
    <3>1. CASE j \in 1 .. Len(grdBcm) /\ grdBcm'[j] = grdBcm[j]
      <4>1. grdBcm[j].op = "delete" => \A m \in 1 .. Len(grdBcm) : grdBcm[m].op = "delete" => m = j
        BY <1>0, <3>1 DEF GrdTrack
      <4>2. grdBcm'[j].op = "delete" => \A m \in 1 .. Len(grdBcm') : grdBcm'[m].op = "delete" => m = j
        BY <2>1, <2>4, <3>1, <4>1
      <4> QED BY <1>0, <1>1, <3>1, <4>2 DEF GrdTrack
    <3>2. CASE grdBcm'[j] = q BY <1>1, <2>1, <3>2
    <3> QED BY <2>4, <3>1, <3>2
  <2>6. GrdTrack'
    <3>1. \A j \in 1 .. Len(grdBcm') :
            /\ grdBcm'[j].op = "create" => grdRec.pending /\ grdBcm'[j].i = grdRec.left + 1
            /\ grdBcm'[j].op = "enable" => grdBcm'[j].i <= grdRec.touched
            /\ grdBcm'[j].op = "restore" => grdRec.touched > 0
            /\ grdBcm'[j].op = "delete" => grdRec.deleting /\ grdBcm'[j].i = grdRec.left /\ (GrdSame => grdBcm'[j].i \in grdHw.rules)
            /\ grdBcm'[j].op = "delete" => \A m \in 1 .. Len(grdBcm') : grdBcm'[m].op = "delete" => m = j
      BY <2>5
    <3> HIDE <2>5
    <3> QED BY <1>0, <1>1, <1>2, <1>4, <2>4, <3>1 DEF GrdTrack
  <2>7. GrdGuardian'
    <3>1. \A j \in 1 .. Len(grdBcm') : grdBcm'[j].op = "enable" => grdBcm'[j].i <= k BY <2>5
    <3>2. q = [op |-> "restore", i |-> k] BY DEF q
    <3>3. k = grdSup'.k BY <2>3
    <3> HIDE <2>5 DEF k
    <3> QED BY <1>1, <1>2, <2>3, <2>4, <3>1, <3>2, <3>3 DEF GrdGuardian, GrdWithdraws, GrdDrains
  <2>8. grdSup'.pc \in GrdWithdraws /\ grdSup.pc \in GrdWithdraws BY <1>0, <2>3 DEF GrdWithdraws
  <2> QED BY <1>2, <1>3, <2>3, <2>4, <2>6, <2>7, <2>8, GrdWithdrawMoves
<1>6. CASE /\ grdSup.pc = "restored" /\ grdBcm = <<>> /\ grdBcm' = grdBcm
           /\ grdSup' = [grdSup EXCEPT !.pc = IF k > 1 THEN "restore" ELSE "flow", !.k = IF k > 1 THEN 1 ELSE 0]
  <2> DEFINE to == IF k > 1 THEN "restore" ELSE "flow"
             j == IF k > 1 THEN 1 ELSE 0
  <2>1. to \in GrdSupPc /\ j \in 0 .. 2 BY <1>0
  <2>2. grdSup' = [grdSup EXCEPT !.pc = to, !.k = j] BY <1>6
  <2>3. grdSup'.pc = to /\ grdSup'.k = j /\ grdSup'.why = grdSup.why /\ grdSup' \in [pc : GrdSupPc, why : {"startup", "final"}, k : 0 .. 2]
    BY <2>1, <2>2, GrdSupAt
  <2>4. k \notin grdHw.redirect /\ grdHw.redirect \subseteq GrdTwo BY <1>0, <1>6, GrdTypes DEF GrdGuardian
  <2>5. (GrdEmpty' <=> GrdEmpty) /\ (GrdQueued("enable")' <=> GrdQueued("enable")) /\ ~GrdQueued("enable") BY <1>2, <1>6 DEF GrdEmpty, GrdQueued
  <2>6. GrdTrack' BY <1>0, <1>1, <1>2, <1>4, <1>6, <2>5 DEF GrdTrack
  <2>7. GrdGuardian'
    <3>1. CASE k = 2
      <4>1. \A i \in grdHw.redirect : i <= 1 BY <2>4, <3>1
      <4>2. grdSup'.pc = "restore" /\ grdSup'.k = 1 BY <2>3, <3>1
      <4> QED BY <1>1, <1>2, <1>6, <4>1, <4>2 DEF GrdGuardian, GrdWithdraws, GrdDrains
    <3>2. CASE k = 1
      <4>1. grdHw.redirect = {} BY <1>1, <2>4, <3>2
      <4>2. grdSup'.pc = "flow" BY <2>3, <3>2
      <4> QED BY <1>1, <1>2, <1>6, <2>5, <4>1, <4>2 DEF GrdGuardian, GrdWithdraws, GrdDrains
    <3> QED BY <1>1, <3>1, <3>2
  <2>8. grdSup'.pc \in GrdWithdraws /\ grdSup.pc \in GrdWithdraws BY <1>0, <2>3 DEF GrdWithdraws, GrdDrains
  <2>9. grdBcm' \in Seq(GrdRequests) BY <1>6, GrdTypes
  <2> HIDE DEF to, j
  <2> QED BY <1>2, <1>3, <2>3, <2>6, <2>7, <2>8, <2>9, GrdWithdrawMoves
<1> QED BY <1>5, <1>6 DEF RestoreRedirect, grdHard

LEMMA GrdFailsInv == ASSUME GrdInv, WithdrawalFails PROVE GrdInv'
<1>1. grdSup.pc \in GrdWithdraws BY DEF WithdrawalFails, GrdWithdraws, GrdDrains
<1>2. grdFaults' \in Nat /\ 0 \in 0 .. GrdSup BY GrdBase, GrdUnlocked DEF WithdrawalFails
<1>3. Blocked /\ grdLock' = 0 /\ grdRec' = [grdRec EXCEPT !.done = FALSE] /\ UNCHANGED <<grdStarted, grdOwn, grdLab, grdHw, grdBcm, grdStolen>>
  BY DEF WithdrawalFails, RecoverFails, grdHard
<1> QED BY <1>1, <1>2, <1>3, GrdBlocks

LEMMA GrdLabRestoreInv == ASSUME GrdInv, LabRestore PROVE GrdInv'
<1>0. GrdTrack /\ GrdGuardian /\ "tables" \in GrdSupPc /\ "uncertain" \in GrdSupPc BY GrdBase DEF GrdSupPc, GrdWithdraws, GrdDrains
<1>1. grdSup.pc \in {"flow", "tables"} /\ UNCHANGED <<grdStarted, grdOwn, grdGroups, grdReport, grdRec, grdBcm, grdLock, grdStolen, grdFaults>>
  BY DEF LabRestore, Settled
<1>2. grdRec.ex /\ ~grdRec.done /\ grdHw.redirect = {} /\ ~GrdQueued("enable") /\ (grdBcm # <<>> => grdRec.pending \/ grdRec.deleting)
      /\ grdReport.phase # "drained" /\ grdSup.pc \in GrdWithdraws
  BY <1>0, <1>1 DEF GrdGuardian, GrdTrack, GrdWithdraws, GrdDrains
<1>3. grdRec' \in GrdRecords /\ grdBcm' \in Seq(GrdRequests) /\ grdLock' \in 0 .. GrdSup /\ grdStolen' \in BOOLEAN /\ grdFaults' \in Nat
      /\ grdReport' \in [phase : GrdPhases, group : GrdRun \cup {0}] /\ grdGroups' \subseteq grdGroups
  BY <1>1, GrdTypes, GrdBase
<1>4. GrdQueued("enable")' <=> GrdQueued("enable") BY <1>1 DEF GrdQueued
<1>5. CASE /\ grdSup.pc = "flow" /\ grdSup' = [grdSup EXCEPT !.pc = "tables"]
           /\ grdHw' = [grdHw EXCEPT !.session = @ /\ ~grdLab.sess] /\ UNCHANGED grdLab
  <2>1. grdSup'.pc = "tables" /\ grdSup'.k = grdSup.k /\ grdSup'.why = grdSup.why /\ grdSup' \in [pc : GrdSupPc, why : {"startup", "final"}, k : 0 .. 2]
    BY <1>0, <1>5, GrdSupKeepsK
  <2>2. grdHw' \in GrdHardware /\ grdLab' \in GrdLabs
    <3>1. (grdHw.session /\ ~grdLab.sess) \in BOOLEAN OBVIOUS
    <3> QED BY <1>5, <3>1, GrdTypes DEF GrdHardware
  <2>3. grdHw'.table = grdHw.table /\ grdHw'.rules = grdHw.rules /\ grdHw'.redirect = grdHw.redirect /\ grdHw'.epoch = grdHw.epoch
    BY <1>5, GrdTypes DEF GrdHardware
  <2>4. ~grdHw'.session
    <3>1. grdHw.session => grdLab.sess BY <1>0 DEF GrdTrack
    <3>2. grdHw'.session = (grdHw.session /\ ~grdLab.sess) BY <1>5, GrdTypes DEF GrdHardware
    <3> QED BY <3>1, <3>2
  <2>5. GrdSame' <=> GrdSame BY <1>1, <2>3 DEF GrdSame
  <2>6. GrdTrack' BY <1>0, <1>1, <1>2, <1>4, <1>5, <2>3, <2>4, <2>5 DEF GrdTrack
  <2>7. GrdGuardian' BY <1>1, <1>2, <1>4, <2>1, <2>3, <2>4 DEF GrdGuardian, GrdWithdraws, GrdDrains
  <2>8. grdSup'.pc \in GrdWithdraws BY <2>1 DEF GrdWithdraws, GrdDrains
  <2> QED BY <1>1, <1>2, <1>3, <2>1, <2>2, <2>6, <2>7, <2>8, GrdWithdrawMoves
<1>6. CASE /\ grdSup.pc = "tables" /\ grdSup' = [grdSup EXCEPT !.pc = "uncertain"]
           /\ grdHw' = [grdHw EXCEPT !.table = @ /\ grdLab.change # "wanted"]
           /\ grdLab' = [grdLab EXCEPT !.change = IF @ = "wanted" THEN "restored" ELSE @]
  <2>1. grdSup'.pc = "uncertain" /\ grdSup'.k = grdSup.k /\ grdSup'.why = grdSup.why /\ grdSup' \in [pc : GrdSupPc, why : {"startup", "final"}, k : 0 .. 2]
    BY <1>0, <1>6, GrdSupKeepsK
  <2>2. grdHw' \in GrdHardware
    <3>1. (grdHw.table /\ grdLab.change # "wanted") \in BOOLEAN OBVIOUS
    <3> QED BY <1>6, <3>1, GrdTypes DEF GrdHardware
  <2>3. grdHw'.session = grdHw.session /\ grdHw'.rules = grdHw.rules /\ grdHw'.redirect = grdHw.redirect /\ grdHw'.epoch = grdHw.epoch
    BY <1>6, GrdTypes DEF GrdHardware
  <2>4. ~grdHw'.table
    <3>1. grdHw.table => grdLab.change = "wanted" BY <1>0 DEF GrdTrack
    <3>2. grdHw'.table = (grdHw.table /\ grdLab.change # "wanted") BY <1>6, GrdTypes DEF GrdHardware
    <3> QED BY <3>1, <3>2
  <2>5. ~grdHw.session BY <1>0, <1>6 DEF GrdGuardian, GrdDrains
  <2>6. grdLab' \in GrdLabs BY <1>6, GrdTypes DEF GrdLabs
  <2>7. GrdSame' <=> GrdSame BY <1>1, <2>3 DEF GrdSame
  <2>8. GrdTrack' BY <1>0, <1>1, <1>2, <1>4, <2>3, <2>4, <2>5, <2>7 DEF GrdTrack
  <2>9. GrdGuardian' BY <1>1, <1>2, <1>4, <2>1, <2>3, <2>4, <2>5 DEF GrdGuardian, GrdWithdraws, GrdDrains
  <2>10. grdSup'.pc \in GrdWithdraws BY <2>1 DEF GrdWithdraws, GrdDrains
  <2> QED BY <1>1, <1>2, <1>3, <2>1, <2>2, <2>6, <2>8, <2>9, <2>10, GrdWithdrawMoves
<1> QED BY <1>5, <1>6 DEF LabRestore

LEMMA GrdUncertainInv == ASSUME GrdInv, RefuseUncertain PROVE GrdInv'
<1>0. GrdTrack /\ GrdGuardian /\ grdSup.pc = "uncertain" /\ grdSup.pc \in GrdWithdraws
  BY GrdBase DEF RefuseUncertain, GrdWithdraws, GrdDrains
<1>1. UNCHANGED <<grdStarted, grdOwn, grdFaults, grdLab, grdHw, grdBcm, grdStolen>> BY DEF RefuseUncertain, Settled, grdHard
<1>2. CASE RecoverFails
  <2>1. Blocked /\ grdLock' \in 0 .. GrdSup /\ grdRec' = [grdRec EXCEPT !.done = FALSE] BY <1>2, GrdUnlocked DEF RecoverFails
  <2>2. grdFaults' \in Nat BY <1>1, GrdBase
  <2> QED BY <1>0, <1>1, <2>1, <2>2, GrdBlocks
<1>3. CASE /\ ~grdRec.pending /\ ~grdRec.deleting /\ UNCHANGED <<grdRec, grdReport, grdGroups, grdLock>>
           /\ grdSup' = [grdSup EXCEPT !.pc = IF grdRec.left > 0 THEN "mark" ELSE "finish", !.k = grdRec.left]
  <2> DEFINE to == IF grdRec.left > 0 THEN "mark" ELSE "finish"
             k == grdRec.left
  <2>1. to \in GrdSupPc /\ k \in 0 .. 2 BY GrdTypes DEF GrdSupPc, GrdWithdraws, GrdDrains
  <2>2. grdSup' = [grdSup EXCEPT !.pc = to, !.k = k] BY <1>3
  <2>3. grdSup'.pc = to /\ grdSup'.k = k /\ grdSup'.why = grdSup.why /\ grdSup' \in [pc : GrdSupPc, why : {"startup", "final"}, k : 0 .. 2]
    BY <2>1, <2>2, GrdSupAt
  <2>4. grdRec.ex /\ ~grdRec.done /\ grdHw.redirect = {} /\ ~GrdQueued("enable") /\ grdBcm = <<>> /\ ~grdHw.session /\ ~grdHw.table
        /\ grdReport.phase # "drained"
    BY <1>0, <1>3 DEF GrdGuardian, GrdTrack, GrdWithdraws, GrdDrains
  <2>5. (GrdSame' <=> GrdSame) /\ (GrdQueued("enable")' <=> GrdQueued("enable")) BY <1>1, <1>3 DEF GrdSame, GrdQueued
  <2>6. GrdTrack' BY <1>0, <1>1, <1>3, <2>4, <2>5 DEF GrdTrack
  <2>7. GrdGuardian'
    <3>1. CASE k = 0
      <4>1. grdSup'.pc = "finish" BY <2>3, <3>1
      <4> QED BY <1>1, <1>3, <2>3, <2>4, <2>5, <3>1, <4>1 DEF GrdGuardian, GrdWithdraws, GrdDrains
    <3>2. CASE k \in GrdTwo
      <4>1. grdSup'.pc = "mark" BY <2>3, <3>2
      <4> QED BY <1>1, <1>3, <2>3, <2>4, <2>5, <3>2, <4>1 DEF GrdGuardian, GrdWithdraws, GrdDrains
    <3> QED BY <2>1, <3>1, <3>2
  <2>8. grdSup'.pc \in GrdWithdraws BY <2>3 DEF GrdWithdraws, GrdDrains
  <2>9. grdRec' \in GrdRecords /\ grdHw' \in GrdHardware /\ grdLab' \in GrdLabs /\ grdBcm' \in Seq(GrdRequests) /\ grdLock' \in 0 .. GrdSup
        /\ grdStolen' \in BOOLEAN /\ grdFaults' \in Nat /\ grdReport' \in [phase : GrdPhases, group : GrdRun \cup {0}] /\ grdGroups' \subseteq grdGroups
    BY <1>1, <1>3, GrdTypes, GrdBase
  <2> HIDE DEF to, k
  <2> QED BY <1>0, <1>1, <2>3, <2>6, <2>7, <2>8, <2>9, GrdWithdrawMoves
<1> QED BY <1>2, <1>3 DEF RefuseUncertain

LEMMA GrdDoneInv == ASSUME GrdInv, RecoverDone PROVE GrdInv'
<1>0. GrdTrack /\ GrdGuardian /\ grdSup.pc = "finish" /\ grdSup.pc \in GrdWithdraws
  BY GrdBase DEF RecoverDone, GrdWithdraws, GrdDrains
<1>1. grdRec' = [grdRec EXCEPT !.done = TRUE] /\ grdLock' = 0 /\ Acknowledged /\ Settled /\ UNCHANGED <<grdLab, grdHw, grdBcm, grdStolen>>
  BY DEF RecoverDone, grdHard
<1>2. grdHw.redirect = {} /\ ~grdHw.session /\ ~grdHw.table /\ grdRec.left = 0 /\ ~grdRec.pending /\ ~grdRec.deleting /\ grdBcm = <<>>
  BY <1>0 DEF GrdGuardian, GrdDrains
<1>3. grdHw.rules = {} BY <1>0, <1>2, GrdTypes DEF GrdTrack
<1>4. GrdEmpty' BY <1>1, <1>2, <1>3 DEF GrdEmpty
<1>5. grdRec' \in GrdRecords /\ grdRec'.epoch = grdRec.epoch /\ grdRec'.left = grdRec.left /\ ~grdRec'.deleting
  BY <1>1, <1>2, GrdTypes DEF GrdRecords
<1>6. grdLock' \in 0 .. GrdSup BY <1>1, GrdUnlocked
<1> QED BY <1>0, <1>1, <1>2, <1>4, <1>5, <1>6, GrdAcks

LEMMA GrdDeleteInv == ASSUME GrdInv, DeleteRule PROVE GrdInv'
<1> DEFINE k == grdSup.k
<1>0. GrdTrack /\ GrdGuardian /\ grdSup.pc \in {"mark", "delete", "deleted"} BY GrdBase DEF DeleteRule
<1>1. grdRec.ex /\ ~grdRec.done /\ grdHw.redirect = {} /\ ~GrdQueued("enable") /\ ~grdHw.session /\ ~grdHw.table
      /\ k = grdRec.left /\ ~grdRec.pending /\ k \in GrdTwo /\ grdReport.phase # "drained" /\ grdSup.pc \in GrdWithdraws
  BY <1>0 DEF GrdGuardian, GrdTrack, GrdWithdraws, GrdDrains
<1>2. UNCHANGED <<grdStarted, grdOwn, grdGroups, grdReport, grdHw, grdLab, grdLock, grdStolen, grdFaults>>
  BY DEF DeleteRule, SupSend, Settled, grdJournals, grdHard
<1>3. grdHw' \in GrdHardware /\ grdLab' \in GrdLabs /\ grdLock' \in 0 .. GrdSup /\ grdStolen' \in BOOLEAN /\ grdFaults' \in Nat
      /\ grdReport' \in [phase : GrdPhases, group : GrdRun \cup {0}] /\ grdGroups' \subseteq grdGroups
  BY <1>2, GrdTypes, GrdBase
<1>4. {"mark", "delete", "deleted", "finish"} \subseteq GrdSupPc \cap GrdWithdraws BY DEF GrdSupPc, GrdWithdraws, GrdDrains
<1>5. CASE /\ grdSup.pc = "mark" /\ grdRec' = [grdRec EXCEPT !.deleting = TRUE] /\ grdSup' = [grdSup EXCEPT !.pc = "delete"]
           /\ UNCHANGED grdBcm
  <2>1. grdSup'.pc = "delete" /\ grdSup'.k = k /\ grdSup'.why = grdSup.why /\ grdSup' \in [pc : GrdSupPc, why : {"startup", "final"}, k : 0 .. 2]
    BY <1>4, <1>5, GrdSupKeepsK
  <2>2. grdRec' \in GrdRecords BY <1>5, GrdTypes DEF GrdRecords
  <2>3. grdRec'.ex = grdRec.ex /\ grdRec'.epoch = grdRec.epoch /\ grdRec'.touched = grdRec.touched /\ grdRec'.left = grdRec.left
        /\ grdRec'.pending = grdRec.pending /\ grdRec'.done = grdRec.done /\ grdRec'.deleting
    BY <1>5, GrdTypes DEF GrdRecords
  <2>4. grdBcm = <<>> /\ ~grdRec.deleting BY <1>0, <1>1, <1>5 DEF GrdGuardian, GrdDrains
  <2>5. (GrdSame' <=> GrdSame) /\ (GrdQueued("enable")' <=> GrdQueued("enable")) BY <1>2, <1>5, <2>3 DEF GrdSame, GrdQueued
  <2>6. GrdSame => k \in grdHw.rules BY <1>0, <1>1, <2>4 DEF GrdTrack
  <2>7. GrdTrack' BY <1>0, <1>1, <1>2, <1>5, <2>3, <2>4, <2>5 DEF GrdTrack
  <2>8. GrdGuardian' BY <1>1, <1>2, <1>5, <2>1, <2>3, <2>4, <2>5, <2>6 DEF GrdGuardian, GrdWithdraws, GrdDrains
  <2>9. grdBcm' \in Seq(GrdRequests) /\ grdSup'.pc \in GrdWithdraws BY <1>4, <1>5, <2>1, GrdTypes
  <2> HIDE DEF k
  <2> QED BY <1>1, <1>2, <1>3, <2>1, <2>2, <2>7, <2>8, <2>9, GrdWithdrawMoves
<1>6. CASE grdSup.pc = "delete" /\ SupSend("deleted", "delete") /\ UNCHANGED grdRec
  <2> DEFINE q == [op |-> "delete", i |-> k]
  <2>1. grdSup' = [grdSup EXCEPT !.pc = "deleted"] /\ grdBcm' = Append(grdBcm, q) BY <1>6 DEF SupSend
  <2>2. grdSup'.pc = "deleted" /\ grdSup'.k = k /\ grdSup'.why = grdSup.why /\ grdSup' \in [pc : GrdSupPc, why : {"startup", "final"}, k : 0 .. 2]
    BY <1>4, <2>1, GrdSupKeepsK
  <2>3. grdRec.deleting /\ grdBcm = <<>> /\ (GrdSame => k \in grdHw.rules) BY <1>0, <1>6 DEF GrdGuardian
  <2>4. q \in GrdRequests /\ q.op = "delete" /\ q.i = k BY <1>1 DEF GrdRequests, GrdOps
  <2>5. grdBcm' = <<q>> /\ Len(grdBcm') = 1 /\ grdBcm'[1] = q /\ grdBcm' # <<>> /\ grdBcm' \in Seq(GrdRequests)
    <3> HIDE DEF q
    <3>1. grdBcm' = <<q>> BY <2>1, <2>3
    <3> QED BY <2>4, <3>1
  <2>6. (GrdSame' <=> GrdSame) /\ ~GrdQueued("enable")' BY <1>2, <1>6, <2>4, <2>5 DEF GrdSame, GrdQueued
  <2>7. GrdTrack'
    <3> HIDE DEF q
    <3> QED BY <1>0, <1>1, <1>2, <1>6, <2>3, <2>4, <2>5, <2>6 DEF GrdTrack
  <2>8. GrdGuardian' BY <1>1, <1>2, <1>6, <2>2, <2>3, <2>5, <2>6 DEF GrdGuardian, GrdWithdraws, GrdDrains
  <2>9. grdRec' \in GrdRecords /\ grdSup'.pc \in GrdWithdraws BY <1>4, <1>6, <2>2, GrdTypes
  <2> HIDE DEF k, q
  <2> QED BY <1>1, <1>2, <1>3, <2>2, <2>5, <2>7, <2>8, <2>9, GrdWithdrawMoves
<1>7. CASE /\ grdSup.pc = "deleted" /\ grdBcm = <<>> /\ grdRec' = [grdRec EXCEPT !.deleting = FALSE, !.left = k - 1]
           /\ grdSup' = [grdSup EXCEPT !.pc = IF k > 1 THEN "mark" ELSE "finish", !.k = k - 1] /\ UNCHANGED grdBcm
  <2> DEFINE to == IF k > 1 THEN "mark" ELSE "finish"
             j == k - 1
  <2>1. to \in GrdSupPc /\ to \in GrdWithdraws /\ j \in 0 .. 2 /\ j \in 0 .. 1 BY <1>1, <1>4
  <2>2. grdSup' = [grdSup EXCEPT !.pc = to, !.k = j] BY <1>7
  <2>3. grdSup'.pc = to /\ grdSup'.k = j /\ grdSup'.why = grdSup.why /\ grdSup' \in [pc : GrdSupPc, why : {"startup", "final"}, k : 0 .. 2]
    BY <2>1, <2>2, GrdSupAt
  <2>4. grdRec' = [grdRec EXCEPT !.deleting = FALSE, !.left = j] BY <1>7
  <2>5. grdRec' \in GrdRecords
    <3> HIDE DEF j
    <3> QED BY <2>1, <2>4, GrdTypes DEF GrdRecords
  <2>6. grdRec'.ex = grdRec.ex /\ grdRec'.epoch = grdRec.epoch /\ grdRec'.touched = grdRec.touched /\ grdRec'.left = j
        /\ grdRec'.pending = grdRec.pending /\ grdRec'.done = grdRec.done /\ ~grdRec'.deleting
    <3> HIDE DEF j
    <3> QED BY <2>4, GrdTypes DEF GrdRecords
  <2>7. k \notin grdHw.rules /\ grdRec.deleting BY <1>0, <1>7 DEF GrdGuardian
  <2>8. (GrdSame' <=> GrdSame) /\ (GrdQueued("enable")' <=> GrdQueued("enable")) BY <1>2, <1>7, <2>6 DEF GrdSame, GrdQueued
  <2>9. \A i \in grdHw.rules : i <= j
    <3>1. \A i \in grdHw.rules : i \in GrdTwo /\ i <= k BY <1>0, <1>1, GrdTypes DEF GrdTrack
    <3> QED BY <1>1, <2>7, <3>1
  <2>10. GrdSame => \A i \in GrdTwo : i <= j => i \in grdHw.rules
    <3>1. \A i \in GrdTwo : i <= j => i < k BY <1>1
    <3> QED BY <1>0, <1>1, <3>1 DEF GrdTrack
  <2>11. GrdTrack'
    <3>1. \A i \in GrdTwo : i < j \/ (i = j /\ ~grdRec'.deleting) => i <= j BY <1>1
    <3> HIDE DEF j
    <3> QED BY <1>0, <1>1, <1>2, <1>7, <2>6, <2>8, <2>9, <2>10, <3>1 DEF GrdTrack
  <2>12. GrdGuardian'
    <3>1. CASE k = 2
      <4>1. grdSup'.pc = "mark" /\ j = 1 BY <2>3, <3>1
      <4> QED BY <1>1, <1>2, <1>7, <2>3, <2>6, <2>8, <4>1 DEF GrdGuardian, GrdWithdraws, GrdDrains
    <3>2. CASE k = 1
      <4>1. grdSup'.pc = "finish" /\ j = 0 BY <2>3, <3>2
      <4> QED BY <1>1, <1>2, <1>7, <2>3, <2>6, <2>8, <4>1 DEF GrdGuardian, GrdWithdraws, GrdDrains
    <3> QED BY <1>1, <3>1, <3>2
  <2>13. grdBcm' \in Seq(GrdRequests) BY <1>7, GrdTypes
  <2> HIDE DEF k, to, j
  <2> QED BY <1>1, <1>2, <1>3, <2>1, <2>3, <2>5, <2>11, <2>12, <2>13, GrdWithdrawMoves
<1> QED BY <1>5, <1>6, <1>7 DEF DeleteRule, grdHard, grdJournals

LEMMA GrdStutters == ASSUME GrdInv, UNCHANGED grdVars PROVE GrdInv'
<1>1. GrdKept /\ grdReport' = grdReport /\ grdSup' = grdSup /\ UNCHANGED <<grdStarted, grdOwn, grdGroups, grdLock, grdFaults>>
  BY DEF grdVars, GrdKept
<1>2. GrdShape' BY <1>1 DEF GrdInv, GrdShape, GrdKept
<1>3. GrdFence' BY <1>1 DEF GrdInv, GrdFence, GrdAlive, Acting
<1>4. GrdTrack' BY <1>1, GrdTrackKept DEF GrdInv
<1>5. (GrdSame' <=> GrdSame) /\ (GrdEmpty' <=> GrdEmpty) /\ (GrdQueued("enable")' <=> GrdQueued("enable"))
  BY <1>1 DEF GrdKept, GrdSame, GrdEmpty, GrdQueued
<1>6. ASSUME NEW n \in GrdRun PROVE GrdOwner(n)'
  <2>1. GrdOwner(n) BY DEF GrdInv
  <2> QED BY <1>1, <1>5, <2>1 DEF GrdOwner, GrdKept
<1>7. GrdGuardian' BY <1>1, <1>5 DEF GrdInv, GrdGuardian, GrdKept
<1> QED BY <1>2, <1>3, <1>4, <1>6, <1>7 DEF GrdInv

LEMMA GrdNextInv == ASSUME GrdInv, [GrdNext]_grdVars PROVE GrdInv'
<1>1. CASE \E n \in GrdRun : OwnerStep(n) \/ Unstuck(n) BY <1>1, GrdOwnerStepInv
<1>2. CASE Recovering
  BY <1>2, GrdCheckInv, GrdRestoreInv, GrdLabRestoreInv, GrdUncertainInv, GrdDeleteInv, GrdDoneInv DEF Recovering
<1>3. CASE Guarding
  BY <1>2, <1>3, GrdStartInv, GrdFenceOldInv, GrdPublishInv, GrdSpawnInv, GrdWatchInv, GrdKillInv DEF Guarding
<1>4. CASE WatchEnds \/ KillTimesOut \/ GuardianDies \/ WithdrawalFails
  BY <1>4, GrdWatchInv, GrdKillTimesOutInv, GrdDiesInv, GrdFailsInv
<1>5. CASE BcmRuns \/ GrdLearn \/ BcmRestarts
  BY <1>5, GrdBcmRunsInv, GrdLearnInv, GrdBcmRestartsInv
<1> QED BY <1>1, <1>3, <1>4, <1>5, GrdStutters DEF GrdNext

\* What journals, hardware and queue agree on is an invariant of the guardian,
\* the owner and the switch daemon together, whoever dies between two steps.
THEOREM GrdInvariance == GrdSpec => []GrdInv
BY GrdInitInv, GrdNextInv, PTL DEF GrdSpec

LEMMA GrdInvSafe == GrdInv => GrdSafe
<1> SUFFICES ASSUME GrdInv PROVE GrdSafe
  OBVIOUS
<1>0. GrdFence /\ GrdTrack BY GrdBase
<1>1. GrdTypeOK
  <2>1. grdReport.phase \in GrdPhases /\ grdReport.group \in GrdRun \cup {0} /\ grdGroups \subseteq GrdRun /\ grdLock \in 0 .. GrdSup
    BY GrdBase
  <2>2. \A n \in GrdRun : grdOwn[n].k \in 0 .. 2 BY GrdBase DEF GrdProcesses
  <2> QED BY <2>1, <2>2, GrdTypes DEF GrdTypeOK, GrdPhases
<1>2. OwnerFenced BY <1>0 DEF OwnerFenced, GrdFence, GrdAlive, GrdUnfenced
<1>3. DrainedIsTrue BY <1>0 DEF DrainedIsTrue, GrdTrack, GrdEmpty
<1>4. RedirectBacked
  <2> SUFFICES ASSUME grdHw.redirect # {}, GrdSame PROVE grdHw.table /\ grdHw.rules = GrdTwo
    BY DEF RedirectBacked, GrdSame
  <2>1. grdRec.left = 2 /\ ~grdRec.deleting /\ grdHw.table BY <1>0 DEF GrdTrack
  <2>2. GrdTwo \subseteq grdHw.rules BY <1>0, <2>1 DEF GrdTrack
  <2> QED BY <2>1, <2>2, GrdTypes
<1>5. DeletedOnce BY <1>0 DEF DeletedOnce, GrdTrack
<1> QED BY <1>1, <1>2, <1>3, <1>4, <1>5 DEF GrdSafe

\* The guardian withdraws what a dead owner left, all of it and only that, with
\* every owner fenced, for every number of starts, deaths and restarts.
THEOREM GuardianSafe == GrdSpec => []GrdSafe
BY GrdInvariance, GrdInvSafe, PTL

-----------------------------------------------------------------------------
\* ---- the owners of the front-port redirects ----

FabAllocating == {"head", "headSet", "headDone", "q1", "alloc1", "done1", "q2", "alloc2", "done2", "verify"}
FabWanFaced == {"fabric", "restore"} \cup FabAllocating
FabAggStarts == {"create", "created", "fwd", "up", "commit"}
FabAggCloses == {"cdown", "clag", "cunfwd", "cdone"}
FabPcOf(o) == {"idle", "fabric"} \cup FabAllocating \cup
  (IF o = "phy" THEN {"look", "intent", "fwd", "up", "down", "unfwd", "commit"}
   ELSE IF o = "wan" THEN {"look", "face", "restore", "intent", "fwd", "unfwd", "commit"}
   ELSE FabAggStarts \cup {"close"} \cup FabAggCloses)
FabPcs == {"idle", "fabric", "look", "face", "restore", "intent", "fwd", "up", "down", "unfwd", "commit", "create",
           "created", "close"} \cup FabAllocating \cup FabAggCloses

FabResource == {"p", "w", "t"}
FabQueueMap == [FabResource -> {"none", "ok"} \cup HalfBuilt]
FabHeaders == {"eth", "ssp"}
FabChips == [header : FabHeaders, q : FabQueueMap, fwd : [FabPort -> BOOLEAN], up : [FabPort -> BOOLEAN],
             lag : {"none", "empty", "full"}, life : Nat]
FabOps == {"start", "stop", "prepare"} \cup WanCleanup
FabBootOrNone == FabBoots \cup {None}
FabRecords == [life : Nat, pending : FabResource \cup {None, "header"}]
PhyRecords == [life : Nat, boot : FabBootOrNone, on : BOOLEAN, pending : {None, "start", "stop"}]
WanRecords == [life : Nat, boot : FabBootOrNone, on : BOOLEAN, pending : FabOps \cup {None, "probe"}, token : BOOLEAN]
AggRecords == [phase : {"stopped", "preparing", "active", "stopping"}, life : Nat, fresh : BOOLEAN,
               created : BOOLEAN, egress : BOOLEAN]
FabSights == {None} \cup [q : FabQueueMap, header : FabHeaders]
FabProcess == [pc : FabPcs, op : FabOps \cup {None, "fabric", "sweep"}, life : Nat, boot : FabBootOrNone,
               before : BOOLEAN, seen : FabSights]

FabShape ==
  /\ fabChip \in FabChips
  /\ fabJ \in FabRecords /\ phyJ \in PhyRecords /\ wanJ \in WanRecords /\ wanTimer \in BOOLEAN /\ aggJ \in AggRecords
  /\ fabProc \in [FabOwner -> FabProcess]
  /\ fabFace \in FabOwner \cup {None} /\ fabLock \in FabOwner \cup {None}
  /\ fabFaults \in 0 .. FabMaxFaults

FabPc(o) == fabProc[o].pc
\* Nobody knows a lifetime of the switch that has not begun.
FabLives ==
  /\ fabChip.life \in 1 .. fabFaults + 1
  /\ fabJ.life <= fabChip.life /\ phyJ.life <= fabChip.life /\ wanJ.life <= fabChip.life /\ aggJ.life <= fabChip.life
  /\ \A o \in FabOwner : fabProc[o].life <= fabChip.life

\* The locks are held exactly where the code holds them: the physical owner and
\* the aggregate keep the faceplate lock as long as they run.
FabHeld ==
  /\ \A o \in FabOwner : FabPc(o) \in FabPcOf(o) /\ (fabLock = o <=> FabPc(o) \in FabAllocating)
  /\ fabFace = "phy" <=> FabPc("phy") # "idle"
  /\ fabFace = "agg" <=> FabPc("agg") # "idle"
  /\ fabFace = "wan" <=> FabPc("wan") \in FabWanFaced

\* What each owner has in its journal while it works, and what of it is done.
FabPhy ==
  LET p == fabProc["phy"]
  IN  /\ p.pc # "idle" => p.op \in {"start", "stop"}
      /\ p.pc \in {"fwd", "up", "down", "unfwd", "commit"} => phyJ.pending = p.op /\ phyJ.life = p.life
      /\ p.pc \in {"fabric", "intent", "fwd", "up"} \cup FabAllocating => p.op = "start"
      /\ p.pc \in {"down", "unfwd"} => p.op = "stop"
      /\ p.pc \in {"up", "commit"} /\ p.op = "start" /\ p.life = fabChip.life => fabChip.fwd["p"]
      /\ p.pc = "commit" /\ p.op = "stop" => ~fabChip.fwd["p"]
FabWan ==
  LET w == fabProc["wan"]
  IN  /\ w.pc # "idle" => w.op \in {"start", "prepare"} \cup WanCleanup
      /\ w.pc \in {"face", "intent", "fwd"} \cup FabWanFaced => w.op \in {"start", "prepare"}
      /\ w.pc = "unfwd" => w.op \in WanCleanup
      /\ w.pc \in {"fwd", "unfwd", "commit"} => wanJ.pending = w.op /\ wanJ.life = w.life
      /\ w.pc = "commit" /\ w.op \in {"start", "prepare"} /\ w.life = fabChip.life => fabChip.fwd["w"]
      /\ w.pc = "commit" /\ w.op \in WanCleanup => ~fabChip.fwd["w"]
FabAgg ==
  LET a == fabProc["agg"]
  IN  /\ a.pc \in FabAggStarts \cup {"close"} \cup FabAggCloses => aggJ.life = a.life
      /\ a.pc \in FabAggStarts => aggJ.phase = "preparing"
      /\ a.pc \in FabAggCloses => aggJ.phase = "stopping"
      /\ a.pc \in {"clag", "cunfwd"} => ~fabChip.fwd["p"] \/ ~fabChip.up["p"]
      /\ a.pc = "cdone" => ~fabChip.fwd["p"]
      /\ a.pc # "idle" => phyJ.life <= a.life
      /\ AggOwns => FabPc("phy") \in {"idle", "look"}
FabCore == FabShape /\ FabLives /\ FabHeld /\ FabPhy /\ FabWan /\ FabAgg /\ RedirectJournaled /\ RecordTrue

\* ---- what the helpers do to the state ----

\* The process of o is at pc; the others are where they were.
FabNow(o, pc) ==
  /\ fabProc' \in [FabOwner -> FabProcess]
  /\ \A x \in FabOwner : x # o => fabProc'[x] = fabProc[x]
  /\ fabProc'[o].pc = pc
  /\ fabProc'[o].life <= fabChip.life
\* It has the operation and the lifetime it began with.
FabMoved(o, pc) ==
  FabNow(o, pc) /\ (pc # "idle" => fabProc'[o].op = fabProc[o].op /\ fabProc'[o].life = fabProc[o].life)

LEMMA FabGotoMoves ==
  ASSUME FabShape, FabLives, NEW o \in FabOwner, NEW pc \in FabPcs, FabGoto(o, pc)
  PROVE  FabMoved(o, pc)
PROOF
<1> DEFINE p == [fabProc[o] EXCEPT !.pc = pc]
<1>1. fabProc[o] \in FabProcess
  BY DEF FabShape
<1>2. p \in FabProcess /\ p.pc = pc /\ p.op = fabProc[o].op /\ p.life = fabProc[o].life
  BY <1>1 DEF FabProcess
<1>3. fabProc' = [fabProc EXCEPT ![o] = p]
  BY DEF FabGoto
<1> HIDE DEF p
<1> QED
  BY <1>2, <1>3 DEF FabMoved, FabNow, FabShape, FabLives

LEMMA FabFinishes ==
  ASSUME FabShape, FabLives, NEW o \in FabOwner, Finish(o)
  PROVE  /\ FabMoved(o, "idle")
         /\ fabFace' = (IF fabFace = o THEN None ELSE fabFace)
         /\ fabLock' = (IF fabLock = o THEN None ELSE fabLock)
PROOF
<1>1. FabIdle \in FabProcess /\ FabIdle.pc = "idle" /\ FabIdle.life = 0
  <2>1. FabIdle.pc \in FabPcs /\ FabIdle.seen \in FabSights /\ FabIdle.boot \in FabBootOrNone
    BY DEF FabIdle, FabPcs, FabSights, FabBootOrNone
  <2> QED
    BY <2>1 DEF FabIdle, FabProcess
<1>2. 0 <= fabChip.life
  BY DEF FabLives, FabShape
<1> QED
  BY <1>1, <1>2 DEF Finish, Drop, FabMoved, FabNow, FabShape

LEMMA FabRedirects ==
  ASSUME FabShape, NEW x \in FabPort, NEW on \in BOOLEAN, Redirect(x, on)
  PROVE  /\ fabChip' \in FabChips
         /\ fabChip'.header = fabChip.header /\ fabChip'.q = fabChip.q /\ fabChip'.up = fabChip.up
         /\ fabChip'.life = fabChip.life
         /\ \A y \in FabPort : fabChip'.fwd[y] = IF y = x THEN on ELSE fabChip.fwd[y]
  BY DEF FabShape, FabChips, Redirect

LEMMA FabAdmins ==
  ASSUME FabShape, NEW x \in FabPort, NEW on \in BOOLEAN, SetAdmin(x, on)
  PROVE  /\ fabChip' \in FabChips
         /\ fabChip'.header = fabChip.header /\ fabChip'.q = fabChip.q /\ fabChip'.fwd = fabChip.fwd
         /\ fabChip'.life = fabChip.life
         /\ \A y \in FabPort : fabChip'.up[y] = IF y = x THEN on ELSE fabChip.up[y]
  BY DEF FabShape, FabChips, SetAdmin

LEMMA FabTrunks ==
  ASSUME FabShape, NEW lag \in {"none", "empty", "full"}, SetTrunk(lag)
  PROVE  /\ fabChip' \in FabChips
         /\ fabChip'.header = fabChip.header /\ fabChip'.q = fabChip.q /\ fabChip'.fwd = fabChip.fwd
         /\ fabChip'.up = fabChip.up /\ fabChip'.life = fabChip.life
  BY DEF FabShape, FabChips, SetTrunk

\* ---- the steps keep FabCore: the physical owner ----

\* While the physical owner is at work the aggregate is not; what is left to
\* show of its step is what it does to its own journal and to its redirect.
LEMMA FabPhyMoves ==
  ASSUME FabCore, NEW pc \in FabPcOf("phy") \ FabAllocating, FabMoved("phy", pc),
         FabPc("phy") \notin {"idle"} \cup FabAllocating,
         UNCHANGED <<fabJ, wanJ, wanTimer, aggJ, fabFaults, fabLock>>,
         fabFace' = (IF pc = "idle" THEN None ELSE fabFace),
         fabChip' \in FabChips, fabChip'.life = fabChip.life, fabChip'.fwd["w"] = fabChip.fwd["w"],
         phyJ' \in PhyRecords, phyJ'.life <= fabChip.life,
         AggOwns => pc = "idle",
         FabPhy', RedirectJournaled', RecordTrue'
  PROVE  FabCore'
PROOF
<1> USE FabNoneAssumption
<1>1. FabShape'
  BY DEF FabCore, FabShape, FabMoved, FabNow, FabOwner
<1>2. FabLives'
  BY DEF FabCore, FabLives, FabMoved, FabNow, FabOwner
<1>3. fabFace = "phy" /\ FabPc("agg") = "idle"
  BY DEF FabCore, FabHeld
<1>4. FabHeld'
  BY <1>3 DEF FabCore, FabHeld, FabMoved, FabNow, FabOwner, FabPc
<1>5. FabWan'
  BY DEF FabCore, FabWan, FabMoved, FabNow, FabOwner
<1>6. FabAgg'
  BY <1>3 DEF FabCore, FabAgg, FabMoved, FabNow, FabOwner, FabPc, AggOwns, FabAggStarts, FabAggCloses
<1> QED
  BY <1>1, <1>2, <1>4, <1>5, <1>6 DEF FabCore

LEMMA FabCorePhyBegin ==
  ASSUME FabCore, NEW op \in {"start", "stop"}, NEW b \in FabBoots, PhyBegin(op, b)
  PROVE  FabCore'
PROOF
<1> USE FabNoneAssumption
<1> DEFINE x == [FabIdle EXCEPT !.pc = "look", !.op = op, !.life = FabEpoch, !.boot = b]
<1>1. x.pc = "look" /\ x.op = op /\ x.life = fabChip.life /\ x \in FabProcess
  BY DEF FabIdle, FabEpoch, FabProcess, FabPcs, FabOps, FabSights, FabBootOrNone, FabCore, FabShape, FabChips
<1>2. fabProc' = [fabProc EXCEPT !["phy"] = x]
  BY DEF PhyBegin
<1> HIDE DEF x
<1>3. /\ fabProc' \in [FabOwner -> FabProcess] /\ fabProc'["phy"] = x
      /\ \A y \in FabOwner : y # "phy" => fabProc'[y] = fabProc[y]
  BY <1>1, <1>2 DEF FabCore, FabShape, FabOwner
<1>4. AtPc("phy", "idle") /\ fabFace = None /\ fabFace' = "phy" /\ UNCHANGED <<fabChip, FabJournals, fabLock, fabFaults>>
  BY DEF PhyBegin
<1>5. FabShape'
  BY <1>3, <1>4 DEF FabCore, FabShape, FabJournals, FabOwner
<1>6. FabLives'
  BY <1>1, <1>3, <1>4 DEF FabCore, FabLives, FabJournals, FabShape, FabChips
<1>7. FabHeld'
  BY <1>1, <1>3, <1>4 DEF FabCore, FabHeld, FabPc, FabPcOf, FabOwner, AtPc, FabAllocating, FabWanFaced
<1>8. FabPhy' /\ FabWan' /\ FabAgg'
  BY <1>1, <1>3, <1>4 DEF FabCore, FabPhy, FabWan, FabAgg, FabOwner, FabJournals, FabPc, AggOwns, FabAllocating
<1>9. RedirectJournaled' /\ RecordTrue'
  BY <1>4 DEF FabCore, RedirectJournaled, RecordTrue, FabJournals, AggOwns
<1> QED
  BY <1>5, <1>6, <1>7, <1>8, <1>9 DEF FabCore

LEMMA FabPhyIntends ==
  ASSUME FabShape, NEW op \in {"start", "stop"}, PhyIntent(op)
  PROVE  /\ phyJ' \in PhyRecords /\ phyJ'.pending = op /\ phyJ'.life = fabProc["phy"].life
         /\ phyJ'.on <=> op = "stop" /\ fabChip.fwd["p"]
PROOF
<1>1. fabProc["phy"] \in FabProcess /\ fabChip.fwd["p"] \in BOOLEAN
  BY DEF FabShape, FabOwner, FabChips, FabPort
<1> QED
  BY <1>1 DEF PhyIntent, PhyRecords, FabProcess

LEMMA FabCorePhyLook == FabCore /\ PhyLook => FabCore'
PROOF
<1> SUFFICES ASSUME FabCore, PhyLook PROVE FabCore'
  OBVIOUS
<1> USE FabNoneAssumption
<1> DEFINE p == fabProc["phy"]
           refused == \/ AggOwns \/ (fabChip.fwd["p"] /\ ~PhyOwned)
                      \/ (p.op = "stop" /\ fabChip.fwd["p"] /\ phyJ.boot # p.boot)
<1>1. /\ FabShape /\ FabLives /\ "phy" \in FabOwner /\ p.pc = "look"
      /\ UNCHANGED <<fabJ, wanJ, wanTimer, aggJ, fabFaults>>
      /\ fabChip \in FabChips /\ p.life <= fabChip.life
  BY DEF PhyLook, AtPc, FabCore, FabShape, FabOwner, FabLives
<1>2. fabFace = "phy" /\ fabLock # "phy" /\ "look" \notin {"idle"} \cup FabAllocating /\ phyJ \in PhyRecords
  BY <1>1 DEF FabCore, FabHeld, FabPc, FabAllocating, FabShape
<1>3. CASE Finish("phy") /\ UNCHANGED <<fabChip, phyJ>>
  <2>1. FabMoved("phy", "idle") /\ fabFace' = None /\ UNCHANGED fabLock
    BY <1>1, <1>2, <1>3, FabFinishes
  <2>2. FabPhy'
    BY <2>1, <1>3 DEF FabPhy, FabMoved, FabNow, FabAllocating
  <2>3. RedirectJournaled' /\ RecordTrue'
    BY <1>1, <1>3 DEF FabCore, RedirectJournaled, RecordTrue, AggOwns
  <2>4. "idle" \in FabPcOf("phy") \ FabAllocating
    BY DEF FabPcOf, FabAllocating
  <2> QED
    BY <1>1, <1>2, <1>3, <2>1, <2>2, <2>3, <2>4, FabPhyMoves DEF FabCore, FabLives, FabPc
<1>4. CASE ~refused /\ p.op = "start" /\ ~fabChip.fwd["p"] /\ Withdraw("phy") /\ UNCHANGED <<Locks, phyJ>>
  <2> DEFINE x == [p EXCEPT !.before = fabChip.up["p"], !.pc = "fabric"]
  <2>1. fabProc' = [fabProc EXCEPT !["phy"] = x] /\ SetAdmin("p", FALSE) /\ "p" \in FabPort
    BY <1>4 DEF Withdraw, PortOf, FabPort
  <2>2. x \in FabProcess /\ x.pc = "fabric" /\ x.op = p.op /\ x.life = p.life
    BY <1>1 DEF FabShape, FabProcess, FabPcs, FabChips, FabPort
  <2> HIDE DEF x
  <2>3. FabMoved("phy", "fabric")
    BY <1>1, <2>1, <2>2 DEF FabMoved, FabNow, FabShape
  <2>4. /\ fabChip' \in FabChips /\ fabChip'.life = fabChip.life /\ fabChip'.fwd = fabChip.fwd
    BY <1>1, <2>1, FabAdmins
  <2>5. FabPhy'
    BY <1>4, <2>2, <2>3, <2>4 DEF FabPhy, FabMoved, FabNow, FabAllocating
  <2>6. RedirectJournaled' /\ RecordTrue'
    BY <1>1, <1>4, <2>4 DEF FabCore, RedirectJournaled, RecordTrue, AggOwns
  <2>7. "fabric" \in FabPcOf("phy") \ FabAllocating /\ "fabric" # "idle" /\ ~AggOwns /\ UNCHANGED <<fabFace, fabLock, phyJ>>
    BY <1>4 DEF FabPcOf, FabAllocating, Locks
  <2> QED
    BY <1>1, <1>2, <2>3, <2>4, <2>5, <2>6, <2>7, FabPhyMoves DEF FabCore, FabLives, FabPc
<1>5. ASSUME NEW op \in {"start", "stop"}, NEW pc \in {"fwd", "down"}, op = p.op, pc = IF op = "start" THEN "fwd" ELSE "down",
             ~refused, PhyIntent(op), FabGoto("phy", pc), UNCHANGED <<fabChip, Locks>>
      PROVE  FabCore'
  <2>1. pc \in FabPcs /\ pc \in FabPcOf("phy") \ FabAllocating /\ pc # "idle"
    BY DEF FabPcs, FabPcOf, FabAllocating
  <2>2. FabMoved("phy", pc)
    BY <1>1, <1>5, <2>1, FabGotoMoves
  <2>3. /\ phyJ' \in PhyRecords /\ phyJ'.pending = op /\ phyJ'.life = p.life
        /\ UNCHANGED <<fabFace, fabLock>> /\ ~AggOwns
    BY <1>1, <1>5, FabPhyIntends DEF Locks
  <2>4. FabPhy'
    BY <1>5, <2>2, <2>3 DEF FabPhy, FabMoved, FabNow, FabAllocating
  <2>5. RedirectJournaled' /\ RecordTrue'
    BY <1>1, <1>5, <2>3 DEF FabCore, RedirectJournaled, RecordTrue, AggOwns
  <2> QED
    BY <1>1, <1>2, <1>5, <2>1, <2>2, <2>3, <2>4, <2>5, FabPhyMoves DEF FabPc
<1>6. p.op \in {"start", "stop"}
  BY <1>1 DEF FabCore, FabPhy
<1> QED
  BY <1>3, <1>4, <1>5, <1>6 DEF PhyLook

LEMMA FabCorePhySteps == FabCore /\ (PhyStart \/ PhyStop \/ PhyCommit) => FabCore'
PROOF
<1> SUFFICES ASSUME FabCore, PhyStart \/ PhyStop \/ PhyCommit PROVE FabCore'
  OBVIOUS
<1> USE FabNoneAssumption
<1> DEFINE p == fabProc["phy"]
<1>1. /\ FabShape /\ FabLives /\ "phy" \in FabOwner /\ "p" \in FabPort /\ "w" \in FabPort
      /\ UNCHANGED <<fabJ, wanJ, wanTimer, aggJ, fabFaults>>
      /\ fabChip \in FabChips /\ p.life <= fabChip.life /\ phyJ \in PhyRecords
      /\ p.pc \in {"intent", "fwd", "up", "down", "unfwd", "commit"}
  BY DEF PhyStart, PhyStop, PhyCommit, FabJournals, AtPc, FabCore, FabShape, FabOwner, FabLives, FabPort
<1>2. /\ fabFace = "phy" /\ fabLock # "phy" /\ p.pc \notin {"idle"} \cup FabAllocating
      /\ ~AggOwns
  BY <1>1 DEF FabCore, FabHeld, FabPc, FabAllocating, FabAgg
\* A step that leaves the owner at pc.
<1>3. ASSUME NEW pc \in {"idle", "fwd", "up", "unfwd", "commit"}, FabMoved("phy", pc),
             fabLock' = fabLock, fabFace' = (IF pc = "idle" THEN None ELSE fabFace),
             fabChip' \in FabChips, fabChip'.life = fabChip.life, fabChip'.fwd["w"] = fabChip.fwd["w"],
             phyJ' \in PhyRecords, phyJ'.life \in {phyJ.life, p.life},
             FabPhy', RedirectJournaled', RecordTrue'
      PROVE  FabCore'
  <2>1. pc \in FabPcOf("phy") \ FabAllocating
    BY DEF FabPcOf, FabAllocating
  <2>2. phyJ'.life <= fabChip.life
    BY <1>1, <1>3 DEF FabLives
  <2> QED
    BY <1>1, <1>2, <1>3, <2>1, <2>2, FabPhyMoves DEF FabPc
<1>4. ASSUME NEW pc \in {"fwd", "up", "unfwd", "commit"}, FabGoto("phy", pc)
      PROVE  FabMoved("phy", pc)
  BY <1>1, <1>4, FabGotoMoves DEF FabPcs
<1>5. ASSUME Finish("phy")
      PROVE  FabMoved("phy", "idle") /\ fabFace' = None /\ UNCHANGED fabLock
  BY <1>1, <1>2, <1>5, FabFinishes
<1>6. CASE AtPc("phy", "intent") /\ PhyStart
  <2>1. UNCHANGED fabChip
    BY <1>6 DEF PhyStart, AtPc
  <2>2. CASE Fenced("phy")
    <3>1. PhyIntent("start") /\ FabGoto("phy", "fwd") /\ UNCHANGED Locks
      BY <1>6, <2>2 DEF PhyStart, AtPc
    <3>2. /\ phyJ' \in PhyRecords /\ phyJ'.pending = "start" /\ phyJ'.life = p.life
      BY <1>1, <3>1, FabPhyIntends
    <3>3. FabMoved("phy", "fwd") /\ p.op = "start"
      BY <1>4, <1>6, <3>1 DEF FabCore, FabPhy, AtPc
    <3>4. FabPhy'
      BY <3>2, <3>3 DEF FabPhy, FabMoved, FabNow, FabAllocating
    <3>5. RedirectJournaled' /\ RecordTrue'
      BY <1>1, <2>1, <3>2 DEF FabCore, RedirectJournaled, RecordTrue, AggOwns
    <3> QED
      BY <1>1, <1>3, <2>1, <3>1, <3>2, <3>3, <3>4, <3>5 DEF Locks
  <2>3. CASE ~Fenced("phy")
    <3>1. Finish("phy") /\ UNCHANGED phyJ
      BY <1>6, <2>3 DEF PhyStart, AtPc
    <3>2. FabMoved("phy", "idle") /\ fabFace' = None /\ UNCHANGED fabLock
      BY <1>5, <3>1
    <3>3. FabPhy' /\ RedirectJournaled' /\ RecordTrue'
      BY <1>1, <2>1, <3>1, <3>2 DEF FabCore, FabPhy, FabMoved, FabNow, FabAllocating, RedirectJournaled, RecordTrue, AggOwns
    <3> QED
      BY <1>1, <1>3, <2>1, <3>1, <3>2, <3>3
  <2> QED
    BY <2>2, <2>3
<1>7. CASE AtPc("phy", "fwd") /\ PhyStart
  <2>1. phyJ' = phyJ /\ phyJ.pending = "start" /\ p.op = "start" /\ phyJ.life = p.life
    BY <1>7 DEF PhyStart, AtPc, FabJournals, FabCore, FabPhy
  <2>2. CASE Redirect("p", TRUE) /\ FabGoto("phy", "up") /\ UNCHANGED Locks
    <3>1. /\ fabChip' \in FabChips /\ fabChip'.life = fabChip.life /\ fabChip'.fwd["w"] = fabChip.fwd["w"]
          /\ fabChip'.fwd["p"]
      BY <1>1, <2>2, FabRedirects
    <3>2. FabMoved("phy", "up")
      BY <1>4, <2>2
    <3>3. FabPhy' /\ RedirectJournaled' /\ RecordTrue'
      BY <1>1, <2>1, <3>1, <3>2 DEF FabCore, FabPhy, FabMoved, FabNow, FabAllocating, RedirectJournaled, RecordTrue, AggOwns
    <3> QED
      BY <1>1, <1>3, <2>1, <2>2, <3>1, <3>2, <3>3 DEF Locks
  <2>3. CASE Finish("phy") /\ UNCHANGED fabChip
    <3>1. FabMoved("phy", "idle") /\ fabFace' = None /\ UNCHANGED fabLock
      BY <1>5, <2>3
    <3>2. FabPhy' /\ RedirectJournaled' /\ RecordTrue'
      BY <1>1, <2>1, <2>3, <3>1 DEF FabCore, FabPhy, FabMoved, FabNow, FabAllocating, RedirectJournaled, RecordTrue, AggOwns
    <3> QED
      BY <1>1, <1>3, <2>1, <2>3, <3>1, <3>2
  <2> QED
    BY <1>7, <2>2, <2>3 DEF PhyStart, AtPc
<1>8. ASSUME NEW on \in BOOLEAN, NEW pc \in {"unfwd", "commit"}, SetAdmin("p", on), FabGoto("phy", pc),
             UNCHANGED <<FabJournals, Locks>>, FabMoved("phy", pc) => FabPhy'
      PROVE  FabCore'
  <2>1. fabChip' \in FabChips /\ fabChip'.life = fabChip.life /\ fabChip'.fwd = fabChip.fwd
    BY <1>1, <1>8, FabAdmins
  <2>2. FabMoved("phy", pc) /\ phyJ' = phyJ
    BY <1>4, <1>8 DEF FabJournals
  <2>3. RedirectJournaled' /\ RecordTrue'
    BY <1>1, <2>1, <2>2 DEF FabCore, RedirectJournaled, RecordTrue, AggOwns
  <2> QED
    BY <1>1, <1>3, <1>8, <2>1, <2>2, <2>3 DEF Locks
<1>9. CASE AtPc("phy", "up") /\ PhyStart
  <2> DEFINE on == p.before \/ fabChip.up["p"]
  <2>1. SetAdmin("p", on) /\ FabGoto("phy", "commit") /\ UNCHANGED <<FabJournals, Locks>> /\ on \in BOOLEAN
    BY <1>1, <1>9 DEF PhyStart, AtPc, FabShape, FabProcess, FabChips
  <2> HIDE DEF on
  <2>2. fabChip'.life = fabChip.life /\ fabChip'.fwd = fabChip.fwd /\ phyJ' = phyJ
    BY <1>1, <2>1, FabAdmins DEF FabJournals
  <2>3. FabMoved("phy", "commit") => FabPhy'
    BY <1>9, <2>2 DEF FabCore, FabPhy, FabMoved, FabNow, FabAllocating, AtPc
  <2> QED
    BY <1>8, <2>1, <2>3
<1>10. CASE AtPc("phy", "down") /\ PhyStop
  <2>1. SetAdmin("p", FALSE) /\ FabGoto("phy", "unfwd") /\ UNCHANGED <<FabJournals, Locks>>
    BY <1>10 DEF PhyStop, AtPc
  <2>2. fabChip'.life = fabChip.life /\ fabChip'.fwd = fabChip.fwd /\ phyJ' = phyJ
    BY <1>1, <2>1, FabAdmins DEF FabJournals
  <2>3. FabMoved("phy", "unfwd") => FabPhy'
    BY <1>10, <2>2 DEF FabCore, FabPhy, FabMoved, FabNow, FabAllocating, AtPc
  <2> QED
    BY <1>8, <2>1, <2>3
<1>11. CASE AtPc("phy", "unfwd") /\ PhyStop
  <2>1. Redirect("p", FALSE) /\ FabGoto("phy", "commit") /\ UNCHANGED <<FabJournals, Locks>>
    BY <1>11 DEF PhyStop, AtPc
  <2>2. /\ fabChip' \in FabChips /\ fabChip'.life = fabChip.life /\ fabChip'.fwd["w"] = fabChip.fwd["w"]
        /\ ~fabChip'.fwd["p"]
    BY <1>1, <2>1, FabRedirects
  <2>3. FabMoved("phy", "commit") /\ phyJ' = phyJ /\ phyJ.pending = "stop" /\ p.op = "stop" /\ phyJ.life = p.life
    BY <1>4, <1>11, <2>1 DEF FabJournals, FabCore, FabPhy, AtPc
  <2>4. FabPhy' /\ RedirectJournaled' /\ RecordTrue'
    BY <1>1, <2>2, <2>3 DEF FabCore, FabPhy, FabMoved, FabNow, FabAllocating, RedirectJournaled, RecordTrue, AggOwns
  <2> QED
    BY <1>1, <1>3, <2>1, <2>2, <2>3, <2>4 DEF Locks
<1>12. CASE PhyCommit
  <2>1. /\ p.pc = "commit" /\ Finish("phy") /\ UNCHANGED fabChip
        /\ phyJ' = IF Fenced("phy") THEN [phyJ EXCEPT !.on = p.op = "start", !.pending = None] ELSE phyJ
    BY <1>12 DEF PhyCommit, AtPc
  <2>2. FabMoved("phy", "idle") /\ fabFace' = None /\ UNCHANGED fabLock
    BY <1>5, <2>1
  <2>3. phyJ.pending = p.op /\ p.op \in {"start", "stop"} /\ phyJ.life = p.life
    BY <2>1 DEF FabCore, FabPhy
  <2>4. /\ phyJ' \in PhyRecords /\ phyJ'.life = phyJ.life
        /\ IF Fenced("phy") THEN (phyJ'.on <=> p.op = "start") /\ phyJ'.pending = None ELSE phyJ' = phyJ
    BY <1>1, <2>1 DEF PhyRecords
  <2>5. FabPhy'
    BY <2>2 DEF FabPhy, FabMoved, FabNow, FabAllocating
  <2>6. p.op = "start" /\ Fenced("phy") => fabChip.fwd["p"]
    BY <2>1 DEF FabCore, FabPhy, Fenced, FabEpoch
  <2>7. p.op = "stop" => ~fabChip.fwd["p"]
    BY <2>1 DEF FabCore, FabPhy
  <2>8. RedirectJournaled'
    BY <1>1, <2>1, <2>3, <2>4, <2>7 DEF FabCore, RedirectJournaled, AggOwns
  <2>9. RecordTrue'
    BY <1>1, <2>1, <2>3, <2>4, <2>6 DEF FabCore, RecordTrue
  <2> QED
    BY <1>1, <1>3, <2>1, <2>2, <2>4, <2>5, <2>8, <2>9
<1> QED
  BY <1>6, <1>7, <1>9, <1>10, <1>11, <1>12 DEF PhyStart, PhyStop

\* An owner that begins is at pc, in the lifetime of the switch it reads.
LEMMA FabBegins ==
  ASSUME FabShape, NEW o \in FabOwner, NEW pc \in FabPcs, NEW op \in FabOps \cup {"fabric", "sweep"},
         NEW b \in FabBootOrNone, NEW x,
         \/ x = [FabIdle EXCEPT !.pc = pc, !.op = op, !.life = FabEpoch, !.boot = b]
         \/ x = [FabIdle EXCEPT !.pc = pc, !.op = op, !.life = FabEpoch],
         fabProc' = [fabProc EXCEPT ![o] = x]
  PROVE  FabNow(o, pc) /\ fabProc'[o].op = op /\ fabProc'[o].life = fabChip.life
PROOF
<1>1. FabEpoch \in Nat /\ FabEpoch = fabChip.life
  BY DEF FabShape, FabChips, FabEpoch
<1>2. FabIdle \in FabProcess
  <2>1. FabIdle.pc \in FabPcs /\ FabIdle.seen \in FabSights /\ FabIdle.boot \in FabBootOrNone
    BY DEF FabIdle, FabPcs, FabSights, FabBootOrNone
  <2> QED
    BY <2>1 DEF FabIdle, FabProcess
<1>3. x.pc = pc /\ x.op = op /\ x.life = FabEpoch /\ x \in FabProcess
  BY <1>1, <1>2 DEF FabProcess
<1>4. x.life <= fabChip.life
  BY <1>1, <1>3
<1>5. fabProc'[o] = x /\ fabProc' \in [FabOwner -> FabProcess]
  BY <1>3 DEF FabShape
<1> QED
  BY <1>1, <1>3, <1>4, <1>5 DEF FabShape, FabNow

\* ---- the WAN owner ----

LEMMA FabWanMoves ==
  ASSUME FabCore, NEW pc \in FabPcOf("wan") \ FabAllocating, FabNow("wan", pc), FabPc("wan") \notin FabAllocating,
         UNCHANGED <<fabJ, phyJ, aggJ, fabFaults, fabLock>>, wanTimer' \in BOOLEAN,
         fabFace' = (IF pc \in FabWanFaced THEN "wan" ELSE IF fabFace = "wan" THEN None ELSE fabFace),
         pc \in FabWanFaced => fabFace \in {None, "wan"},
         fabChip' \in FabChips, fabChip'.life = fabChip.life,
         fabChip'.fwd["p"] = fabChip.fwd["p"], fabChip'.up["p"] = fabChip.up["p"],
         wanJ' \in WanRecords, wanJ'.life <= fabChip.life,
         FabWan', RedirectJournaled', RecordTrue'
  PROVE  FabCore'
PROOF
<1> USE FabNoneAssumption
<1>1. FabShape'
  BY DEF FabCore, FabShape, FabNow, FabOwner
<1>2. FabLives'
  BY DEF FabCore, FabLives, FabNow, FabOwner
<1>3. FabHeld'
  BY DEF FabCore, FabHeld, FabNow, FabOwner, FabPc
<1>4. FabPhy'
  BY DEF FabCore, FabPhy, FabNow, FabOwner
<1>5. FabAgg'
  BY DEF FabCore, FabAgg, FabNow, FabOwner, FabPc, AggOwns
<1> QED
  BY <1>1, <1>2, <1>3, <1>4, <1>5 DEF FabCore

\* What the WAN owner writes into its journal.
LEMMA FabWanWrites ==
  ASSUME FabShape, NEW on \in BOOLEAN, NEW pending \in FabOps \cup {None, "probe"}, NEW b \in FabBootOrNone,
         NEW token \in BOOLEAN, WanWrite(on, pending, b, token)
  PROVE  /\ wanJ' \in WanRecords /\ wanJ'.on = on /\ wanJ'.pending = pending
         /\ wanJ'.life = fabProc["wan"].life
PROOF
<1>1. fabProc["wan"] \in FabProcess
  BY DEF FabShape, FabOwner
<1> QED
  BY <1>1 DEF WanWrite, WanRecords, FabProcess

LEMMA FabCoreWanBegin ==
  ASSUME FabCore, NEW op \in {"start", "prepare"} \cup WanCleanup, NEW b \in FabBootOrNone, WanBegin(op, b)
  PROVE  FabCore'
PROOF
<1> USE FabNoneAssumption
<1>1. AtPc("wan", "idle") /\ UNCHANGED <<fabChip, FabJournals, Locks, fabFaults>>
  BY DEF WanBegin
<1>2. FabNow("wan", "look") /\ fabProc'["wan"].op = op /\ fabProc'["wan"].life = fabChip.life
  BY FabBegins DEF FabCore, WanBegin, FabOwner, FabPcs, FabOps
<1>3. FabPc("wan") = "idle" /\ "look" \notin FabWanFaced /\ fabFace # "wan" /\ "idle" \notin FabAllocating
  BY <1>1 DEF FabCore, FabHeld, FabPc, AtPc, FabWanFaced, FabAllocating
<1>4. "look" \in FabPcOf("wan") \ FabAllocating
  BY DEF FabPcOf, FabAllocating
<1>5. FabWan'
  BY <1>2, <1>4 DEF FabWan, FabNow, FabWanFaced, FabAllocating
<1>6. RedirectJournaled' /\ RecordTrue'
  BY <1>1 DEF FabCore, RedirectJournaled, RecordTrue, FabJournals, AggOwns
<1> QED
  BY <1>1, <1>2, <1>3, <1>4, <1>5, <1>6, FabWanMoves DEF FabCore, FabShape, FabLives, FabJournals, Locks

LEMMA FabCoreWanTimerEnds == FabCore /\ WanTimerEnds => FabCore'
PROOF
<1> SUFFICES ASSUME FabCore, WanTimerEnds PROVE FabCore'
  OBVIOUS
<1>1. /\ UNCHANGED <<fabChip, fabJ, phyJ, wanJ, aggJ, fabFace, fabLock, fabProc, fabFaults>>
      /\ wanTimer' \in BOOLEAN
  BY DEF WanTimerEnds, Locks
<1>2. FabShape' /\ FabLives' /\ FabHeld'
  BY <1>1 DEF FabCore, FabShape, FabLives, FabHeld, FabPc
<1>3. FabPhy' /\ FabWan' /\ FabAgg'
  BY <1>1 DEF FabCore, FabPhy, FabWan, FabAgg, AggOwns, FabPc
<1>4. RedirectJournaled' /\ RecordTrue'
  BY <1>1 DEF FabCore, RedirectJournaled, RecordTrue, AggOwns
<1> QED
  BY <1>2, <1>3, <1>4 DEF FabCore

LEMMA FabCoreWanSteps == FabCore /\ (WanLook \/ WanPrepareFabric \/ WanStart \/ WanStop \/ WanCommit) => FabCore'
PROOF
<1> SUFFICES ASSUME FabCore, WanLook \/ WanPrepareFabric \/ WanStart \/ WanStop \/ WanCommit PROVE FabCore'
  OBVIOUS
<1> USE FabNoneAssumption
<1> DEFINE w == fabProc["wan"]
<1>1. /\ FabShape /\ FabLives /\ "wan" \in FabOwner /\ "p" \in FabPort /\ "w" \in FabPort
      /\ UNCHANGED <<fabJ, phyJ, aggJ, fabFaults>>
      /\ fabChip \in FabChips /\ w.life <= fabChip.life /\ wanJ \in WanRecords /\ wanJ.life <= fabChip.life
      /\ w.pc \in {"look", "face", "restore", "intent", "fwd", "unfwd", "commit"}
      /\ wanTimer \in BOOLEAN /\ w \in FabProcess
  BY DEF WanLook, WanPrepareFabric, WanStart, WanStop, WanCommit, FabJournals, AtPc, FabCore, FabShape, FabOwner, FabLives, FabPort
<1>2. /\ w.pc \notin FabAllocating /\ fabLock # "wan" /\ w.op \in {"start", "prepare"} \cup WanCleanup
      /\ fabFace = "wan" <=> w.pc = "restore"
  BY <1>1 DEF FabCore, FabHeld, FabPc, FabAllocating, FabWanFaced, FabWan
\* A step that leaves the owner at pc.
<1>3. ASSUME NEW pc \in {"idle", "face", "intent", "fwd", "unfwd", "commit"}, FabMoved("wan", pc),
             fabLock' = fabLock, fabFace' = (IF fabFace = "wan" THEN None ELSE fabFace), wanTimer' \in BOOLEAN,
             fabChip' \in FabChips, fabChip'.life = fabChip.life,
             fabChip'.fwd["p"] = fabChip.fwd["p"], fabChip'.up["p"] = fabChip.up["p"],
             wanJ' \in WanRecords, wanJ'.life \in {wanJ.life, w.life},
             FabWan', RedirectJournaled', RecordTrue'
      PROVE  FabCore'
  <2>1. pc \in FabPcOf("wan") \ FabAllocating /\ pc \notin FabWanFaced
    BY DEF FabPcOf, FabAllocating, FabWanFaced
  <2>2. wanJ'.life <= fabChip.life
    BY <1>1, <1>3
  <2> QED
    BY <1>1, <1>2, <1>3, <2>1, <2>2, FabWanMoves DEF FabMoved, FabPc
<1>4. ASSUME NEW pc \in {"face", "intent", "fwd", "unfwd", "commit"}, FabGoto("wan", pc)
      PROVE  FabMoved("wan", pc)
  BY <1>1, <1>4, FabGotoMoves DEF FabPcs
<1>5. ASSUME Finish("wan")
      PROVE  FabMoved("wan", "idle") /\ fabFace' = (IF fabFace = "wan" THEN None ELSE fabFace) /\ UNCHANGED fabLock
  BY <1>1, <1>2, <1>5, FabFinishes
<1>6. ASSUME Finish("wan"), UNCHANGED <<fabChip, wanJ, wanTimer>>
      PROVE  FabCore'
  <2>1. FabWan'
    BY <1>5, <1>6 DEF FabWan, FabMoved, FabNow, FabWanFaced, FabAllocating
  <2>2. RedirectJournaled' /\ RecordTrue'
    BY <1>1, <1>6 DEF FabCore, RedirectJournaled, RecordTrue, AggOwns
  <2> QED
    BY <1>1, <1>3, <1>5, <1>6, <2>1, <2>2
<1>7. ASSUME w.pc # "restore", UNCHANGED Locks
      PROVE  fabLock' = fabLock /\ fabFace' = (IF fabFace = "wan" THEN None ELSE fabFace)
  BY <1>2, <1>7 DEF Locks
<1>8. CASE WanLook
  <2>1. w.pc = "look" /\ UNCHANGED fabChip
    BY <1>8 DEF WanLook, AtPc
  <2>2. CASE /\ WanAllows(w.op) /\ w.op = "recover" /\ wanJ.life # w.life
             /\ WanWrite(FALSE, None, None, FALSE) /\ Finish("wan") /\ UNCHANGED wanTimer
    <3>1. ~fabChip.fwd["w"]
      BY <2>2 DEF WanAllows
    <3>2. wanJ' \in WanRecords /\ wanJ'.on = FALSE /\ wanJ'.pending = None /\ wanJ'.life = w.life
      BY <1>1, <2>2, FabWanWrites DEF FabBootOrNone
    <3>3. FabWan'
      BY <1>5, <2>2 DEF FabWan, FabMoved, FabNow, FabWanFaced, FabAllocating
    <3>4. RedirectJournaled' /\ RecordTrue'
      BY <1>1, <2>1, <3>1, <3>2 DEF FabCore, RedirectJournaled, RecordTrue, AggOwns
    <3> QED
      BY <1>1, <1>3, <1>5, <2>1, <2>2, <3>2, <3>3, <3>4
  <2>3. CASE /\ w.op \in WanCleanup /\ wanJ.life = w.life
             /\ wanJ' = [wanJ EXCEPT !.pending = w.op] /\ FabGoto("wan", "unfwd") /\ UNCHANGED <<Locks, wanTimer>>
    <3>1. /\ wanJ' \in WanRecords /\ wanJ'.pending = w.op /\ wanJ'.life = wanJ.life /\ wanJ'.on = wanJ.on
          /\ w.op # None
      BY <1>1, <2>3 DEF WanRecords, FabOps, WanCleanup
    <3>2. FabMoved("wan", "unfwd")
      BY <1>4, <2>3
    <3>3. FabWan'
      BY <2>3, <3>1, <3>2 DEF FabWan, FabMoved, FabNow, FabWanFaced, FabAllocating
    <3>4. RedirectJournaled' /\ RecordTrue'
      BY <1>1, <2>1, <3>1 DEF FabCore, RedirectJournaled, RecordTrue, AggOwns
    <3> QED
      BY <1>1, <1>3, <1>7, <2>1, <2>3, <3>1, <3>2, <3>3, <3>4
  <2>4. ASSUME NEW pc \in {"intent", "face"}, w.op \in {"start", "prepare"}, FabGoto("wan", pc),
               UNCHANGED <<Locks, wanJ, wanTimer>>
        PROVE  FabCore'
    <3>1. FabMoved("wan", pc)
      BY <1>4, <2>4
    <3>2. FabWan'
      BY <2>4, <3>1 DEF FabWan, FabMoved, FabNow, FabWanFaced, FabAllocating
    <3>3. RedirectJournaled' /\ RecordTrue'
      BY <1>1, <2>1, <2>4 DEF FabCore, RedirectJournaled, RecordTrue, AggOwns
    <3> QED
      BY <1>1, <1>3, <1>7, <2>1, <2>4, <3>1, <3>2, <3>3
  <2> QED
    BY <1>6, <1>8, <2>1, <2>2, <2>3, <2>4 DEF WanLook
<1>9. CASE AtPc("wan", "face") /\ WanPrepareFabric
  <2> DEFINE x == [w EXCEPT !.before = fabChip.up["w"], !.pc = "fabric"]
  <2>1. /\ fabFace = None /\ fabFace' = "wan" /\ UNCHANGED <<FabJournals, fabLock, fabFaults>>
        /\ fabProc' = [fabProc EXCEPT !["wan"] = x] /\ SetAdmin("w", FALSE)
    BY <1>9 DEF WanPrepareFabric, AtPc, Withdraw, PortOf
  <2>2. x \in FabProcess /\ x.pc = "fabric" /\ x.op = w.op /\ x.life = w.life
    BY <1>1 DEF FabProcess, FabPcs, FabChips
  <2> HIDE DEF x
  <2>3. FabMoved("wan", "fabric")
    BY <1>1, <2>1, <2>2 DEF FabMoved, FabNow, FabShape
  <2>4. /\ fabChip' \in FabChips /\ fabChip'.life = fabChip.life /\ fabChip'.fwd = fabChip.fwd
        /\ fabChip'.up["p"] = fabChip.up["p"]
    BY <1>1, <2>1, FabAdmins
  <2>5. w.op \in {"start", "prepare"}
    BY <1>9 DEF FabCore, FabWan, AtPc
  <2>6. FabWan'
    BY <2>3, <2>5 DEF FabWan, FabMoved, FabNow, FabWanFaced, FabAllocating
  <2>7. RedirectJournaled' /\ RecordTrue'
    BY <1>1, <2>1, <2>4 DEF FabCore, RedirectJournaled, RecordTrue, AggOwns, FabJournals
  <2>8. "fabric" \in FabPcOf("wan") \ FabAllocating /\ "fabric" \in FabWanFaced
    BY DEF FabPcOf, FabAllocating, FabWanFaced
  <2> QED
    BY <1>1, <1>2, <2>1, <2>3, <2>4, <2>6, <2>7, <2>8, FabWanMoves DEF FabMoved, FabPc, FabJournals
<1>10. CASE AtPc("wan", "restore") /\ WanPrepareFabric
  <2>1. UNCHANGED <<wanJ, wanTimer>>
    BY <1>10 DEF WanPrepareFabric, AtPc, FabJournals
  <2>2. CASE SetAdmin("w", w.before) /\ FabGoto("wan", "intent") /\ fabFace' = None /\ UNCHANGED fabLock
    <3>1. /\ fabChip' \in FabChips /\ fabChip'.life = fabChip.life /\ fabChip'.fwd = fabChip.fwd
          /\ fabChip'.up["p"] = fabChip.up["p"]
      BY <1>1, <2>2, FabAdmins DEF FabProcess
    <3>2. FabMoved("wan", "intent") /\ fabFace = "wan" /\ w.op \in {"start", "prepare"}
      BY <1>2, <1>4, <1>10, <2>2 DEF AtPc, FabCore, FabWan, FabWanFaced
    <3>3. FabWan'
      BY <3>2 DEF FabWan, FabMoved, FabNow, FabWanFaced, FabAllocating
    <3>4. RedirectJournaled' /\ RecordTrue'
      BY <1>1, <2>1, <3>1 DEF FabCore, RedirectJournaled, RecordTrue, AggOwns
    <3> QED
      BY <1>1, <1>3, <2>1, <2>2, <3>1, <3>2, <3>3, <3>4
  <2> QED
    BY <1>6, <1>10, <2>1, <2>2 DEF WanPrepareFabric, AtPc
<1>11. CASE AtPc("wan", "intent") /\ WanStart
  <2> DEFINE token == w.op = "prepare"
             timer == wanTimer \/ w.op = "prepare"
  <2>1. /\ FabGoto("wan", "fwd") /\ WanWrite(FALSE, w.op, w.boot, token) /\ wanTimer' = timer
        /\ UNCHANGED <<fabChip, Locks>>
    BY <1>11 DEF WanStart, AtPc
  <2>2. w.op \in {"start", "prepare"} /\ w.boot \in FabBootOrNone /\ token \in BOOLEAN /\ timer \in BOOLEAN
    BY <1>1, <1>11 DEF AtPc, FabCore, FabWan, FabProcess
  <2> HIDE DEF token, timer
  <2>3. wanJ' \in WanRecords /\ wanJ'.on = FALSE /\ wanJ'.pending = w.op /\ wanJ'.life = w.life
    BY <1>1, <2>1, <2>2, FabWanWrites DEF FabOps
  <2>4. FabMoved("wan", "fwd")
    BY <1>4, <2>1
  <2>5. FabWan'
    BY <2>2, <2>3, <2>4 DEF FabWan, FabMoved, FabNow, FabWanFaced, FabAllocating
  <2>6. RedirectJournaled' /\ RecordTrue'
    BY <1>1, <2>1, <2>2, <2>3 DEF FabCore, RedirectJournaled, RecordTrue, AggOwns
  <2> QED
    BY <1>1, <1>3, <1>7, <1>11, <2>1, <2>2, <2>3, <2>4, <2>5, <2>6 DEF AtPc
<1>12. ASSUME NEW on \in BOOLEAN, Redirect("w", on), FabGoto("wan", "commit"), UNCHANGED <<FabJournals, Locks>>,
              w.pc \in {"fwd", "unfwd"}, on <=> w.op \in {"start", "prepare"}
       PROVE  FabCore'
  <2>1. /\ fabChip' \in FabChips /\ fabChip'.life = fabChip.life /\ fabChip'.fwd["p"] = fabChip.fwd["p"]
        /\ fabChip'.up = fabChip.up /\ fabChip'.fwd["w"] = on
    BY <1>1, <1>12, FabRedirects
  <2>2. FabMoved("wan", "commit") /\ UNCHANGED <<wanJ, wanTimer>>
    BY <1>4, <1>12 DEF FabJournals
  <2>3. wanJ.pending = w.op /\ wanJ.life = w.life /\ w.op # None
    BY <1>2, <1>12 DEF FabCore, FabWan, WanCleanup
  <2>4. FabWan'
    BY <1>2, <1>12, <2>1, <2>2, <2>3 DEF FabWan, FabMoved, FabNow, FabWanFaced, FabAllocating, WanCleanup
  <2>5. RedirectJournaled' /\ RecordTrue'
    BY <1>1, <2>1, <2>2, <2>3 DEF FabCore, RedirectJournaled, RecordTrue, AggOwns
  <2> QED
    BY <1>1, <1>3, <1>7, <1>12, <2>1, <2>2, <2>4, <2>5
<1>13. CASE AtPc("wan", "fwd") /\ WanStart
  <2>1. \/ Redirect("w", TRUE) /\ FabGoto("wan", "commit") /\ UNCHANGED <<FabJournals, Locks>>
        \/ Finish("wan") /\ UNCHANGED <<fabChip, wanJ, wanTimer>>
    BY <1>13 DEF WanStart, AtPc, FabJournals
  <2>2. w.op \in {"start", "prepare"}
    BY <1>13 DEF AtPc, FabCore, FabWan
  <2> QED
    BY <1>6, <1>12, <1>13, <2>1, <2>2 DEF AtPc
<1>14. CASE WanStop
  <2>1. Redirect("w", FALSE) /\ FabGoto("wan", "commit") /\ UNCHANGED <<FabJournals, Locks>> /\ w.pc = "unfwd"
    BY <1>14 DEF WanStop, AtPc
  <2>2. w.op \notin {"start", "prepare"}
    BY <2>1 DEF FabCore, FabWan, WanCleanup
  <2> QED
    BY <1>12, <2>1, <2>2
<1>15. CASE WanCommit
  <2> DEFINE on == w.op \in {"start", "prepare"}
             pending == IF w.op = "prepare" THEN "probe" ELSE None
  <2>1. /\ w.pc = "commit" /\ Finish("wan") /\ UNCHANGED <<fabChip, wanTimer>>
        /\ wanJ' = IF ~Fenced("wan") THEN wanJ ELSE [wanJ EXCEPT !.on = on, !.pending = pending]
    BY <1>15 DEF WanCommit, AtPc
  <2>2. /\ wanJ.pending = w.op /\ w.op # None /\ wanJ.life = w.life
        /\ on /\ Fenced("wan") => fabChip.fwd["w"]
        /\ ~on => ~fabChip.fwd["w"]
    BY <1>2, <2>1 DEF FabCore, FabWan, WanCleanup, Fenced, FabEpoch
  <2>3. on \in BOOLEAN /\ pending \in {None, "probe"}
    OBVIOUS
  <2> HIDE DEF on, pending
  <2>4. /\ wanJ' \in WanRecords /\ wanJ'.life = wanJ.life
        /\ IF Fenced("wan") THEN (wanJ'.on <=> on) ELSE wanJ' = wanJ
    BY <1>1, <2>1, <2>3 DEF WanRecords
  <2>5. FabWan'
    BY <1>5, <2>1 DEF FabWan, FabMoved, FabNow, FabWanFaced, FabAllocating
  <2>6. RedirectJournaled' /\ RecordTrue'
    BY <1>1, <2>1, <2>2, <2>4 DEF FabCore, RedirectJournaled, RecordTrue, AggOwns, Fenced, FabEpoch
  <2> QED
    BY <1>1, <1>3, <1>5, <2>1, <2>4, <2>5, <2>6
<1> QED
  BY <1>8, <1>9, <1>10, <1>11, <1>13, <1>14, <1>15 DEF WanPrepareFabric, WanStart

\* ---- the aggregate owner ----

LEMMA FabAggMoves ==
  ASSUME FabCore, NEW pc \in FabPcOf("agg") \ FabAllocating, FabNow("agg", pc), FabPc("agg") \notin FabAllocating,
         UNCHANGED <<fabJ, phyJ, wanJ, wanTimer, fabLock>>,
         fabFaults' \in 0 .. FabMaxFaults, fabFaults <= fabFaults',
         fabFace' = (IF pc # "idle" THEN "agg" ELSE IF fabFace = "agg" THEN None ELSE fabFace),
         pc # "idle" => fabFace \in {None, "agg"},
         fabChip' \in FabChips, fabChip'.life = fabChip.life, fabChip'.fwd["w"] = fabChip.fwd["w"],
         fabChip'.fwd["p"] = fabChip.fwd["p"] \/ FabPc("phy") \in {"idle", "look"},
         aggJ' \in AggRecords, aggJ'.life <= fabChip.life,
         FabAgg', RedirectJournaled', RecordTrue'
  PROVE  FabCore'
PROOF
<1> USE FabNoneAssumption
<1>1. FabShape'
  BY DEF FabCore, FabShape, FabNow, FabOwner
<1>2. FabLives'
  BY FabAssumption DEF FabCore, FabLives, FabNow, FabOwner, FabShape, FabChips
<1>3. FabHeld'
  BY DEF FabCore, FabHeld, FabNow, FabOwner, FabPc
<1>4. FabPhy' /\ FabWan'
  BY DEF FabCore, FabPhy, FabWan, FabNow, FabOwner, FabPc, FabAllocating
<1> QED
  BY <1>1, <1>2, <1>3, <1>4 DEF FabCore

\* AggFabric, AggPrepare and AggStop: the faceplate lock is taken.
LEMMA FabAggBegins ==
  ASSUME FabCore, NEW pc \in {"fabric", "create", "close"}, NEW op \in {"fabric", "prepare", "stop", "sweep"},
         AtPc("agg", "idle"), fabFace = None, fabFace' = "agg", AggGo(pc, op),
         UNCHANGED <<fabChip, fabJ, phyJ, wanJ, wanTimer, fabLock, fabFaults>>,
         aggJ' \in AggRecords, pc # "fabric" => aggJ'.life = fabChip.life, pc = "fabric" => aggJ' = aggJ,
         pc = "create" => aggJ'.phase = "preparing", pc = "close" => aggJ' = aggJ,
         RedirectJournaled', RecordTrue'
  PROVE  FabCore'
PROOF
<1> USE FabNoneAssumption
<1>1. fabProc' = [fabProc EXCEPT !["agg"] = [FabIdle EXCEPT !.pc = pc, !.op = op, !.life = FabEpoch]]
  BY DEF AggGo
<1>2. /\ pc \in FabPcs /\ op \in FabOps \cup {"fabric", "sweep"} /\ None \in FabBootOrNone /\ "agg" \in FabOwner
      /\ pc \in FabPcOf("agg") \ FabAllocating /\ "idle" \notin FabAllocating
  BY DEF FabPcs, FabOps, FabBootOrNone, FabOwner, FabPcOf, FabAllocating, FabAggStarts
<1>3. FabNow("agg", pc) /\ fabProc'["agg"].life = fabChip.life
  BY <1>1, <1>2, FabBegins DEF FabCore
<1>4. FabPc("phy") = "idle" /\ phyJ.life <= fabChip.life /\ aggJ.life <= fabChip.life
  BY DEF FabCore, FabHeld, FabLives
<1>5. FabAgg'
  BY <1>3, <1>4 DEF FabCore, FabAgg, FabNow, FabOwner, FabPc, FabAggStarts, FabAggCloses, AggOwns
<1>6. fabChip \in FabChips /\ fabFaults \in 0 .. FabMaxFaults /\ aggJ'.life <= fabChip.life
  BY <1>4 DEF FabCore, FabShape, FabChips
<1> QED
  BY <1>2, <1>3, <1>4, <1>5, <1>6, FabAssumption, FabAggMoves DEF AtPc, FabPc

LEMMA FabCoreAggBegin ==
  ASSUME FabCore, AggFabric \/ AggPrepare \/ AggStop("stop") \/ AggStop("sweep")
  PROVE  FabCore'
PROOF
<1> USE FabNoneAssumption
<1>1. fabChip \in FabChips /\ aggJ \in AggRecords /\ phyJ.life <= fabChip.life
  BY DEF FabCore, FabShape, FabLives
<1>2. CASE AggFabric
  <2>1. RedirectJournaled' /\ RecordTrue'
    BY <1>2 DEF AggFabric, FabCore, RedirectJournaled, RecordTrue, FabJournals, AggOwns
  <2> QED
    BY <1>1, <1>2, <2>1, FabAggBegins DEF AggFabric, FabJournals
<1>3. CASE AggPrepare
  <2>1. /\ aggJ' \in AggRecords /\ aggJ'.phase = "preparing" /\ aggJ'.life = fabChip.life
        /\ ~fabChip.fwd["p"] /\ AggGo("create", "prepare") /\ AtPc("agg", "idle")
        /\ fabFace = None /\ fabFace' = "agg"
        /\ UNCHANGED <<fabChip, fabJ, phyJ, wanJ, wanTimer, fabLock, fabFaults>>
    BY <1>1, <1>3 DEF AggPrepare, AggClaim, AggRecords, FabChips
  <2>2. RedirectJournaled' /\ RecordTrue'
    BY <2>1 DEF FabCore, RedirectJournaled, RecordTrue, AggOwns
  <2> QED
    BY <2>1, <2>2, FabAggBegins
<1>4. ASSUME NEW op \in {"stop", "sweep"}, AggStop(op) PROVE FabCore'
  <2>1. RedirectJournaled' /\ RecordTrue'
    BY <1>4 DEF AggStop, FabCore, RedirectJournaled, RecordTrue, FabJournals, AggOwns
  <2> QED
    BY <1>1, <1>4, <2>1, FabAggBegins DEF AggStop, FabJournals
<1> QED
  BY <1>2, <1>3, <1>4

LEMMA FabCoreAggSteps == FabCore /\ (AggStart \/ AggClose) => FabCore'
PROOF
<1> SUFFICES ASSUME FabCore, AggStart \/ AggClose PROVE FabCore'
  OBVIOUS
<1> USE FabNoneAssumption
<1> DEFINE a == fabProc["agg"]
<1>1. /\ FabShape /\ FabLives /\ "agg" \in FabOwner /\ "p" \in FabPort /\ "w" \in FabPort
      /\ UNCHANGED <<fabJ, phyJ, wanJ, wanTimer, fabFaults>>
      /\ fabChip \in FabChips /\ aggJ \in AggRecords /\ aggJ.life <= fabChip.life
      /\ a.pc \in FabAggStarts \cup {"close"} \cup FabAggCloses
      /\ fabFaults \in 0 .. FabMaxFaults
  BY DEF AggStart, AggClose, FabJournals, AtPc, FabCore, FabShape, FabOwner, FabLives, FabPort, FabAggStarts, FabAggCloses
<1>2. /\ a.pc \notin {"idle"} \cup FabAllocating /\ fabFace = "agg" /\ fabLock # "agg" /\ FabPc("phy") = "idle"
      /\ aggJ.life = a.life /\ phyJ.life <= a.life
  BY <1>1 DEF FabCore, FabHeld, FabPc, FabAllocating, FabAgg, FabAggStarts, FabAggCloses
<1>a. a.pc \in FabAggStarts => aggJ.phase = "preparing"
  BY DEF FabCore, FabAgg
<1>b. a.pc \in FabAggCloses => aggJ.phase = "stopping"
  BY DEF FabCore, FabAgg
\* A step that leaves the owner at pc.
<1>3. ASSUME NEW pc \in {"idle", "close"} \cup FabAggStarts \cup FabAggCloses, FabMoved("agg", pc),
             fabLock' = fabLock, fabFace' = (IF pc = "idle" THEN None ELSE fabFace),
             fabChip' \in FabChips, fabChip'.life = fabChip.life, fabChip'.fwd["w"] = fabChip.fwd["w"],
             aggJ' \in AggRecords, aggJ'.life = aggJ.life,
             pc \in FabAggStarts => aggJ'.phase = "preparing",
             pc \in FabAggCloses => aggJ'.phase = "stopping",
             pc \in {"clag", "cunfwd"} => ~fabChip'.fwd["p"] \/ ~fabChip'.up["p"],
             pc = "cdone" => ~fabChip'.fwd["p"],
             RedirectJournaled', RecordTrue'
      PROVE  FabCore'
  <2>1. pc \in FabPcOf("agg") \ FabAllocating
    BY DEF FabPcOf, FabAllocating, FabAggStarts, FabAggCloses
  <2>2. FabAgg'
    BY <1>1, <1>2, <1>3 DEF FabAgg, FabMoved, FabNow, FabPc, FabOwner, FabAggStarts, FabAggCloses
  <2> QED
    BY <1>1, <1>2, <1>3, <2>1, <2>2, FabAssumption, FabAggMoves DEF FabMoved, FabPc
<1>4. ASSUME NEW pc \in {"close"} \cup FabAggStarts \cup FabAggCloses, FabGoto("agg", pc)
      PROVE  FabMoved("agg", pc) /\ pc # "idle"
  <2>1. pc \in FabPcs /\ pc # "idle"
    BY DEF FabPcs, FabAggStarts, FabAggCloses
  <2> QED
    BY <1>1, <1>4, <2>1, FabGotoMoves
<1>5. ASSUME Finish("agg")
      PROVE  FabMoved("agg", "idle") /\ fabFace' = None /\ UNCHANGED fabLock
  BY <1>1, <1>2, <1>5, FabFinishes
\* A step that changes the process only, or the trunk.
<1>6. ASSUME NEW pc \in {"close"} \cup FabAggStarts \cup FabAggCloses, FabGoto("agg", pc), UNCHANGED Locks,
             fabChip' \in FabChips, fabChip'.life = fabChip.life, fabChip'.fwd = fabChip.fwd,
             fabChip'.up["p"] = fabChip.up["p"],
             aggJ' \in AggRecords, aggJ'.life = aggJ.life,
             pc \in FabAggStarts => aggJ'.phase = "preparing",
             pc \in FabAggCloses => aggJ'.phase = "stopping",
             aggJ.phase # "stopped" => aggJ'.phase # "stopped",
             pc \in {"clag", "cunfwd"} => ~fabChip.fwd["p"] \/ ~fabChip.up["p"],
             pc # "cdone"
      PROVE  FabCore'
  <2>1. RedirectJournaled'
    BY <1>1, <1>6 DEF FabCore, RedirectJournaled, AggOwns
  <2>2. RecordTrue'
    BY <1>1, <1>6 DEF FabCore, RecordTrue
  <2> QED
    BY <1>1, <1>3, <1>4, <1>6, <2>1, <2>2 DEF Locks
<1>7. CASE a.pc \in FabAggStarts /\ AggStart
  <2>1. CASE a.pc = "create"
    <3>1. \/ SetTrunk("empty") /\ FabGoto("agg", "created") /\ UNCHANGED <<aggJ, Locks>>
          \/ FabGoto("agg", "close") /\ UNCHANGED <<fabChip, aggJ, Locks>>
      BY <1>7, <2>1 DEF AggStart, AtPc, FabJournals
    <3> QED
      BY <1>1, <1>6, <1>7, <1>a, <3>1, FabTrunks DEF FabAggStarts, FabAggCloses
  <2>2. CASE a.pc = "created"
    <3>1. /\ aggJ' = [aggJ EXCEPT !.created = TRUE] /\ FabGoto("agg", "fwd") /\ UNCHANGED <<fabChip, Locks>>
      BY <1>7, <2>2 DEF AggStart, AtPc
    <3>2. aggJ' \in AggRecords /\ aggJ'.life = aggJ.life /\ aggJ'.phase = aggJ.phase
      BY <1>1, <3>1 DEF AggRecords
    <3> QED
      BY <1>1, <1>6, <1>7, <1>a, <3>1, <3>2 DEF FabAggStarts, FabAggCloses
  <2>3. CASE a.pc = "fwd"
    <3>1. \/ Redirect("p", TRUE) /\ FabGoto("agg", "up") /\ UNCHANGED <<aggJ, Locks>>
          \/ FabGoto("agg", "close") /\ UNCHANGED <<fabChip, aggJ, Locks>>
      BY <1>7, <2>3 DEF AggStart, AtPc, FabJournals
    <3>2. CASE Redirect("p", TRUE) /\ FabGoto("agg", "up") /\ UNCHANGED <<aggJ, Locks>>
      <4>1. /\ fabChip' \in FabChips /\ fabChip'.life = fabChip.life /\ fabChip'.fwd["w"] = fabChip.fwd["w"]
            /\ fabChip'.fwd["p"]
        BY <1>1, <3>2, FabRedirects
      <4>2. RedirectJournaled' /\ RecordTrue'
        BY <1>1, <1>7, <1>a, <3>2, <4>1 DEF FabCore, RedirectJournaled, RecordTrue, AggOwns
      <4> QED
        BY <1>1, <1>2, <1>3, <1>4, <1>7, <1>a, <3>2, <4>1, <4>2 DEF FabAggStarts, FabAggCloses, Locks
    <3> QED
      BY <1>1, <1>6, <1>7, <1>a, <3>1, <3>2 DEF FabAggStarts, FabAggCloses
  <2>4. CASE a.pc = "up"
    <3>1. SetAdmin("p", TRUE) /\ FabGoto("agg", "commit") /\ UNCHANGED <<aggJ, Locks>>
      BY <1>7, <2>4 DEF AggStart, AtPc, FabJournals
    <3>2. /\ fabChip' \in FabChips /\ fabChip'.life = fabChip.life /\ fabChip'.fwd = fabChip.fwd
      BY <1>1, <3>1, FabAdmins
    <3>3. RedirectJournaled' /\ RecordTrue'
      BY <1>1, <3>1, <3>2 DEF FabCore, RedirectJournaled, RecordTrue, AggOwns
    <3> QED
      BY <1>1, <1>2, <1>3, <1>4, <1>7, <1>a, <3>1, <3>2, <3>3 DEF FabAggStarts, FabAggCloses, Locks
  <2>5. CASE a.pc = "commit"
    <3>1. CASE aggJ' = [aggJ EXCEPT !.phase = "active", !.fresh = TRUE] /\ Finish("agg") /\ UNCHANGED fabChip
      <4>1. aggJ' \in AggRecords /\ aggJ'.life = aggJ.life /\ aggJ'.phase = "active"
        BY <1>1, <3>1 DEF AggRecords
      <4>2. RedirectJournaled' /\ RecordTrue'
        BY <1>1, <3>1, <4>1 DEF FabCore, RedirectJournaled, RecordTrue, AggOwns
      <4> QED
        BY <1>1, <1>3, <1>5, <3>1, <4>1, <4>2 DEF FabAggStarts, FabAggCloses
    <3>2. CASE FabGoto("agg", "close") /\ UNCHANGED <<fabChip, aggJ, Locks>>
      BY <1>1, <1>6, <3>2 DEF FabAggStarts, FabAggCloses
    <3> QED
      BY <1>7, <2>5, <3>1, <3>2 DEF AggStart, AtPc
  <2> QED
    BY <1>7, <2>1, <2>2, <2>3, <2>4, <2>5 DEF FabAggStarts
<1>8. CASE a.pc \in {"close"} \cup FabAggCloses /\ AggClose
  <2>1. CASE a.pc = "close"
    <3>1. CASE aggJ' = [aggJ EXCEPT !.phase = "stopping"] /\ FabGoto("agg", "cdown") /\ UNCHANGED <<fabChip, Locks>>
      <4>1. aggJ' \in AggRecords /\ aggJ'.life = aggJ.life /\ aggJ'.phase = "stopping"
        BY <1>1, <3>1 DEF AggRecords
      <4> QED
        BY <1>1, <1>6, <3>1, <4>1 DEF FabAggStarts, FabAggCloses
    <3>2. CASE Finish("agg") /\ UNCHANGED <<fabChip, aggJ>>
      <4>1. RedirectJournaled' /\ RecordTrue'
        BY <1>1, <3>2 DEF FabCore, RedirectJournaled, RecordTrue, AggOwns
      <4> QED
        BY <1>1, <1>3, <1>5, <3>2, <4>1 DEF FabAggStarts, FabAggCloses
    <3> QED
      BY <1>8, <2>1, <3>1, <3>2 DEF AggClose, AtPc
  <2>2. CASE a.pc = "cdown"
    <3>1. SetAdmin("p", FALSE) /\ FabGoto("agg", "clag") /\ UNCHANGED <<aggJ, Locks>>
      BY <1>8, <2>2 DEF AggClose, AtPc, FabJournals
    <3>2. /\ fabChip' \in FabChips /\ fabChip'.life = fabChip.life /\ fabChip'.fwd = fabChip.fwd
          /\ ~fabChip'.up["p"]
      BY <1>1, <3>1, FabAdmins
    <3>3. RedirectJournaled' /\ RecordTrue'
      BY <1>1, <3>1, <3>2 DEF FabCore, RedirectJournaled, RecordTrue, AggOwns
    <3> QED
      BY <1>1, <1>2, <1>3, <1>4, <1>8, <1>b, <2>2, <3>1, <3>2, <3>3 DEF FabAggStarts, FabAggCloses, Locks
  <2>3. CASE a.pc = "clag"
    <3>1. ~fabChip.fwd["p"] \/ ~fabChip.up["p"]
      BY <2>3 DEF FabCore, FabAgg
    <3>2. CASE Finish("agg") /\ UNCHANGED <<fabChip, aggJ>>
      <4>1. RedirectJournaled' /\ RecordTrue'
        BY <1>1, <3>2 DEF FabCore, RedirectJournaled, RecordTrue, AggOwns
      <4> QED
        BY <1>1, <1>3, <1>5, <3>2, <4>1 DEF FabAggStarts, FabAggCloses
    <3>3. CASE /\ SetTrunk("none") /\ aggJ' = [aggJ EXCEPT !.created = FALSE, !.egress = FALSE]
               /\ FabGoto("agg", "cunfwd") /\ UNCHANGED Locks
      <4>1. aggJ' \in AggRecords /\ aggJ'.life = aggJ.life /\ aggJ'.phase = aggJ.phase
        BY <1>1, <3>3 DEF AggRecords
      <4>2. /\ fabChip' \in FabChips /\ fabChip'.life = fabChip.life /\ fabChip'.fwd = fabChip.fwd
            /\ fabChip'.up = fabChip.up
        BY <1>1, <3>3, FabTrunks
      <4> QED
        BY <1>1, <1>6, <1>b, <2>3, <3>1, <3>3, <4>1, <4>2 DEF FabAggStarts, FabAggCloses
    <3> QED
      BY <1>8, <2>3, <3>2, <3>3 DEF AggClose, AtPc
  <2>4. CASE a.pc = "cunfwd"
    <3>1. Redirect("p", FALSE) /\ FabGoto("agg", "cdone") /\ UNCHANGED <<aggJ, Locks>>
      BY <1>8, <2>4 DEF AggClose, AtPc, FabJournals
    <3>2. /\ fabChip' \in FabChips /\ fabChip'.life = fabChip.life /\ fabChip'.fwd["w"] = fabChip.fwd["w"]
          /\ ~fabChip'.fwd["p"]
      BY <1>1, <3>1, FabRedirects
    <3>3. RedirectJournaled'
      BY <1>1, <3>1, <3>2 DEF FabCore, RedirectJournaled, AggOwns
    <3>4. phyJ.life = fabChip.life => aggJ.life = fabChip.life
      BY <1>1, <1>2 DEF FabCore, FabShape, PhyRecords, AggRecords, FabChips
    <3>5. RecordTrue'
      BY <1>1, <3>1, <3>2, <3>4 DEF FabCore, RecordTrue
    <3> QED
      BY <1>1, <1>2, <1>3, <1>4, <1>8, <1>b, <2>4, <3>1, <3>2, <3>3, <3>5 DEF FabAggStarts, FabAggCloses, Locks
  <2>5. CASE a.pc = "cdone"
    <3>1. Finish("agg") /\ aggJ' = [aggJ EXCEPT !.phase = "stopped", !.fresh = FALSE] /\ UNCHANGED fabChip
      BY <1>8, <2>5 DEF AggClose, AtPc
    <3>2. aggJ' \in AggRecords /\ aggJ'.life = aggJ.life
      BY <1>1, <3>1 DEF AggRecords
    <3>3. ~fabChip.fwd["p"]
      BY <2>5 DEF FabCore, FabAgg
    <3>4. RedirectJournaled' /\ RecordTrue'
      BY <1>1, <3>1, <3>2, <3>3 DEF FabCore, RedirectJournaled, RecordTrue
    <3> QED
      BY <1>1, <1>3, <1>5, <3>1, <3>2, <3>4 DEF FabAggStarts, FabAggCloses
  <2> QED
    BY <1>8, <2>1, <2>2, <2>3, <2>4, <2>5 DEF FabAggCloses
<1>9. AggStart => a.pc \in FabAggStarts
  BY DEF AggStart, AtPc, FabAggStarts
<1>10. AggClose => a.pc \in {"close"} \cup FabAggCloses
  BY DEF AggClose, AtPc, FabAggCloses
<1> QED
  BY <1>7, <1>8, <1>9, <1>10

LEMMA FabCoreAggRest == FabCore /\ ((\E all \in BOOLEAN : AggHeartbeat(all)) \/ AggRecover \/ LeaseLost) => FabCore'
PROOF
<1> SUFFICES ASSUME FabCore, (\E all \in BOOLEAN : AggHeartbeat(all)) \/ AggRecover \/ LeaseLost PROVE FabCore'
  OBVIOUS
<1> USE FabNoneAssumption
<1>1. /\ fabChip \in FabChips /\ aggJ \in AggRecords /\ aggJ.life <= fabChip.life /\ FabShape
      /\ fabFaults \in 0 .. FabMaxFaults
  BY DEF FabCore, FabShape, FabLives
\* Steps of an aggregate owner that is not at work otherwise.
<1>2. ASSUME AtPc("agg", "idle"), UNCHANGED <<fabJ, phyJ, wanJ, wanTimer, fabFace, fabLock, fabProc, fabFaults>>,
             fabChip' \in FabChips, fabChip'.life = fabChip.life, fabChip'.fwd = fabChip.fwd,
             aggJ' \in AggRecords, aggJ'.life = aggJ.life,
             aggJ.phase = "stopped" => aggJ'.phase = "stopped",
             aggJ'.phase = "stopped" => aggJ.phase = "stopped" \/ ~fabChip.fwd["p"]
      PROVE  FabCore'
  <2>1. FabNow("agg", "idle") /\ "idle" \in FabPcOf("agg") \ FabAllocating /\ fabFace # "agg"
    BY <1>2 DEF FabNow, FabCore, FabShape, FabLives, FabHeld, AtPc, FabOwner, FabPcOf, FabAllocating, FabPc
  <2>2. FabAgg'
    BY <1>2 DEF FabCore, FabAgg, AtPc, FabPc, AggOwns, FabAggStarts, FabAggCloses
  <2>3. RedirectJournaled' /\ RecordTrue'
    BY <1>2 DEF FabCore, RedirectJournaled, RecordTrue, AggOwns
  <2> QED
    BY <1>1, <1>2, <2>1, <2>2, <2>3, FabAssumption, FabAggMoves DEF AtPc, FabPc
<1>3. ASSUME NEW all \in BOOLEAN, AggHeartbeat(all) PROVE FabCore'
  <2> DEFINE lag == IF all /\ fabChip.up["p"] THEN "full" ELSE "empty"
             egress == all /\ fabChip.up["p"]
  <2>1. /\ AtPc("agg", "idle") /\ UNCHANGED <<fabJ, phyJ, wanJ, wanTimer, fabFace, fabLock, fabProc, fabFaults>>
        /\ aggJ' = [aggJ EXCEPT !.egress = egress] /\ SetTrunk(lag)
    BY <1>3 DEF AggHeartbeat, Locks
  <2>2. lag \in {"none", "empty", "full"} /\ egress \in BOOLEAN
    BY <1>1 DEF FabChips, FabPort
  <2> HIDE DEF lag, egress
  <2>3. fabChip' \in FabChips /\ fabChip'.life = fabChip.life /\ fabChip'.fwd = fabChip.fwd
    BY <1>1, <2>1, <2>2, FabTrunks
  <2>4. aggJ' \in AggRecords /\ aggJ'.life = aggJ.life /\ aggJ'.phase = aggJ.phase
    BY <1>1, <2>1, <2>2 DEF AggRecords
  <2> QED
    BY <1>2, <2>1, <2>3, <2>4
<1>4. CASE AggRecover
  <2>1. /\ AtPc("agg", "idle") /\ UNCHANGED <<fabJ, phyJ, wanJ, wanTimer, fabFace, fabLock, fabProc, fabFaults>>
        /\ aggJ' = [phase |-> "stopped", life |-> aggJ.life, fresh |-> FALSE, created |-> FALSE, egress |-> FALSE]
        /\ fabChip' = [fabChip EXCEPT !.up["p"] = FALSE] /\ ~fabChip.fwd["p"]
    BY <1>4 DEF AggRecover, Locks
  <2>2. fabChip' \in FabChips /\ fabChip'.life = fabChip.life /\ fabChip'.fwd = fabChip.fwd
    BY <1>1, <2>1 DEF FabChips
  <2>3. aggJ' \in AggRecords /\ aggJ'.life = aggJ.life /\ aggJ'.phase = "stopped"
    BY <1>1, <2>1 DEF AggRecords
  <2> QED
    BY <1>2, <2>1, <2>2, <2>3
<1>5. CASE LeaseLost
  <2>1. /\ UNCHANGED <<fabChip, fabJ, phyJ, wanJ, wanTimer, fabFace, fabLock, fabProc>>
        /\ aggJ' = [aggJ EXCEPT !.fresh = FALSE] /\ fabFaults' = fabFaults + 1 /\ fabFaults < FabMaxFaults
    BY <1>5 DEF LeaseLost, Locks
  <2>2. aggJ' \in AggRecords /\ aggJ'.life = aggJ.life /\ aggJ'.phase = aggJ.phase
    BY <1>1, <2>1 DEF AggRecords
  <2>3. fabFaults' \in 0 .. FabMaxFaults
    BY <1>1, <2>1, FabAssumption
  <2>4. FabShape' /\ FabHeld'
    BY <2>1, <2>2, <2>3 DEF FabCore, FabShape, FabHeld, FabPc
  <2>5. FabLives'
    BY <1>1, <2>1, <2>2, FabAssumption DEF FabCore, FabLives
  <2>6. FabPhy' /\ FabWan' /\ FabAgg'
    BY <2>1, <2>2 DEF FabCore, FabPhy, FabWan, FabAgg, AggOwns, FabPc
  <2>7. RedirectJournaled' /\ RecordTrue'
    BY <2>1, <2>2 DEF FabCore, RedirectJournaled, RecordTrue, AggOwns
  <2> QED
    BY <2>4, <2>5, <2>6, <2>7 DEF FabCore
<1> QED
  BY <1>3, <1>4, <1>5

\* ---- faults, and the administrator ----

LEMMA FabCoreDies == ASSUME FabCore, NEW o \in FabOwner, FabDies(o) PROVE FabCore'
PROOF
<1> USE FabNoneAssumption
<1>1. /\ FabShape /\ FabLives /\ fabProc[o].pc # "idle" /\ fabFaults < FabMaxFaults /\ fabFaults' = fabFaults + 1
      /\ UNCHANGED <<fabChip, fabJ, phyJ, wanJ, wanTimer, aggJ>>
  BY DEF FabCore, FabDies, FabJournals
<1>2. fabFaults' \in 0 .. FabMaxFaults /\ fabFaults \in 0 .. FabMaxFaults /\ fabFaults <= fabFaults'
  BY <1>1, FabAssumption DEF FabShape
<1>3. RedirectJournaled' /\ RecordTrue'
  BY <1>1 DEF FabCore, RedirectJournaled, RecordTrue, AggOwns
<1>4. CASE Finish(o)
  <2>1. /\ FabMoved(o, "idle")
        /\ fabFace' = (IF fabFace = o THEN None ELSE fabFace)
        /\ fabLock' = (IF fabLock = o THEN None ELSE fabLock)
    BY <1>1, <1>4, FabFinishes
  <2>2. FabShape'
    BY <1>1, <1>2, <2>1 DEF FabShape, FabMoved, FabNow
  <2>3. FabLives'
    BY <1>1, <1>2, <2>1 DEF FabShape, FabChips, FabLives, FabMoved, FabNow
  <2>4. FabHeld'
    <3>1. "idle" \in FabPcOf(o) /\ "idle" \notin FabAllocating \cup FabWanFaced
      BY DEF FabPcOf, FabAllocating, FabWanFaced
    <3> QED
      BY <2>1, <3>1 DEF FabCore, FabHeld, FabMoved, FabNow, FabPc, FabOwner
  <2>5. FabPhy' /\ FabWan'
    BY <1>1, <2>1 DEF FabCore, FabPhy, FabWan, FabMoved, FabNow, FabOwner, FabAllocating, FabWanFaced
  <2>6. FabAgg'
    BY <1>1, <2>1 DEF FabCore, FabAgg, FabMoved, FabNow, FabOwner, FabPc, AggOwns, FabAggStarts, FabAggCloses
  <2> QED
    BY <1>3, <2>2, <2>3, <2>4, <2>5, <2>6 DEF FabCore
<1>5. CASE /\ o = "agg" /\ fabProc[o].pc \in {"create", "created", "fwd", "up", "commit"}
           /\ FabGoto(o, "close") /\ UNCHANGED Locks
  <2>1. "close" \in FabPcs /\ "close" \in FabPcOf("agg") \ FabAllocating /\ "close" # "idle"
    BY DEF FabPcs, FabPcOf, FabAllocating
  <2>2. FabMoved("agg", "close") /\ fabFace = "agg" /\ UNCHANGED <<fabFace, fabLock>>
    BY <1>1, <1>5, <2>1, FabGotoMoves DEF FabCore, FabHeld, FabPc, Locks
  <2>3. FabPc("agg") \notin FabAllocating /\ aggJ.life <= fabChip.life /\ fabChip \in FabChips /\ aggJ \in AggRecords
    BY <1>1, <1>5 DEF FabPc, FabAllocating, FabLives, FabShape
  <2>4. FabAgg'
    BY <1>1, <1>5, <2>2 DEF FabCore, FabAgg, FabMoved, FabNow, FabOwner, FabPc, AggOwns, FabAggStarts, FabAggCloses
  <2> QED
    BY <1>1, <1>2, <1>3, <2>1, <2>2, <2>3, <2>4, FabAggMoves DEF FabMoved
<1> QED
  BY <1>4, <1>5 DEF FabDies

\* A new lifetime of the switch: what was on record is of an older one.
LEMMA FabRestarts ==
  ASSUME FabShape, BcmRestart
  PROVE  /\ fabChip' \in FabChips /\ fabChip'.life = fabChip.life + 1
         /\ \/ fabChip'.fwd = fabChip.fwd /\ fabChip'.up = fabChip.up /\ fabChip'.q = Aged(fabChip.q)
            \/ (\A x \in FabPort : ~fabChip'.fwd[x] /\ fabChip'.up[x]) /\ (\A x \in FabResource : fabChip'.q[x] = "none")
         /\ fabFaults' = fabFaults + 1 /\ fabFaults < FabMaxFaults
         /\ UNCHANGED <<fabJ, phyJ, wanJ, wanTimer, aggJ, fabFace, fabLock, fabProc>>
PROOF
<1>1. fabChip \in FabChips /\ fabChip.life + 1 \in Nat
  BY DEF FabShape, FabChips
<1>2. CASE fabChip' = [NewChip EXCEPT !.life = fabChip.life + 1]
  <2>1. NewChip \in FabChips /\ (\A x \in FabPort : ~NewChip.fwd[x] /\ NewChip.up[x]) /\ (\A x \in FabResource : NewChip.q[x] = "none")
    BY DEF NewChip, FabChips, FabHeaders, FabQueueMap, FabResource, FabPort
  <2>2. fabChip' \in FabChips /\ fabChip'.life = fabChip.life + 1 /\ fabChip'.fwd = NewChip.fwd /\ fabChip'.q = NewChip.q
        /\ fabChip'.up = NewChip.up
    BY <1>1, <1>2, <2>1 DEF FabChips
  <2> QED
    BY <2>1, <2>2 DEF BcmRestart, FabJournals, Locks
<1>3. CASE fabChip' = [fabChip EXCEPT !.life = fabChip.life + 1, !.q = Aged(fabChip.q)]
  <2>1. Aged(fabChip.q) \in FabQueueMap
    BY <1>1 DEF Aged, FabChips, FabQueueMap, HalfBuilt
  <2>2. /\ fabChip' \in FabChips /\ fabChip'.life = fabChip.life + 1 /\ fabChip'.fwd = fabChip.fwd
        /\ fabChip'.up = fabChip.up /\ fabChip'.q = Aged(fabChip.q)
    BY <1>1, <1>3, <2>1 DEF FabChips
  <2> QED
    BY <2>2 DEF BcmRestart, FabJournals, Locks
<1> QED
  BY <1>2, <1>3 DEF BcmRestart

LEMMA FabCoreRestart == FabCore /\ BcmRestart => FabCore'
PROOF
<1> SUFFICES ASSUME FabCore, BcmRestart PROVE FabCore'
  OBVIOUS
<1> DEFINE flushed == \A x \in FabPort : ~fabChip'.fwd[x]
<1>1. /\ fabChip' \in FabChips /\ fabChip'.life = fabChip.life + 1
      /\ (fabChip'.fwd = fabChip.fwd /\ fabChip'.up = fabChip.up) \/ flushed
      /\ fabFaults' = fabFaults + 1 /\ fabFaults < FabMaxFaults
      /\ UNCHANGED <<fabJ, phyJ, wanJ, wanTimer, aggJ, fabFace, fabLock, fabProc>>
  BY FabRestarts DEF FabCore
<1>2. fabFaults' \in 0 .. FabMaxFaults /\ fabChip.life \in Nat
  BY <1>1, FabAssumption DEF FabCore, FabShape, FabChips
<1>3. flushed => ~fabChip'.fwd["p"] /\ ~fabChip'.fwd["w"]
  BY DEF FabPort
<1>4. FabShape'
  BY <1>1, <1>2 DEF FabCore, FabShape
<1>a. /\ fabJ.life \in Nat /\ phyJ.life \in Nat /\ wanJ.life \in Nat /\ aggJ.life \in Nat
      /\ \A o \in FabOwner : fabProc[o].life \in Nat
  BY DEF FabCore, FabShape, FabRecords, PhyRecords, WanRecords, AggRecords, FabProcess
<1>5. FabLives'
  BY <1>1, <1>2, <1>a, FabAssumption DEF FabCore, FabLives, FabShape
<1>6. FabHeld'
  BY <1>1 DEF FabCore, FabHeld, FabPc
<1>b. fabProc["phy"].life # fabChip'.life /\ fabProc["wan"].life # fabChip'.life /\ phyJ.life # fabChip'.life /\ wanJ.life # fabChip'.life
  BY <1>1, <1>2, <1>a DEF FabCore, FabLives, FabOwner
<1>7. FabPhy' /\ FabWan' /\ FabAgg'
  BY <1>1, <1>3, <1>b DEF FabCore, FabPhy, FabWan, FabAgg, AggOwns, FabPc
<1>8. RedirectJournaled' /\ RecordTrue'
  BY <1>1, <1>3, <1>b DEF FabCore, RedirectJournaled, RecordTrue, AggOwns
<1> QED
  BY <1>4, <1>5, <1>6, <1>7, <1>8 DEF FabCore

LEMMA FabCoreAdminSet == ASSUME FabCore, NEW x \in FabPort, AdminSet(x) PROVE FabCore'
PROOF
<1> USE FabNoneAssumption
<1>1. /\ fabFace = None /\ fabChip' = [fabChip EXCEPT !.up[x] = ~@]
      /\ UNCHANGED <<fabJ, phyJ, wanJ, wanTimer, aggJ, fabFace, fabLock, fabProc, fabFaults>>
  BY DEF AdminSet, FabJournals, Locks
<1>2. /\ fabChip' \in FabChips /\ fabChip'.life = fabChip.life /\ fabChip'.fwd = fabChip.fwd
  BY <1>1 DEF FabCore, FabShape, FabChips
<1>3. FabPc("agg") = "idle"
  BY <1>1 DEF FabCore, FabHeld
<1>4. FabShape' /\ FabLives' /\ FabHeld'
  BY <1>1, <1>2 DEF FabCore, FabShape, FabLives, FabHeld, FabPc
<1>5. FabPhy' /\ FabWan' /\ FabAgg'
  BY <1>1, <1>2, <1>3 DEF FabCore, FabPhy, FabWan, FabAgg, AggOwns, FabPc, FabAggStarts, FabAggCloses
<1>6. RedirectJournaled' /\ RecordTrue'
  BY <1>1, <1>2 DEF FabCore, RedirectJournaled, RecordTrue, AggOwns
<1> QED
  BY <1>4, <1>5, <1>6 DEF FabCore

\* ---- the journaled allocation ----

FabFabric == {"fabric"} \cup FabAllocating
\* A step of the allocation that leaves o at pc.
LEMMA FabAllocMoves ==
  ASSUME FabCore, NEW o \in FabOwner, FabPc(o) \in FabFabric,
         NEW pc \in {"idle"} \cup FabAllocating \cup (IF o = "phy" THEN {"intent"} ELSE IF o = "wan" THEN {"restore"} ELSE {}),
         FabMoved(o, pc),
         fabLock' = (IF pc \in FabAllocating THEN o ELSE IF fabLock = o THEN None ELSE fabLock),
         pc \in FabAllocating => fabLock \in {None, o},
         fabFace' = (IF pc = "idle" /\ fabFace = o THEN None ELSE fabFace),
         fabChip' \in FabChips, UNCHANGED <<fabChip.fwd, fabChip.up, fabChip.life>>,
         fabJ' \in FabRecords, fabJ'.life <= fabChip.life,
         UNCHANGED <<phyJ, wanJ, wanTimer, aggJ>>,
         fabFaults' \in 0 .. FabMaxFaults, fabFaults <= fabFaults'
  PROVE  FabCore'
PROOF
<1> USE FabNoneAssumption
<1>1. FabShape'
  BY DEF FabCore, FabShape, FabMoved, FabNow
<1>2. FabLives'
  BY FabAssumption DEF FabCore, FabLives, FabMoved, FabNow, FabShape, FabChips
<1>3. FabHeld'
  <2>1. fabFace = o
    BY DEF FabCore, FabHeld, FabFabric, FabAllocating, FabWanFaced, FabOwner
  <2>2. pc \in FabPcOf(o) /\ "idle" \notin FabAllocating /\ "intent" \notin FabAllocating /\ "restore" \notin FabAllocating
    BY DEF FabPcOf, FabAllocating
  <2>3. \A x \in FabOwner : FabPc(x)' \in FabPcOf(x) /\ (fabLock' = x <=> FabPc(x)' \in FabAllocating)
    BY <2>2 DEF FabCore, FabHeld, FabMoved, FabNow, FabPc, FabOwner
  <2>4. CASE o = "phy"
    BY <2>1, <2>2, <2>3, <2>4 DEF FabCore, FabHeld, FabMoved, FabNow, FabPc, FabOwner
  <2>5. CASE o = "agg"
    BY <2>1, <2>2, <2>3, <2>5 DEF FabCore, FabHeld, FabMoved, FabNow, FabPc, FabOwner
  <2>6. CASE o = "wan"
    <3>1. pc \in FabWanFaced <=> pc # "idle"
      BY <2>6 DEF FabWanFaced, FabAllocating
    <3> QED
      BY <2>1, <2>2, <2>3, <2>6, <3>1 DEF FabCore, FabHeld, FabMoved, FabNow, FabPc, FabOwner
  <2> QED
    BY <2>4, <2>5, <2>6 DEF FabOwner
<1>4. FabPhy'
  BY DEF FabCore, FabPhy, FabMoved, FabNow, FabOwner, FabPc, FabFabric, FabAllocating
<1>5. FabWan'
  BY DEF FabCore, FabWan, FabMoved, FabNow, FabOwner, FabPc, FabFabric, FabAllocating, FabWanFaced
<1>6. FabAgg'
  BY DEF FabCore, FabAgg, FabMoved, FabNow, FabOwner, FabPc, FabFabric, FabAllocating, FabAggStarts, FabAggCloses, AggOwns
<1>7. RedirectJournaled' /\ RecordTrue'
  BY DEF FabCore, RedirectJournaled, RecordTrue, AggOwns
<1> QED
  BY <1>1, <1>2, <1>3, <1>4, <1>5, <1>6, <1>7 DEF FabCore

\* What a step of the allocation by o, to pc, does to the queues and to the
\* journal of the allocation.
FabAllocLooks(o, pc) ==
  /\ fabChip'.q = fabChip.q /\ fabJ' = fabJ
  /\ pc \in {"idle", "head", "headDone", "q1", "q2", "verify", "intent", "restore"}
  /\ pc \in FabAllocating => \/ FabPc(o) \in FabAllocating
                             \/ ~SpoiltFabric
  /\ pc = "restore" => Provisioned(PortOf(o))
FabAllocIntends(o, pc) ==
  /\ fabChip'.q = fabChip.q /\ Fenced(o) /\ FabPc(o) \in FabAllocating /\ pc \in {"headSet", "alloc1", "alloc2"}
  /\ fabJ' = [life |-> fabProc[o].life, pending |-> IF pc = "headSet" THEN "header" ELSE IF pc = "alloc1" THEN "t" ELSE PortOf(o)]
FabAllocSettles(o, pc) ==
  /\ fabChip'.q = fabChip.q /\ Fenced(o) /\ FabPc(o) \in FabAllocating /\ pc \in {"q1", "q2", "verify"}
  /\ fabJ' = [fabJ EXCEPT !.pending = None]
FabAllocMakes(o, pc) ==
  /\ fabJ' = fabJ /\ fabChip.q[IF FabPc(o) = "alloc1" THEN "t" ELSE PortOf(o)] = "none"
  /\ \/ FabPc(o) = "alloc1" /\ pc = "done1" /\ fabChip'.q = [fabChip.q EXCEPT !["t"] = "ok"]
     \/ FabPc(o) = "alloc2" /\ pc = "done2" /\ fabChip'.q = [fabChip.q EXCEPT ![PortOf(o)] = "ok"]
     \/ FabPc(o) = "alloc1" /\ pc = "idle" /\ fabChip'.q = [fabChip.q EXCEPT !["t"] = IF Fenced(o) THEN "part" ELSE "old"]
     \/ FabPc(o) = "alloc2" /\ pc = "idle" /\ fabChip'.q = [fabChip.q EXCEPT ![PortOf(o)] = IF Fenced(o) THEN "part" ELSE "old"]
FabAllocStep(o, pc) ==
  /\ FabPc(o) \in FabFabric /\ FabMoved(o, pc)
  /\ fabLock' = (IF pc \in FabAllocating THEN o ELSE IF fabLock = o THEN None ELSE fabLock)
  /\ pc \in FabAllocating => fabLock \in {None, o}
  /\ fabFace' = (IF pc = "idle" /\ fabFace = o THEN None ELSE fabFace)
  /\ fabChip' \in FabChips /\ UNCHANGED <<fabChip.fwd, fabChip.up, fabChip.life>>
  /\ UNCHANGED <<phyJ, wanJ, wanTimer, aggJ>>
  /\ fabFaults' \in {fabFaults, fabFaults + 1} /\ fabFaults' \in 0 .. FabMaxFaults
  /\ FabAllocLooks(o, pc) \/ FabAllocIntends(o, pc) \/ FabAllocSettles(o, pc) \/ FabAllocMakes(o, pc)
FabAllocPc(o) == {"idle"} \cup FabAllocating \cup (IF o = "phy" THEN {"intent"} ELSE IF o = "wan" THEN {"restore"} ELSE {})

LEMMA FabAllocates ==
  ASSUME FabCore, NEW o \in FabOwner, FabAllocate(o)
  PROVE  \E pc \in FabAllocPc(o) : FabAllocStep(o, pc)
PROOF
<1> USE FabNoneAssumption
<1> DEFINE c == fabProc[o]
<1>1. /\ FabShape /\ FabLives /\ c \in FabProcess /\ fabChip \in FabChips /\ fabJ \in FabRecords
      /\ fabFaults \in 0 .. FabMaxFaults /\ PortOf(o) \in {"p", "w"} /\ o \in {"phy", "wan", "agg"}
  BY DEF FabCore, FabShape, PortOf, FabOwner
<1>2. /\ FabPc(o) \in FabFabric /\ UNCHANGED <<phyJ, wanJ, wanTimer, aggJ>>
  BY DEF FabAllocate, FabBegin, FabHeader, FabQueues, AllocateQueues, FabVerify, AtPc, FabPc, FabFabric, FabAllocating, FabJournals
<1>3. fabLock = o <=> FabPc(o) \in FabAllocating
  BY DEF FabCore, FabHeld
<1>4. "idle" \notin FabAllocating /\ "intent" \notin FabAllocating /\ "restore" \notin FabAllocating /\ "fabric" \notin FabAllocating
  BY DEF FabAllocating
\* The process ends, and nothing else happens.
<1>5. ASSUME Finish(o), UNCHANGED <<fabChip, fabJ, fabFaults>>
      PROVE  FabAllocStep(o, "idle")
  <2>1. FabMoved(o, "idle")
        /\ fabFace' = (IF fabFace = o THEN None ELSE fabFace)
        /\ fabLock' = (IF fabLock = o THEN None ELSE fabLock)
    BY <1>1, <1>5, FabFinishes
  <2>2. FabAllocLooks(o, "idle")
    BY <1>4, <1>5 DEF FabAllocLooks
  <2> QED
    BY <1>1, <1>2, <1>4, <1>5, <2>1, <2>2 DEF FabAllocStep
\* The process goes on, with the lock.
<1>6. ASSUME NEW pc \in FabAllocating, FabGoto(o, pc), UNCHANGED <<fabFaults>>, UNCHANGED Locks,
             FabPc(o) \in FabAllocating,
             fabChip' \in FabChips, UNCHANGED <<fabChip.fwd, fabChip.up, fabChip.life>>,
             FabAllocLooks(o, pc) \/ FabAllocIntends(o, pc) \/ FabAllocSettles(o, pc) \/ FabAllocMakes(o, pc)
      PROVE  FabAllocStep(o, pc)
  <2>1. pc \in FabPcs
    BY DEF FabPcs
  <2>2. FabMoved(o, pc)
    BY <1>1, <1>6, <2>1, FabGotoMoves
  <2> QED
    BY <1>1, <1>2, <1>3, <1>4, <1>6, <2>2 DEF FabAllocStep, Locks
<1>7. CASE FabBegin(o)
  <2> DEFINE pc == IF fabChip.header = "ssp" THEN "q1" ELSE "head"
             seen == [q |-> fabChip.q, header |-> fabChip.header]
             x == [c EXCEPT !.seen = seen, !.pc = pc]
  <2>1. /\ AtPc(o, "fabric") /\ fabLock = None /\ UNCHANGED <<fabChip, fabJ, fabFaults>>
        /\ \/ Finish(o)
           \/ /\ ~SpoiltFabric
              /\ fabLock' = o /\ UNCHANGED fabFace /\ fabProc' = [fabProc EXCEPT ![o] = x]
    BY <1>7 DEF FabBegin, FabJournals
  <2>2. CASE /\ ~SpoiltFabric
             /\ fabLock' = o /\ UNCHANGED fabFace /\ fabProc' = [fabProc EXCEPT ![o] = x]
    <3>1. seen \in FabSights /\ pc \in {"q1", "head"} /\ pc \in FabPcs /\ pc \in FabAllocating
      BY <1>1 DEF FabSights, FabChips, FabPcs, FabAllocating
    <3> HIDE DEF seen, pc
    <3>2. x \in FabProcess /\ x.pc = pc /\ x.op = c.op /\ x.life = c.life
      BY <1>1, <3>1 DEF FabProcess
    <3> HIDE DEF x
    <3>3. FabMoved(o, pc)
      BY <1>1, <2>2, <3>2 DEF FabMoved, FabNow, FabShape, FabLives
    <3>4. FabAllocLooks(o, pc)
      BY <2>1, <2>2, <3>1 DEF FabAllocLooks
    <3>5. FabAllocStep(o, pc)
      BY <1>1, <1>2, <1>4, <2>1, <2>2, <3>1, <3>3, <3>4 DEF FabAllocStep
    <3> QED
      BY <3>1, <3>5 DEF FabAllocPc
  <2> QED
    BY <1>5, <2>1, <2>2 DEF FabAllocPc
\* The two forms of a journal write.
<1>8. ASSUME NEW what, NEW pc \in {"headSet", "alloc1", "alloc2"}, Intend(o, what, pc), FabPc(o) \in FabAllocating,
             what = IF pc = "headSet" THEN "header" ELSE IF pc = "alloc1" THEN "t" ELSE PortOf(o),
             UNCHANGED <<fabChip, fabFaults>>
      PROVE  \E y \in FabAllocPc(o) : FabAllocStep(o, y)
  <2>1. CASE Fenced(o)
    <3>1. FabGoto(o, pc) /\ fabJ' = [life |-> c.life, pending |-> what] /\ UNCHANGED Locks
      BY <1>8, <2>1 DEF Intend
    <3>2. FabAllocIntends(o, pc) /\ pc \in FabAllocating
      BY <1>8, <2>1, <3>1 DEF FabAllocIntends, FabAllocating
    <3> QED
      BY <1>1, <1>6, <1>8, <3>1, <3>2 DEF FabAllocPc
  <2> QED
    BY <1>5, <1>8, <2>1 DEF Intend, FabAllocPc
<1>9. ASSUME NEW holds, NEW pc \in {"q1", "q2", "verify"}, FabSettle(o, holds, pc), FabPc(o) \in FabAllocating,
             UNCHANGED <<fabChip, fabFaults>>
      PROVE  \E y \in FabAllocPc(o) : FabAllocStep(o, y)
  <2>1. CASE Fenced(o) /\ holds
    <3>1. FabGoto(o, pc) /\ fabJ' = [fabJ EXCEPT !.pending = None] /\ UNCHANGED Locks
      BY <1>9, <2>1 DEF FabSettle
    <3>2. FabAllocSettles(o, pc) /\ pc \in FabAllocating
      BY <1>9, <2>1, <3>1 DEF FabAllocSettles, FabAllocating
    <3> QED
      BY <1>1, <1>6, <1>9, <3>1, <3>2 DEF FabAllocPc
  <2> QED
    BY <1>5, <1>9, <2>1 DEF FabSettle, FabAllocPc
<1>10. CASE FabHeader(o)
  <2>1. CASE AtPc(o, "head")
    <3>1. Intend(o, "header", "headSet") /\ UNCHANGED <<fabChip, fabFaults>>
      BY <1>10, <2>1 DEF FabHeader, AtPc
    <3> QED
      BY <1>8, <2>1, <3>1 DEF AtPc, FabPc, FabAllocating
  <2>2. CASE AtPc(o, "headSet")
    <3>1. UNCHANGED <<fabJ, fabFaults>>
      BY <1>10, <2>2 DEF FabHeader, AtPc, FabJournals
    <3>2. CASE fabChip' = [fabChip EXCEPT !.header = "ssp"] /\ FabGoto(o, "headDone") /\ UNCHANGED Locks
      <4>1. fabChip' \in FabChips /\ UNCHANGED <<fabChip.fwd, fabChip.up, fabChip.life, fabChip.q>>
        BY <1>1, <3>2 DEF FabChips, FabHeaders
      <4>2. FabAllocLooks(o, "headDone") /\ FabPc(o) \in FabAllocating /\ "headDone" \in FabAllocating
        BY <2>2, <3>1, <4>1 DEF FabAllocLooks, AtPc, FabPc, FabAllocating
      <4> QED
        BY <1>6, <3>1, <3>2, <4>1, <4>2 DEF FabAllocPc
    <3> QED
      BY <1>5, <1>10, <2>2, <3>1, <3>2 DEF FabHeader, AtPc, FabAllocPc
  <2>3. CASE AtPc(o, "headDone")
    <3>1. FabSettle(o, fabChip.header = "ssp", "q1") /\ UNCHANGED <<fabChip, fabFaults>>
      BY <1>10, <2>3 DEF FabHeader, AtPc
    <3> QED
      BY <1>9, <2>3, <3>1 DEF AtPc, FabPc, FabAllocating
  <2> QED
    BY <1>10, <2>1, <2>2, <2>3 DEF FabHeader
<1>11. CASE FabQueues(o)
  <2> DEFINE k == QueueOf(o)
  <2>1. CASE c.pc \in {"q1", "q2"} /\ ~AllocateQueues(o)
    <3>1. k = (IF c.pc = "q1" THEN "t" ELSE PortOf(o)) /\ FabAfter(o) = (IF c.pc = "q1" THEN "q2" ELSE "verify")
      BY <1>1, <2>1 DEF QueueOf, FabAfter
    <3>2. UNCHANGED <<fabChip, fabFaults>> /\ FabPc(o) \in FabAllocating
      BY <1>11, <2>1 DEF FabQueues, FabPc, FabAllocating
    <3>3. CASE FabGoto(o, FabAfter(o)) /\ UNCHANGED <<fabJ, Locks>>
      <4>1. FabAfter(o) \in {"q2", "verify"} /\ FabAfter(o) \in FabAllocating
        BY <3>1 DEF FabAllocating
      <4>2. FabAllocLooks(o, FabAfter(o))
        BY <3>2, <3>3, <4>1 DEF FabAllocLooks
      <4> QED
        BY <1>1, <1>6, <3>2, <3>3, <4>1, <4>2 DEF FabAllocPc
    <3>4. CASE Intend(o, k, IF AtPc(o, "q1") THEN "alloc1" ELSE "alloc2")
      BY <1>8, <2>1, <3>1, <3>2, <3>4 DEF AtPc
    <3> QED
      BY <1>11, <2>1, <3>3, <3>4 DEF FabQueues
  <2>2. CASE c.pc \in {"done1", "done2"} /\ ~AllocateQueues(o)
    <3>1. FabAfter(o) \in {"q2", "verify"}
      BY DEF FabAfter
    <3>2. FabSettle(o, fabChip.q[k] = "ok", FabAfter(o)) /\ UNCHANGED <<fabChip, fabFaults>>
      BY <1>11, <2>2 DEF FabQueues
    <3> QED
      BY <1>9, <2>2, <3>1, <3>2 DEF FabPc, FabAllocating
  <2>3. CASE AllocateQueues(o)
    <3>1. c.pc \in {"alloc1", "alloc2"} /\ UNCHANGED fabJ /\ ((Finish(o) /\ UNCHANGED <<fabChip, fabFaults>>) \/ fabChip.q[k] = "none")
      BY <2>3 DEF AllocateQueues, FabJournals
    <3>2. k = (IF c.pc = "alloc1" THEN "t" ELSE PortOf(o)) /\ k \in FabResource /\ FabPc(o) \in FabAllocating
      BY <1>1, <3>1 DEF QueueOf, FabResource, FabPc, FabAllocating
    <3> DEFINE made == IF c.pc = "alloc1" THEN "done1" ELSE "done2"
    <3>3. ASSUME NEW how \in {"ok"} \cup HalfBuilt, fabChip' = [fabChip EXCEPT !.q[k] = how]
          PROVE  /\ fabChip' \in FabChips /\ UNCHANGED <<fabChip.fwd, fabChip.up, fabChip.life>>
                 /\ fabChip'.q = [fabChip.q EXCEPT ![k] = how]
      <4> HIDE DEF k
      <4>1. fabChip' = [fabChip EXCEPT !.q = [fabChip.q EXCEPT ![k] = how]]
        BY <3>3
      <4>2. [fabChip.q EXCEPT ![k] = how] \in FabQueueMap
        BY <1>1, <3>2 DEF FabChips, FabQueueMap, HalfBuilt
      <4> QED
        BY <1>1, <4>1, <4>2 DEF FabChips
    <3>4. CASE Finish(o) /\ UNCHANGED <<fabChip, fabFaults>>
      BY <1>5, <3>1, <3>4 DEF FabAllocPc
    <3>5. CASE fabChip.q[k] = "none" /\ fabChip' = [fabChip EXCEPT !.q[k] = "ok"] /\ FabGoto(o, made) /\ UNCHANGED <<Locks, fabFaults>>
      <4>1. FabAllocMakes(o, made) /\ made \in FabAllocating
        BY <3>1, <3>2, <3>3, <3>5 DEF FabAllocMakes, FabPc, FabAllocating
      <4>2. fabChip' \in FabChips /\ UNCHANGED <<fabChip.fwd, fabChip.up, fabChip.life>>
        BY <3>3, <3>5
      <4> HIDE DEF made, k
      <4> QED
        BY <1>6, <3>2, <3>5, <4>1, <4>2 DEF FabAllocPc
    <3>6. CASE /\ fabChip.q[k] = "none" /\ fabFaults < FabMaxFaults /\ fabFaults' = fabFaults + 1
               /\ fabChip' = [fabChip EXCEPT !.q[k] = IF Fenced(o) THEN "part" ELSE "old"] /\ Finish(o)
      <4> DEFINE how == IF Fenced(o) THEN "part" ELSE "old"
      <4>0. how \in HalfBuilt
        BY DEF HalfBuilt
      <4>1. FabAllocMakes(o, "idle")
        BY <3>1, <3>2, <3>3, <3>6, <4>0 DEF FabAllocMakes, FabPc
      <4>2. FabMoved(o, "idle")
            /\ fabFace' = (IF fabFace = o THEN None ELSE fabFace)
            /\ fabLock' = (IF fabLock = o THEN None ELSE fabLock)
        BY <1>1, <3>6, FabFinishes
      <4>3. fabFaults' \in 0 .. FabMaxFaults
        BY <1>1, <3>6, FabAssumption
      <4>4. fabChip' \in FabChips /\ UNCHANGED <<fabChip.fwd, fabChip.up, fabChip.life>>
        BY <3>3, <3>6, <4>0
      <4>5. FabAllocStep(o, "idle")
        BY <1>2, <1>4, <3>6, <4>1, <4>2, <4>3, <4>4 DEF FabAllocStep
      <4> QED
        BY <4>5 DEF FabAllocPc
    <3> QED
      BY <2>3, <3>4, <3>5, <3>6 DEF AllocateQueues, AtPc
  <2> QED
    BY <1>11, <2>1, <2>2, <2>3 DEF FabQueues
<1>12. CASE FabVerify(o)
  <2>1. AtPc(o, "verify") /\ UNCHANGED <<fabChip, fabJ, fabFaults>>
    BY <1>12 DEF FabVerify, FabJournals
  <2> DEFINE pc == IF o = "wan" THEN "restore" ELSE "intent"
             x == [c EXCEPT !.pc = pc, !.seen = None]
  <2>2. CASE Finish(o)
    BY <1>5, <2>1, <2>2 DEF FabAllocPc
  <2>3. CASE /\ o # "agg" /\ Provisioned(PortOf(o)) /\ fabLock' = None /\ UNCHANGED fabFace
             /\ fabProc' = [fabProc EXCEPT ![o] = x]
    <3>1. pc \in {"restore", "intent"} /\ pc \in FabPcs /\ pc \notin FabAllocating /\ pc # "idle" /\ pc \in FabAllocPc(o)
      BY <1>1, <1>4, <2>3 DEF FabPcs, FabAllocPc
    <3> HIDE DEF pc
    <3>2. x \in FabProcess /\ x.pc = pc /\ x.op = c.op /\ x.life = c.life
      BY <1>1, <3>1 DEF FabProcess, FabSights
    <3> HIDE DEF x
    <3>3. FabMoved(o, pc)
      BY <1>1, <2>3, <3>2 DEF FabMoved, FabNow, FabShape, FabLives
    <3>4. FabAllocLooks(o, pc)
      BY <2>1, <2>3, <3>1 DEF FabAllocLooks, Provisioned
    <3>5. fabLock = o
      BY <1>3, <2>1 DEF AtPc, FabPc, FabAllocating
    <3> QED
      BY <1>1, <1>2, <2>1, <2>3, <3>1, <3>3, <3>4, <3>5 DEF FabAllocStep
  <2> QED
    BY <1>12, <2>2, <2>3 DEF FabVerify
<1> QED
  BY <1>7, <1>10, <1>11, <1>12 DEF FabAllocate

LEMMA FabCoreAllocate == ASSUME FabCore, NEW o \in FabOwner, FabAllocate(o) PROVE FabCore'
PROOF
<1> USE FabNoneAssumption
<1>1. PICK pc \in FabAllocPc(o) : FabAllocStep(o, pc)
  BY FabAllocates
<1>2. fabJ \in FabRecords /\ fabJ.life <= fabChip.life /\ fabProc[o].life <= fabChip.life /\ fabProc[o] \in FabProcess
  BY DEF FabCore, FabShape, FabLives
<1>3. fabJ' \in FabRecords /\ fabJ'.life <= fabChip.life
  BY <1>1, <1>2 DEF FabAllocStep, FabAllocLooks, FabAllocIntends, FabAllocSettles, FabAllocMakes, FabRecords, FabResource, FabProcess, PortOf
<1>4. fabFaults \in 0 .. FabMaxFaults /\ fabFaults <= fabFaults'
  BY <1>1, FabAssumption DEF FabAllocStep, FabCore, FabShape
<1> QED
  BY <1>1, <1>3, <1>4, FabAllocMoves DEF FabAllocStep, FabAllocPc

\* ---- every step ----

LEMMA FabCoreInit == FabInit => FabCore
PROOF
<1> SUFFICES ASSUME FabInit PROVE FabCore
  OBVIOUS
<1> USE FabNoneAssumption
<1>1. NewChip \in FabChips /\ NewChip.life = 1 /\ (\A x \in FabPort : ~NewChip.fwd[x])
  BY DEF NewChip, FabChips, FabHeaders, FabQueueMap, FabResource, FabPort
<1>2. FabIdle \in FabProcess /\ FabIdle.pc = "idle" /\ FabIdle.life = 0
  <2>1. FabIdle.pc \in FabPcs /\ FabIdle.seen \in FabSights /\ FabIdle.boot \in FabBootOrNone
    BY DEF FabIdle, FabPcs, FabSights, FabBootOrNone
  <2> QED
    BY <2>1 DEF FabIdle, FabProcess
<1>3. /\ fabChip = NewChip /\ fabProc = [o \in FabOwner |-> FabIdle] /\ fabFace = None /\ fabLock = None
      /\ fabJ \in FabRecords /\ phyJ \in PhyRecords /\ wanJ \in WanRecords /\ aggJ \in AggRecords
      /\ fabJ.life = 0 /\ phyJ.life = 0 /\ wanJ.life = 0 /\ aggJ.life = 0 /\ aggJ.phase = "stopped"
      /\ wanTimer = FALSE /\ fabFaults \in 0 .. FabMaxFaults
  <2>1. fabFaults \in 0 .. FabMaxFaults
    BY FabAssumption DEF FabInit
  <2> QED
    BY <2>1 DEF FabInit, FabRecords, PhyRecords, WanRecords, AggRecords, FabBootOrNone
<1>4. FabShape
  <2>1. fabProc \in [FabOwner -> FabProcess] /\ fabChip \in FabChips
    BY <1>1, <1>2, <1>3
  <2>2. fabFaults \in 0 .. FabMaxFaults
    BY <1>3, FabAssumption
  <2>3. wanTimer \in BOOLEAN
    BY <1>3
  <2> QED
    BY <1>3, <2>1, <2>2, <2>3 DEF FabShape
<1>5. FabLives
  BY <1>1, <1>2, <1>3, FabAssumption DEF FabLives
<1>6. FabHeld
  BY <1>2, <1>3 DEF FabHeld, FabPc, FabPcOf, FabOwner, FabAllocating, FabWanFaced
<1>7. FabPhy /\ FabWan /\ FabAgg
  BY <1>2, <1>3 DEF FabPhy, FabWan, FabAgg, FabPc, FabOwner, FabAllocating, FabWanFaced, FabAggStarts, FabAggCloses, AggOwns
<1>8. RedirectJournaled /\ RecordTrue
  <2>1. ~phyJ.on /\ ~wanJ.on
    BY DEF FabInit
  <2> QED
    BY <1>1, <1>3, <2>1 DEF RedirectJournaled, RecordTrue, FabPort
<1> QED
  BY <1>4, <1>5, <1>6, <1>7, <1>8 DEF FabCore

LEMMA FabCoreNext == FabCore /\ [FabNext]_fabVars => FabCore'
PROOF
<1> SUFFICES ASSUME FabCore, [FabNext]_fabVars PROVE FabCore'
  OBVIOUS
<1>1. CASE PhyStep
  BY <1>1, FabCorePhyLook, FabCorePhySteps, FabCoreAllocate DEF PhyStep, FabOwner
<1>2. CASE WanStep
  BY <1>2, FabCoreWanSteps, FabCoreAllocate DEF WanStep, FabOwner
<1>3. CASE AggStep
  BY <1>3, FabCoreAggSteps, FabCoreAllocate DEF AggStep, FabOwner
<1>4. CASE Watchdog
  BY <1>4, FabCoreWanBegin, FabCoreWanTimerEnds DEF Watchdog, WanCleanup, FabBootOrNone
<1>5. CASE Sweep
  BY <1>5, FabCoreAggBegin DEF Sweep
<1>6. CASE FabRequest
  <2>1. CASE \E op \in {"start", "stop"}, b \in FabBoots \cap fabWho.boots : PhyBegin(op, b)
    BY <2>1, FabCorePhyBegin
  <2>2. CASE \E op \in {"start", "prepare", "stop", "finish", "abort", "recover"}, b \in FabBoots \cap fabWho.boots : WanBegin(op, b)
    BY <2>2, FabCoreWanBegin DEF WanCleanup, FabBootOrNone
  <2>3. CASE AggFabric \/ AggPrepare \/ (\E all \in BOOLEAN : AggHeartbeat(all)) \/ AggStop("stop") \/ AggRecover
    BY <2>3, FabCoreAggBegin, FabCoreAggRest
  <2> QED
    BY <1>6, <2>1, <2>2, <2>3 DEF FabRequest
<1>7. CASE FabFault
  BY <1>7, FabCoreAggRest, FabCoreDies, FabCoreRestart DEF FabFault
<1>8. CASE \E x \in FabPort : AdminSet(x)
  BY <1>8, FabCoreAdminSet
<1>9. CASE UNCHANGED fabVars
  <2>1. UNCHANGED <<fabChip, fabJ, phyJ, wanJ, wanTimer, aggJ, fabFace, fabLock, fabProc, fabFaults>>
    BY <1>9 DEF fabVars
  <2>2. FabShape' /\ FabLives' /\ FabHeld'
    BY <2>1 DEF FabCore, FabShape, FabLives, FabHeld, FabPc
  <2>3. FabPhy' /\ FabWan' /\ FabAgg'
    BY <2>1 DEF FabCore, FabPhy, FabWan, FabAgg, AggOwns, FabPc
  <2>4. RedirectJournaled' /\ RecordTrue'
    BY <2>1 DEF FabCore, RedirectJournaled, RecordTrue, AggOwns
  <2> QED
    BY <2>2, <2>3, <2>4 DEF FabCore
<1> QED
  BY <1>1, <1>2, <1>3, <1>4, <1>5, <1>6, <1>7, <1>8, <1>9 DEF FabNext

\* Within a lifetime the redirect of the aggregate's port is removed by the
\* physical owner, which is at work only where no aggregate is, and by the
\* aggregate, after it closed the link.
LEMMA FabBridges ==
  ASSUME FabCore, [FabNext]_fabVars, fabChip.fwd["p"], ~fabChip'.fwd["p"], fabChip'.life = fabChip.life, AggOwns
  PROVE  ~fabChip.up["p"]
PROOF
<1> DEFINE kept == fabChip'.fwd["p"] = fabChip.fwd["p"]
<1> SUFFICES ASSUME ~kept PROVE ~fabChip.up["p"]
  OBVIOUS
<1>1. /\ FabShape /\ "p" \in FabPort /\ "w" \in FabPort /\ fabChip \in FabChips
      /\ FabPc("phy") \in {"idle", "look"}
  BY DEF FabCore, FabShape, FabPort, FabAgg
<1>2. ASSUME NEW x \in FabPort, NEW on \in BOOLEAN, SetAdmin(x, on) PROVE kept
  BY <1>1, <1>2, FabAdmins
<1>3. ASSUME NEW o \in FabOwner, FabAllocate(o) PROVE kept
  <2>1. PICK pc \in FabAllocPc(o) : FabAllocStep(o, pc)
    BY <1>3, FabAllocates
  <2> QED
    BY <2>1 DEF FabAllocStep
<1>4. CASE PhyStep
  <2>1. CASE PhyLook
    BY <1>2, <2>1, <1>1 DEF PhyLook, Withdraw, PortOf
  <2> QED
    BY <1>1, <1>3, <1>4, <2>1 DEF PhyStep, PhyStart, PhyStop, PhyCommit, AtPc, FabPc, FabOwner
<1>5. CASE WanStep
  <2>1. CASE WanLook \/ WanCommit
    BY <2>1 DEF WanLook, WanCommit
  <2>2. CASE WanPrepareFabric
    <3>1. fabProc["wan"].before \in BOOLEAN
      BY <1>1 DEF FabShape, FabProcess, FabOwner
    <3> QED
      BY <1>1, <1>2, <2>2, <3>1 DEF WanPrepareFabric, Withdraw, PortOf
  <2>3. CASE WanStart \/ WanStop
    <3>1. UNCHANGED fabChip \/ (\E on \in BOOLEAN : Redirect("w", on))
      BY <2>3 DEF WanStart, WanStop
    <3> QED
      BY <1>1, <3>1, FabRedirects
  <2> QED
    BY <1>3, <1>5, <2>1, <2>2, <2>3 DEF WanStep, FabOwner
<1>6. CASE AggStep
  <2>1. CASE AggStart
    <3>1. \/ UNCHANGED fabChip \/ SetTrunk("empty") \/ Redirect("p", TRUE) \/ SetAdmin("p", TRUE)
      BY <2>1 DEF AggStart
    <3>2. CASE SetTrunk("empty")
      BY <1>1, <3>2, FabTrunks
    <3>3. CASE Redirect("p", TRUE)
      BY <1>1, <3>3, FabRedirects
    <3> QED
      BY <1>1, <1>2, <3>1, <3>2, <3>3
  <2>2. CASE AggClose
    <3>1. \/ UNCHANGED fabChip \/ SetTrunk("none") \/ SetAdmin("p", FALSE) \/ AtPc("agg", "cunfwd")
      BY <2>2 DEF AggClose
    <3>2. CASE SetTrunk("none")
      BY <1>1, <3>2, FabTrunks
    <3>3. CASE AtPc("agg", "cunfwd")
      BY <3>3 DEF FabCore, FabAgg, AtPc
    <3> QED
      BY <1>1, <1>2, <3>1, <3>2, <3>3
  <2> QED
    BY <1>3, <1>6, <2>1, <2>2 DEF AggStep, FabOwner
<1>7. CASE Watchdog \/ Sweep
  BY <1>7 DEF Watchdog, Sweep, WanBegin, WanTimerEnds, AggStop
<1>8. CASE FabRequest
  <2>1. CASE \E all \in BOOLEAN : AggHeartbeat(all)
    <3>1. PICK lag \in {"none", "empty", "full"} : SetTrunk(lag)
      BY <2>1 DEF AggHeartbeat
    <3> QED
      BY <1>1, <3>1, FabTrunks
  <2>2. CASE AggRecover
    BY <2>2 DEF AggRecover
  <2> QED
    BY <1>8, <2>1, <2>2 DEF FabRequest, PhyBegin, WanBegin, AggFabric, AggPrepare, AggClaim, AggStop
<1>9. CASE FabFault
  <2>1. CASE BcmRestart
    <3>1. fabChip'.life = fabChip.life + 1 /\ fabChip.life \in Nat
      BY <1>1, <2>1, FabRestarts DEF FabChips
    <3> QED
      BY <3>1
  <2> QED
    BY <1>9, <2>1 DEF FabFault, LeaseLost, FabDies
<1>10. CASE \E x \in FabPort : AdminSet(x)
  BY <1>10 DEF AdminSet
<1>11. CASE UNCHANGED fabVars
  BY <1>11 DEF fabVars
<1> QED
  BY <1>4, <1>5, <1>6, <1>7, <1>8, <1>9, <1>10, <1>11 DEF FabNext

\* An aggregate's links are down before ordinary switching of its port is
\* restored (ffn_aggregate_hardware.py close()), for any set of owners in use,
\* deaths of any of them, and restarts of the switch daemon.
THEOREM AggregateNeverBridged == FabSpec => NeverBridged
PROOF
<1>1. FabInit => FabCore
  BY FabCoreInit
<1>2. FabCore /\ [FabNext]_fabVars => FabCore'
  BY FabCoreNext
<1>3. FabCore /\ [FabNext]_fabVars
      => [fabChip.fwd["p"] /\ ~fabChip'.fwd["p"] /\ fabChip'.life = fabChip.life /\ AggOwns => ~fabChip.up["p"]]_fabVars
  BY FabBridges
<1> QED
  BY <1>1, <1>2, <1>3, PTL DEF FabSpec, NeverBridged

-----------------------------------------------------------------------------
\* ---- what was left half built ----

FabWhole(x) == fabChip.q["t"] = "ok" /\ fabChip.q[x] = "ok"
\* What an allocating owner found, has on record and keeps down, and what the
\* owner that is about to raise a link knows of its queues.
FabAt(o) ==
  /\ FabPc(o) \in FabAllocating => \A x \in FabResource : fabChip.q[x] # "part"
  /\ FabPc(o) \in {"alloc1", "done1"} => fabJ.life = fabProc[o].life /\ fabJ.pending = "t"
  /\ FabPc(o) \in {"alloc2", "done2"} => fabJ.life = fabProc[o].life /\ fabJ.pending = PortOf(o)
  /\ FabPc(o) \in FabFabric /\ fabProc[o].life = fabChip.life => ~fabChip.up[PortOf(o)]
  /\ FabPc(o) = "up" => fabChip.up[PortOf(o)] \/ FabWhole(PortOf(o))
  /\ FabPc(o) = "restore" /\ fabProc[o].life = fabChip.life => FabWhole(PortOf(o))
FabAmb == (\A o \in FabOwner : FabAt(o)) /\ AmbiguousJournaled
\* The step that AmbiguousKeptDown asks for.
FabKept ==
  \A x \in FabPort :
    /\ fabChip'.q[x] = "part" /\ fabChip.q[x] # "part" => ~fabChip'.up[x]
    /\ {fabChip'.q[x], fabChip'.q["t"]} \cap HalfBuilt # {} /\ fabChip'.up[x] /\ ~fabChip.up[x] => AdminSet(x)

\* A step of o, to pc, that is no allocation and raises only links with whole queues.
LEMMA FabAmbMoves ==
  ASSUME FabCore, FabAmb, FabCore', NEW o \in FabOwner, NEW pc, FabNow(o, pc),
         pc \notin FabAllocating, pc # "restore",
         UNCHANGED <<fabJ, fabChip.q, fabChip.life>>,
         pc = "fabric" => ~fabChip'.up[PortOf(o)],
         pc = "up" => FabWhole(PortOf(o)),
         \A x \in FabPort : fabChip'.up[x] # fabChip.up[x] => x = PortOf(o) /\ (FabPc(o) # "idle" \/ fabFace = None),
         \A x \in FabPort : fabChip'.up[x] /\ ~fabChip.up[x] => FabWhole(x)
  PROVE  FabAmb' /\ FabKept
PROOF
<1> USE FabNoneAssumption
<1>1. \A y \in FabOwner : PortOf(y)' = PortOf(y) /\ PortOf(y) \in FabPort
  BY DEF PortOf, FabPort
<1>2. FabAt(o)'
  <2>1. FabPc(o)' = pc /\ pc \notin FabAllocating /\ pc \notin {"alloc1", "alloc2", "done1", "done2"}
    BY DEF FabNow, FabPc, FabAllocating
  <2> QED
    BY <1>1, <2>1 DEF FabAt, FabFabric, FabWhole
<1>3. ASSUME NEW y \in FabOwner, y # o PROVE FabAt(y)'
  <2>1. fabProc'[y] = fabProc[y] /\ FabAt(y)
    BY <1>3 DEF FabNow, FabAmb
  <2>2. FabPc(y) \in FabFabric \cup {"up", "restore"} => fabChip'.up[PortOf(y)] = fabChip.up[PortOf(y)]
    <3>1. ASSUME FabPc(y) \in FabFabric \cup {"up", "restore"}, fabChip'.up[PortOf(y)] # fabChip.up[PortOf(y)] PROVE FALSE
      <4>1. PortOf(y) = PortOf(o) /\ (FabPc(o) # "idle" \/ fabFace = None)
        BY <1>1, <3>1
      <4>2. {y, o} = {"phy", "agg"}
        BY <1>3, <4>1 DEF PortOf, FabOwner
      <4>3. FabPc(y) # "idle"
        BY <3>1 DEF FabFabric, FabAllocating
      <4>4. fabFace = y /\ (FabPc(o) # "idle" => fabFace = o)
        BY <4>2, <4>3 DEF FabCore, FabHeld
      <4> QED
        BY <1>3, <4>1, <4>4 DEF FabOwner
    <3> QED
      BY <3>1
  <2> QED
    BY <1>1, <2>1, <2>2 DEF FabAt, FabPc, FabWhole
<1>4. AmbiguousJournaled'
  BY DEF FabAmb, AmbiguousJournaled
<1>5. FabKept
  BY DEF FabKept, FabWhole, HalfBuilt
<1> QED
  BY <1>2, <1>3, <1>4, <1>5 DEF FabAmb

LEMMA FabAmbAllocate ==
  ASSUME FabCore, FabCore', FabAmb, NEW o \in FabOwner, FabAllocate(o)
  PROVE  FabAmb' /\ FabKept
PROOF
<1> USE FabNoneAssumption
<1>1. PICK pc \in FabAllocPc(o) : FabAllocStep(o, pc)
  BY FabAllocates
<1>2. /\ FabPc(o) \in FabFabric /\ FabMoved(o, pc) /\ FabNow(o, pc)
      /\ UNCHANGED <<fabChip.up, fabChip.life>>
      /\ FabPc(o) \in FabAllocating => fabLock = o
  BY <1>1 DEF FabAllocStep, FabMoved, FabCore, FabHeld
<1>3. FabAt(o) /\ AmbiguousJournaled /\ \A y \in FabOwner : FabAt(y)
  BY DEF FabAmb
<1>4. /\ DOMAIN fabChip.q = FabResource /\ PortOf(o) \in FabPort /\ PortOf(o) \in {"p", "w"} /\ fabJ \in FabRecords
      /\ \A y \in FabOwner : PortOf(y)' = PortOf(y) /\ PortOf(y) \in FabPort
  BY DEF PortOf, FabPort, FabCore, FabShape, FabChips, FabQueueMap
<1>5. /\ pc # "idle" => fabProc'[o].life = fabProc[o].life
      /\ fabProc'[o].pc = pc /\ \A y \in FabOwner : y # o => fabProc'[y] = fabProc[y]
  BY <1>2 DEF FabMoved, FabNow
\* Another owner is in the allocation only while this one only waits.
<1>6. ASSUME NEW y \in FabOwner, y # o, FabPc(o) \in FabAllocating
      PROVE  FabPc(y) \notin FabAllocating /\ FabPc(y) \notin {"alloc1", "done1", "alloc2", "done2"}
  BY <1>2, <1>6 DEF FabCore, FabHeld, FabAllocating
<1>7. CASE FabAllocLooks(o, pc)
  <2>1. fabChip'.q = fabChip.q /\ fabJ' = fabJ
    BY <1>7 DEF FabAllocLooks
  <2>2. ~SpoiltFabric => \A x \in FabResource : fabChip.q[x] # "part"
    BY <1>3, <1>4 DEF AmbiguousJournaled, SpoiltFabric, FabResource
  <2>3. FabAt(o)'
    <3>1. pc \in FabFabric \cup {"restore"} => fabProc'[o].life = fabProc[o].life
      BY <1>5 DEF FabFabric, FabAllocating
    <3>2. pc \in FabAllocating => \A x \in FabResource : fabChip.q[x] # "part"
      BY <1>3, <1>7, <2>2 DEF FabAllocLooks, FabAt
    <3>3. pc = "restore" => FabWhole(PortOf(o))
      BY <1>7 DEF FabAllocLooks, Provisioned, FabWhole
    <3>4. pc \notin {"alloc1", "alloc2", "done1", "done2", "up"}
      BY <1>7 DEF FabAllocLooks
    <3> QED
      BY <1>2, <1>3, <1>4, <1>5, <2>1, <3>1, <3>2, <3>3, <3>4 DEF FabAt, FabPc, FabWhole
  <2>4. \A y \in FabOwner : y # o => FabAt(y)'
    BY <1>2, <1>3, <1>4, <1>5, <2>1 DEF FabAt, FabPc, FabWhole
  <2>5. AmbiguousJournaled' /\ FabKept
    BY <1>2, <1>3, <2>1 DEF AmbiguousJournaled, FabKept
  <2> QED
    BY <2>3, <2>4, <2>5 DEF FabAmb
<1>8. CASE FabAllocIntends(o, pc) \/ FabAllocSettles(o, pc)
  <2>1. /\ fabChip'.q = fabChip.q /\ FabPc(o) \in FabAllocating /\ Fenced(o)
        /\ pc \in {"headSet", "alloc1", "alloc2", "q1", "q2", "verify"}
    BY <1>8 DEF FabAllocIntends, FabAllocSettles
  <2>2. \A x \in FabResource : fabChip.q[x] # "part"
    BY <1>3, <2>1 DEF FabAt
  <2>3. FabAt(o)'
    <3>1. /\ pc \in {"alloc1"} => fabJ' = [life |-> fabProc[o].life, pending |-> "t"]
          /\ pc \in {"alloc2"} => fabJ' = [life |-> fabProc[o].life, pending |-> PortOf(o)]
      BY <1>8 DEF FabAllocIntends, FabAllocSettles
    <3>2. pc # "idle" /\ pc \notin {"up", "restore", "done1", "done2"}
      BY <2>1
    <3> QED
      BY <1>2, <1>3, <1>4, <1>5, <2>1, <2>2, <3>1, <3>2 DEF FabAt, FabPc
  <2>4. \A y \in FabOwner : y # o => FabAt(y)'
    BY <1>2, <1>3, <1>4, <1>5, <1>6, <2>1 DEF FabAt, FabPc, FabWhole
  <2>5. AmbiguousJournaled' /\ FabKept
    BY <1>2, <1>4, <2>1, <2>2 DEF AmbiguousJournaled, FabKept
  <2> QED
    BY <2>3, <2>4, <2>5 DEF FabAmb
<1>9. CASE FabAllocMakes(o, pc)
  <2>0. FabPc(o) \in {"alloc1", "alloc2"} /\ FabPc(o) \in FabAllocating /\ fabJ' = fabJ
    BY <1>9 DEF FabAllocMakes, FabAllocating
  <2> DEFINE k == IF FabPc(o) = "alloc1" THEN "t" ELSE PortOf(o)
             left == IF Fenced(o) THEN "part" ELSE "old"
  <2>1. /\ \/ fabChip'.q = [fabChip.q EXCEPT ![k] = "ok"] /\ pc \in {"done1", "done2"}
           \/ fabChip'.q = [fabChip.q EXCEPT ![k] = left] /\ pc = "idle"
        /\ FabPc(o) = "alloc1" => pc \in {"done1", "idle"}
        /\ FabPc(o) = "alloc2" => pc \in {"done2", "idle"}
        /\ fabChip.q[k] = "none"
    BY <1>9 DEF FabAllocMakes
  <2>2. /\ k \in FabResource /\ (k = "t" <=> FabPc(o) = "alloc1") /\ (k # "t" => k = PortOf(o))
        /\ \A x \in FabResource : x # k => fabChip'.q[x] = fabChip.q[x]
        /\ DOMAIN fabChip'.q = FabResource /\ fabChip'.q[k] = IF pc = "idle" THEN left ELSE "ok"
    BY <1>4, <2>0, <2>1 DEF FabResource
  <2>3. fabJ.life = fabProc[o].life /\ fabJ.pending = k /\ k # None
    BY <1>3, <1>4, <2>0 DEF FabAt
  <2>4. /\ \A x \in FabResource : fabChip.q[x] # "part"
        /\ left = "part" => fabProc[o].life = fabChip.life /\ ~fabChip.up[PortOf(o)]
    BY <1>2, <1>3, <2>0 DEF FabAt, Fenced, FabEpoch
  <2> HIDE DEF k, left
  <2>5. FabAt(o)'
    <3>1. CASE pc = "idle"
      BY <1>5, <3>1 DEF FabAt, FabPc, FabFabric, FabAllocating
    <3>2. CASE pc \in {"done1", "done2"}
      <4>1. \A x \in FabResource : fabChip'.q[x] # "part"
        BY <2>2, <2>4, <3>2
      <4> QED
        BY <1>2, <1>3, <1>4, <1>5, <2>0, <2>1, <2>2, <2>3, <3>2, <4>1 DEF FabAt, FabPc
    <3> QED
      BY <2>1, <3>1, <3>2
  <2>6. ASSUME NEW y \in FabOwner, y # o PROVE FabAt(y)'
    <3>1. /\ FabPc(y) \notin FabAllocating /\ FabPc(y) \notin {"alloc1", "done1", "alloc2", "done2"}
          /\ FabAt(y) /\ fabProc'[y] = fabProc[y]
      BY <1>3, <1>5, <1>6, <2>0, <2>6
    <3>2. FabWhole(PortOf(y)) => FabWhole(PortOf(y))'
      <4>1. PortOf(y) \in FabResource /\ "t" \in FabResource /\ PortOf(y)' = PortOf(y)
        BY <1>4 DEF FabPort, FabResource
      <4> QED
        BY <2>1, <2>2, <4>1 DEF FabWhole
    <3> QED
      BY <1>2, <1>4, <3>1, <3>2 DEF FabAt, FabPc
  <2>7. AmbiguousJournaled'
    <3>1. left = "part" => fabJ = [life |-> fabChip.life, pending |-> k]
      BY <1>4, <2>3, <2>4 DEF FabRecords
    <3> QED
      BY <1>2, <2>0, <2>2, <2>4, <3>1 DEF AmbiguousJournaled
  <2>8. FabKept
    <3>1. FabPort \subseteq FabResource /\ "t" \notin FabPort
      BY DEF FabPort, FabResource
    <3> QED
      BY <1>2, <2>2, <2>4, <3>1 DEF FabKept
  <2> QED
    BY <2>5, <2>6, <2>7, <2>8 DEF FabAmb
<1> QED
  BY <1>1, <1>7, <1>8, <1>9 DEF FabAllocStep

LEMMA FabAmbPhy ==
  ASSUME FabCore, FabAmb, FabCore', PhyLook \/ PhyStart \/ PhyStop \/ PhyCommit
  PROVE  FabAmb' /\ FabKept
PROOF
<1> DEFINE p == fabProc["phy"]
<1>1. /\ FabShape /\ FabLives /\ "phy" \in FabOwner /\ "p" \in FabPort /\ "w" \in FabPort /\ PortOf("phy") = "p"
      /\ fabChip \in FabChips /\ p \in FabProcess /\ p.life <= fabChip.life
      /\ UNCHANGED <<fabJ, wanTimer, aggJ>> /\ (AggOwns' <=> AggOwns)
  BY DEF PhyLook, PhyStart, PhyStop, PhyCommit, FabJournals, FabCore, FabShape, FabOwner, FabPort, PortOf, FabLives, AggOwns
<1>2. /\ p.pc \in {"look", "intent", "fwd", "up", "down", "unfwd", "commit"} /\ FabPc("phy") # "idle"
      /\ FabAt("phy")
  BY <1>1 DEF PhyLook, PhyStart, PhyStop, PhyCommit, AtPc, FabAmb, FabPc
\* A step that leaves the links as they are, and one that changes this link.
<1>3. ASSUME NEW pc \in {"idle", "fwd", "down", "up", "unfwd", "commit"}, FabMoved("phy", pc),
             UNCHANGED <<fabChip.q, fabChip.life, fabChip.up>>, pc = "up" => FabWhole("p")
      PROVE  FabAmb' /\ FabKept
  <2>1. pc \notin FabAllocating /\ FabNow("phy", pc)
    BY <1>3 DEF FabAllocating, FabMoved
  <2> QED
    BY <1>1, <1>2, <1>3, <2>1, FabAmbMoves
<1>4. CASE PhyLook
  <2>1. CASE Finish("phy") /\ UNCHANGED <<fabChip, phyJ>>
    BY <1>1, <1>3, <2>1, FabFinishes
  <2>2. ASSUME NEW pc \in {"fwd", "down"}, FabGoto("phy", pc), UNCHANGED fabChip PROVE FabAmb' /\ FabKept
    BY <1>1, <1>3, <2>2, FabGotoMoves DEF FabPcs
  <2>3. CASE Withdraw("phy")
    <3> DEFINE x == [p EXCEPT !.before = fabChip.up["p"], !.pc = "fabric"]
    <3>1. fabProc' = [fabProc EXCEPT !["phy"] = x] /\ SetAdmin("p", FALSE)
      BY <1>1, <2>3 DEF Withdraw
    <3>2. x \in FabProcess /\ x.pc = "fabric" /\ x.life = p.life
      BY <1>1 DEF FabProcess, FabPcs, FabChips, FabPort
    <3> HIDE DEF x
    <3>3. FabNow("phy", "fabric") /\ "fabric" \notin FabAllocating
      BY <1>1, <3>1, <3>2 DEF FabNow, FabShape, FabAllocating
    <3>4. /\ UNCHANGED <<fabChip.q, fabChip.life>> /\ ~fabChip'.up["p"]
          /\ \A y \in FabPort : fabChip'.up[y] = IF y = "p" THEN FALSE ELSE fabChip.up[y]
      BY <1>1, <3>1, FabAdmins
    <3> QED
      BY <1>1, <1>2, <3>3, <3>4, FabAmbMoves
  <2> QED
    BY <1>4, <2>1, <2>2, <2>3 DEF PhyLook
<1>5. CASE PhyStart
  <2>1. CASE AtPc("phy", "intent")
    <3>1. /\ UNCHANGED fabChip
          /\ FabGoto("phy", "fwd") \/ Finish("phy")
      BY <1>5, <2>1 DEF PhyStart, AtPc
    <3> QED
      BY <1>1, <1>3, <3>1, FabFinishes, FabGotoMoves DEF FabPcs
  <2>2. CASE AtPc("phy", "fwd")
    <3>1. \/ Provisioned("p") /\ Redirect("p", TRUE) /\ FabGoto("phy", "up")
          \/ Finish("phy") /\ UNCHANGED fabChip
      BY <1>5, <2>2 DEF PhyStart, AtPc
    <3>2. CASE Provisioned("p") /\ Redirect("p", TRUE) /\ FabGoto("phy", "up")
      <4>1. UNCHANGED <<fabChip.q, fabChip.life, fabChip.up>> /\ FabWhole("p")
        BY <1>1, <3>2, FabRedirects DEF Provisioned, FabWhole
      <4> QED
        BY <1>1, <1>3, <3>2, <4>1, FabGotoMoves DEF FabPcs
    <3> QED
      BY <1>1, <1>3, <3>1, <3>2, FabFinishes
  <2>3. CASE AtPc("phy", "up")
    <3> DEFINE on == p.before \/ fabChip.up["p"]
    <3>1. FabGoto("phy", "commit") /\ SetAdmin("p", on) /\ (fabChip.up["p"] \/ FabWhole("p"))
      BY <1>1, <1>2, <1>5, <2>3 DEF PhyStart, AtPc, FabAt, FabPc
    <3>2. on \in BOOLEAN
      OBVIOUS
    <3> HIDE DEF on
    <3>3. /\ UNCHANGED <<fabChip.q, fabChip.life>>
          /\ \A y \in FabPort : y # "p" => fabChip'.up[y] = fabChip.up[y]
      BY <1>1, <3>1, <3>2, FabAdmins
    <3>4. FabNow("phy", "commit") /\ "commit" \notin FabAllocating
      BY <1>1, <3>1, FabGotoMoves DEF FabPcs, FabMoved, FabAllocating
    <3> QED
      BY <1>1, <1>2, <3>1, <3>3, <3>4, FabAmbMoves
  <2> QED
    BY <1>5, <2>1, <2>2, <2>3 DEF PhyStart
<1>6. CASE PhyStop
  <2>1. CASE SetAdmin("p", FALSE) /\ FabGoto("phy", "unfwd")
    <3>1. /\ UNCHANGED <<fabChip.q, fabChip.life>>
          /\ \A y \in FabPort : fabChip'.up[y] = IF y = "p" THEN FALSE ELSE fabChip.up[y]
      BY <1>1, <2>1, FabAdmins
    <3>2. FabNow("phy", "unfwd") /\ "unfwd" \notin FabAllocating
      BY <1>1, <2>1, FabGotoMoves DEF FabPcs, FabMoved, FabAllocating
    <3> QED
      BY <1>1, <1>2, <3>1, <3>2, FabAmbMoves
  <2>2. CASE Redirect("p", FALSE) /\ FabGoto("phy", "commit")
    <3>1. UNCHANGED <<fabChip.q, fabChip.life, fabChip.up>>
      BY <1>1, <2>2, FabRedirects
    <3> QED
      BY <1>1, <1>3, <2>2, <3>1, FabGotoMoves DEF FabPcs
  <2> QED
    BY <1>6, <2>1, <2>2 DEF PhyStop
<1>7. CASE PhyCommit
  BY <1>1, <1>3, <1>7, FabFinishes DEF PhyCommit
<1> QED
  BY <1>4, <1>5, <1>6, <1>7

LEMMA FabAmbWan ==
  ASSUME FabCore, FabAmb, FabCore',
         WanLook \/ WanPrepareFabric \/ WanStart \/ WanStop \/ WanCommit
  PROVE  FabAmb' /\ FabKept
PROOF
<1> DEFINE w == fabProc["wan"]
<1>1. /\ FabShape /\ FabLives /\ "wan" \in FabOwner /\ "p" \in FabPort /\ "w" \in FabPort /\ PortOf("wan") = "w"
      /\ fabChip \in FabChips /\ w \in FabProcess /\ w.life <= fabChip.life
      /\ UNCHANGED <<fabJ, aggJ>> /\ (AggOwns' <=> AggOwns)
  BY DEF WanLook, WanPrepareFabric, WanStart, WanStop, WanCommit, FabJournals, FabCore, FabShape, FabOwner, FabPort, PortOf, FabLives, AggOwns
<1>2. /\ FabPc("wan") # "idle" /\ FabAt("wan")
  BY <1>1 DEF WanLook, WanPrepareFabric, WanStart, WanStop, WanCommit, AtPc, FabAmb, FabPc
<1>3. ASSUME NEW pc \in {"idle", "unfwd", "intent", "face", "fwd", "commit"}, FabMoved("wan", pc),
             UNCHANGED <<fabChip.q, fabChip.life, fabChip.up>>
      PROVE  FabAmb' /\ FabKept
  <2>1. pc \notin FabAllocating /\ FabNow("wan", pc)
    BY <1>3 DEF FabAllocating, FabMoved
  <2> QED
    BY <1>1, <1>2, <1>3, <2>1, FabAmbMoves
<1>4. ASSUME NEW pc \in {"idle", "unfwd", "intent", "face", "fwd", "commit"}, FabGoto("wan", pc) \/ (pc = "idle" /\ Finish("wan")),
             UNCHANGED <<fabChip.q, fabChip.life, fabChip.up>>
      PROVE  FabAmb' /\ FabKept
  BY <1>1, <1>3, <1>4, FabFinishes, FabGotoMoves DEF FabPcs
<1>5. CASE WanLook \/ WanCommit
  <2>1. UNCHANGED fabChip /\ \/ Finish("wan") \/ FabGoto("wan", "unfwd") \/ FabGoto("wan", "intent") \/ FabGoto("wan", "face")
    BY <1>5 DEF WanLook, WanCommit
  <2> QED
    BY <1>4, <2>1
<1>6. CASE WanPrepareFabric
  <2>1. CASE Withdraw("wan")
    <3> DEFINE x == [w EXCEPT !.before = fabChip.up["w"], !.pc = "fabric"]
    <3>1. fabProc' = [fabProc EXCEPT !["wan"] = x] /\ SetAdmin("w", FALSE)
      BY <1>1, <2>1 DEF Withdraw
    <3>2. x \in FabProcess /\ x.pc = "fabric" /\ x.life = w.life
      BY <1>1 DEF FabProcess, FabPcs, FabChips, FabPort
    <3> HIDE DEF x
    <3>3. FabNow("wan", "fabric") /\ "fabric" \notin FabAllocating
      BY <1>1, <3>1, <3>2 DEF FabNow, FabShape, FabAllocating
    <3>4. /\ UNCHANGED <<fabChip.q, fabChip.life>> /\ ~fabChip'.up["w"]
          /\ \A y \in FabPort : fabChip'.up[y] = IF y = "w" THEN FALSE ELSE fabChip.up[y]
      BY <1>1, <3>1, FabAdmins
    <3> QED
      BY <1>1, <1>2, <3>3, <3>4, FabAmbMoves
  <2>2. CASE AtPc("wan", "restore") /\ ~Withdraw("wan")
    <3>1. \/ Fenced("wan") /\ SetAdmin("w", w.before) /\ FabGoto("wan", "intent")
          \/ Finish("wan") /\ UNCHANGED fabChip
      BY <1>6, <2>2 DEF WanPrepareFabric, AtPc
    <3>2. CASE Fenced("wan") /\ SetAdmin("w", w.before) /\ FabGoto("wan", "intent")
      <4>1. w.before \in BOOLEAN /\ FabWhole("w")
        BY <1>1, <1>2, <2>2, <3>2 DEF FabProcess, FabAt, FabPc, AtPc, Fenced, FabEpoch
      <4>2. /\ UNCHANGED <<fabChip.q, fabChip.life>>
            /\ \A y \in FabPort : y # "w" => fabChip'.up[y] = fabChip.up[y]
        BY <1>1, <3>2, <4>1, FabAdmins
      <4>3. FabNow("wan", "intent") /\ "intent" \notin FabAllocating
        BY <1>1, <3>2, FabGotoMoves DEF FabPcs, FabMoved, FabAllocating
      <4> QED
        BY <1>1, <1>2, <4>1, <4>2, <4>3, FabAmbMoves
    <3> QED
      BY <1>4, <3>1, <3>2
  <2> QED
    BY <1>6, <2>1, <2>2 DEF WanPrepareFabric
<1>7. CASE WanStart \/ WanStop
  <2>1. \/ UNCHANGED fabChip /\ (FabGoto("wan", "fwd") \/ Finish("wan"))
        \/ (\E on \in BOOLEAN : Redirect("w", on)) /\ FabGoto("wan", "commit")
    BY <1>7 DEF WanStart, WanStop
  <2> QED
    BY <1>1, <1>4, <2>1, FabRedirects
<1> QED
  BY <1>5, <1>6, <1>7

LEMMA FabAmbAgg ==
  ASSUME FabCore, FabAmb, FabCore', AggStart \/ AggClose
  PROVE  FabAmb' /\ FabKept
PROOF
<1> DEFINE a == fabProc["agg"]
<1>1. /\ FabShape /\ FabLives /\ "agg" \in FabOwner /\ "p" \in FabPort /\ "w" \in FabPort /\ PortOf("agg") = "p"
      /\ fabChip \in FabChips /\ a.life <= fabChip.life
      /\ UNCHANGED <<fabJ, wanTimer>>
  BY DEF AggStart, AggClose, FabJournals, FabCore, FabShape, FabOwner, FabPort, PortOf, FabLives
<1>2. /\ FabPc("agg") # "idle" /\ FabAt("agg")
  BY <1>1 DEF AggStart, AggClose, AtPc, FabAmb, FabPc
<1> DEFINE Pcs == {"idle", "close", "created", "fwd", "up", "commit", "cdown", "clag", "cunfwd", "cdone"}
<1>3. ASSUME NEW pc \in Pcs, FabGoto("agg", pc) \/ (pc = "idle" /\ Finish("agg")),
             UNCHANGED <<fabChip.q, fabChip.life>>,
             \A y \in FabPort : y # "p" => fabChip'.up[y] = fabChip.up[y],
             fabChip'.up["p"] => fabChip.up["p"] \/ FabWhole("p"),
             pc = "up" => FabWhole("p")
      PROVE  FabAmb' /\ FabKept
  <2>1. FabNow("agg", pc) /\ pc \notin FabAllocating /\ pc \notin {"fabric", "restore"}
    BY <1>1, <1>3, FabFinishes, FabGotoMoves DEF FabPcs, FabMoved, FabAllocating, FabAggCloses
  <2> QED
    BY <1>1, <1>2, <1>3, <2>1, FabAmbMoves
<1>4. CASE AggStart
  <2>1. CASE UNCHANGED fabChip /\ (Finish("agg") \/ FabGoto("agg", "close") \/ FabGoto("agg", "fwd"))
    BY <1>3, <2>1
  <2>2. CASE SetTrunk("empty") /\ FabGoto("agg", "created")
    <3>1. UNCHANGED <<fabChip.q, fabChip.life, fabChip.up>>
      BY <1>1, <2>2, FabTrunks
    <3> QED
      BY <1>3, <2>2, <3>1
  <2>3. CASE Provisioned("p") /\ Redirect("p", TRUE) /\ FabGoto("agg", "up")
    <3>1. UNCHANGED <<fabChip.q, fabChip.life, fabChip.up>> /\ FabWhole("p")
      BY <1>1, <2>3, FabRedirects DEF Provisioned, FabWhole
    <3> QED
      BY <1>3, <2>3, <3>1
  <2>4. CASE AtPc("agg", "up") /\ SetAdmin("p", TRUE) /\ FabGoto("agg", "commit")
    <3>1. /\ UNCHANGED <<fabChip.q, fabChip.life>> /\ (fabChip.up["p"] \/ FabWhole("p"))
          /\ \A y \in FabPort : y # "p" => fabChip'.up[y] = fabChip.up[y]
      BY <1>1, <1>2, <2>4, FabAdmins DEF FabAt, FabPc, AtPc
    <3> QED
      BY <1>3, <2>4, <3>1
  <2> QED
    BY <1>4, <2>1, <2>2, <2>3, <2>4 DEF AggStart
<1>5. CASE AggClose
  <2>1. CASE UNCHANGED fabChip
    <3>1. Finish("agg") \/ FabGoto("agg", "cdown") \/ FabGoto("agg", "clag") \/ FabGoto("agg", "cunfwd") \/ FabGoto("agg", "cdone")
      BY <1>5, <2>1 DEF AggClose
    <3> QED
      BY <1>3, <2>1, <3>1
  <2>2. CASE SetAdmin("p", FALSE) /\ FabGoto("agg", "clag")
    <3>1. /\ UNCHANGED <<fabChip.q, fabChip.life>>
          /\ \A y \in FabPort : fabChip'.up[y] = IF y = "p" THEN FALSE ELSE fabChip.up[y]
      BY <1>1, <2>2, FabAdmins
    <3>2. ~fabChip'.up["p"] /\ "clag" \in Pcs
      BY <1>1, <3>1
    <3> QED
      BY <1>3, <2>2, <3>1, <3>2
  <2>3. CASE SetTrunk("none") /\ FabGoto("agg", "cunfwd")
    <3>1. UNCHANGED <<fabChip.q, fabChip.life, fabChip.up>>
      BY <1>1, <2>3, FabTrunks
    <3> QED
      BY <1>3, <2>3, <3>1
  <2>4. CASE Redirect("p", FALSE) /\ FabGoto("agg", "cdone")
    <3>1. UNCHANGED <<fabChip.q, fabChip.life, fabChip.up>>
      BY <1>1, <2>4, FabRedirects
    <3> QED
      BY <1>3, <2>4, <3>1
  <2> QED
    BY <1>5, <2>1, <2>2, <2>3, <2>4 DEF AggClose
<1> QED
  BY <1>4, <1>5

\* A request begins, and the watchdog finds nothing to do.
LEMMA FabAmbRequests ==
  ASSUME FabCore, FabAmb, FabCore', FabRequest \/ Watchdog \/ Sweep
  PROVE  FabAmb' /\ FabKept
PROOF
<1> USE FabNoneAssumption
<1>1. /\ FabShape /\ FabLives /\ fabChip \in FabChips /\ "phy" \in FabOwner /\ "wan" \in FabOwner /\ "agg" \in FabOwner
      /\ fabProc["agg"].life <= fabChip.life /\ fabProc["wan"].life <= fabChip.life
  BY DEF FabCore, FabShape, FabOwner, FabLives, FabAmb
<1>2. ASSUME NEW o \in FabOwner, NEW pc \in {"look", "create", "close"}, FabNow(o, pc),
             UNCHANGED <<fabChip, fabJ>>
      PROVE  FabAmb' /\ FabKept
  BY <1>1, <1>2, FabAmbMoves DEF FabAllocating
<1>3. ASSUME NEW op \in {"start", "stop"}, NEW b \in FabBoots, PhyBegin(op, b) PROVE FabAmb' /\ FabKept
  <2>1. FabNow("phy", "look") /\ UNCHANGED <<fabChip, fabJ, wanTimer, aggJ>>
    BY <1>1, <1>3, FabBegins DEF PhyBegin, FabJournals, FabPcs, FabOps, FabBootOrNone
  <2> QED
    BY <1>1, <1>2, <1>3, <2>1
<1>4. ASSUME NEW op \in {"start", "prepare"} \cup WanCleanup, NEW b \in FabBootOrNone, WanBegin(op, b) PROVE FabAmb' /\ FabKept
  <2>1. FabNow("wan", "look") /\ UNCHANGED <<fabChip, fabJ, wanTimer, aggJ>>
    BY <1>1, <1>4, FabBegins DEF WanBegin, FabJournals, FabPcs, FabOps
  <2> QED
    BY <1>1, <1>2, <1>4, <2>1
<1>5. CASE WanTimerEnds
  <2>1. /\ UNCHANGED <<fabChip, fabJ, aggJ, fabProc>> /\ ~wanTimer' /\ AtPc("wan", "idle")
    BY <1>5 DEF WanTimerEnds
  <2>2. FabNow("wan", "idle") /\ "idle" \notin FabAllocating
    BY <1>1, <2>1 DEF FabNow, FabShape, AtPc, FabAllocating
  <2> QED
    BY <1>1, <2>1, <2>2, FabAmbMoves
<1>6. ASSUME NEW pc \in {"fabric", "create", "close"}, NEW op \in {"fabric", "prepare", "stop", "sweep"}, AggGo(pc, op),
             UNCHANGED <<fabChip, fabJ, wanTimer>>, pc = "fabric" => ~fabChip.up["p"]
      PROVE  FabAmb' /\ FabKept
  <2>1. fabProc' = [fabProc EXCEPT !["agg"] = [FabIdle EXCEPT !.pc = pc, !.op = op, !.life = FabEpoch]]
    BY <1>6 DEF AggGo
  <2>2. /\ pc \in FabPcs /\ op \in FabOps \cup {"fabric", "sweep"} /\ None \in FabBootOrNone /\ pc \notin FabAllocating
    BY DEF FabPcs, FabOps, FabBootOrNone, FabAllocating
  <2>3. FabNow("agg", pc)
    BY <1>1, <2>1, <2>2, FabBegins
  <2> QED
    BY <1>1, <1>6, <2>2, <2>3, FabAmbMoves DEF PortOf
<1>7. CASE (AggFabric \/ AggPrepare)
  BY <1>6, <1>7 DEF AggFabric, AggPrepare, AggClaim, FabJournals
<1>8. ASSUME NEW op \in {"stop", "sweep"}, AggStop(op) PROVE FabAmb' /\ FabKept
  BY <1>6, <1>8 DEF AggStop, FabJournals
<1>9. CASE ((\E all \in BOOLEAN : AggHeartbeat(all)) \/ AggRecover)
  <2>1. AtPc("agg", "idle") /\ UNCHANGED <<fabJ, wanTimer, fabProc>>
    BY <1>9 DEF AggHeartbeat, AggRecover
  <2>2. FabNow("agg", "idle") /\ "idle" \notin FabAllocating
    BY <1>1, <2>1 DEF FabNow, FabShape, AtPc, FabAllocating
  <2>3. /\ UNCHANGED <<fabChip.q, fabChip.life>> /\ \A y \in FabPort : fabChip'.up[y] => fabChip.up[y]
        /\ \A y \in FabPort : fabChip'.up[y] # fabChip.up[y] => y = PortOf("agg") /\ fabFace = None
    <3>1. CASE \E all \in BOOLEAN : AggHeartbeat(all)
      <4>1. PICK lag \in {"none", "empty", "full"} : SetTrunk(lag)
        BY <3>1 DEF AggHeartbeat
      <4> QED
        BY <1>1, <4>1, FabTrunks
    <3>2. CASE AggRecover
      BY <1>1, <3>2 DEF AggRecover, FabChips, PortOf
    <3> QED
      BY <1>9, <3>1, <3>2
  <2> QED
    BY <1>1, <1>9, <2>1, <2>2, <2>3, FabAmbMoves
<1>10. CASE Watchdog
  BY <1>1, <1>4, <1>5, <1>10 DEF Watchdog, WanCleanup, FabBootOrNone
<1>11. CASE Sweep
  BY <1>1, <1>8, <1>11 DEF Sweep
<1>12. CASE FabRequest
  BY <1>3, <1>4, <1>7, <1>8, <1>9, <1>12 DEF FabRequest, WanCleanup, FabBootOrNone
<1> QED
  BY <1>10, <1>11, <1>12

LEMMA FabAmbFaults ==
  ASSUME FabCore, FabAmb, FabCore', FabFault \/ (\E x \in FabPort : AdminSet(x))
  PROVE  FabAmb' /\ FabKept
PROOF
<1> USE FabNoneAssumption
<1>1. /\ FabShape /\ FabLives /\ fabChip \in FabChips /\ fabJ \in FabRecords
      /\ AmbiguousJournaled /\ \A o \in FabOwner : FabAt(o)
      /\ \A o \in FabOwner : PortOf(o) \in FabPort /\ PortOf(o)' = PortOf(o)
  BY DEF FabCore, FabShape, FabAmb, PortOf, FabPort
<1>2. CASE LeaseLost
  <2>1. UNCHANGED <<fabChip, fabJ, fabProc>>
    BY <1>2 DEF LeaseLost
  <2> QED
    BY <1>1, <2>1 DEF FabAmb, FabAt, FabPc, FabWhole, AmbiguousJournaled, FabKept
<1>3. ASSUME NEW o \in FabOwner, FabDies(o) PROVE FabAmb' /\ FabKept
  <2>1. UNCHANGED <<fabChip, fabJ>> /\ (Finish(o) \/ FabGoto(o, "close"))
    BY <1>3 DEF FabDies, FabJournals
  <2>2. PICK pc \in {"idle", "close"} : FabNow(o, pc)
    BY <1>1, <2>1, FabFinishes, FabGotoMoves DEF FabMoved, FabPcs
  <2>3. pc \notin FabAllocating
    BY DEF FabAllocating
  <2> QED
    BY <1>1, <2>1, <2>2, <2>3, FabAmbMoves
\* Whatever was being allocated is of an older lifetime now.
<1>4. CASE BcmRestart
  <2>1. /\ fabChip' \in FabChips /\ fabChip'.life = fabChip.life + 1
        /\ \/ fabChip'.up = fabChip.up /\ fabChip'.q = Aged(fabChip.q)
           \/ (\A x \in FabPort : fabChip'.up[x]) /\ (\A x \in FabResource : fabChip'.q[x] = "none")
        /\ UNCHANGED <<fabJ, fabProc>>
    BY <1>1, <1>4, FabRestarts
  <2>2. DOMAIN fabChip.q = FabResource /\ DOMAIN fabChip'.q = FabResource
    BY <1>1, <2>1 DEF FabChips, FabQueueMap
  <2>3. /\ \A x \in FabResource : fabChip'.q[x] # "part"
        /\ \/ /\ fabChip'.up = fabChip.up
              /\ \A x \in FabResource : fabChip.q[x] = "ok" => fabChip'.q[x] = "ok"
           \/ /\ \A x \in FabPort : fabChip'.up[x]
              /\ \A x \in FabResource : fabChip'.q[x] = "none"
    BY <2>1, <2>2 DEF Aged
  <2>4. ASSUME NEW o \in FabOwner PROVE FabAt(o)'
    <3>1. fabProc[o].life # fabChip'.life
      <4>1. fabProc[o].life \in Nat /\ fabProc[o].life <= fabChip.life /\ fabChip.life \in Nat
        BY <1>1 DEF FabShape, FabLives, FabProcess, FabChips
      <4> QED
        BY <2>1, <4>1
    <3>2. PortOf(o) \in FabResource /\ "t" \in FabResource
      BY <1>1 DEF FabPort, FabResource
    <3> QED
      BY <1>1, <2>1, <2>3, <3>1, <3>2 DEF FabAt, FabPc, FabWhole
  <2>5. AmbiguousJournaled' /\ FabKept
    <3>1. FabPort \subseteq FabResource /\ "t" \in FabResource
      BY DEF FabPort, FabResource
    <3> QED
      BY <2>2, <2>3, <3>1 DEF AmbiguousJournaled, FabKept, HalfBuilt
  <2> QED
    BY <2>4, <2>5 DEF FabAmb
<1>5. ASSUME NEW x \in FabPort, AdminSet(x) PROVE FabAmb' /\ FabKept
  <2>1. /\ fabFace = None /\ UNCHANGED <<fabJ, fabProc>>
        /\ UNCHANGED <<fabChip.q, fabChip.life>> /\ \A y \in FabPort : y # x => fabChip'.up[y] = fabChip.up[y]
    BY <1>1, <1>5 DEF AdminSet, FabJournals, FabChips, FabPort
  <2>2. \A o \in FabOwner : FabPc(o) \notin FabFabric \cup {"up", "restore"}
    <3>1. FabPc("phy") = "idle" /\ FabPc("agg") = "idle" /\ FabPc("wan") \notin FabWanFaced /\ FabPc("wan") \in FabPcOf("wan")
      BY <2>1 DEF FabCore, FabHeld, FabOwner
    <3> QED
      BY <3>1 DEF FabOwner, FabFabric, FabWanFaced, FabAllocating, FabPcOf
  <2>3. \A o \in FabOwner : FabAt(o)'
    BY <1>1, <2>1, <2>2 DEF FabAt, FabPc
  <2>4. AmbiguousJournaled' /\ FabKept
    BY <1>1, <1>5, <2>1 DEF AmbiguousJournaled, FabKept
  <2> QED
    BY <2>3, <2>4 DEF FabAmb
<1> QED
  BY <1>2, <1>3, <1>4, <1>5 DEF FabFault

LEMMA FabAmbInit == FabInit => FabAmb
PROOF
<1> SUFFICES ASSUME FabInit PROVE FabAmb
  OBVIOUS
<1>1. /\ fabChip = NewChip /\ fabProc = [o \in FabOwner |-> FabIdle]
      /\ \A x \in DOMAIN NewChip.q : NewChip.q[x] = "none"
  BY DEF FabInit, NewChip, FabPort
<1>2. \A o \in FabOwner : FabPc(o) = "idle"
  BY <1>1 DEF FabPc, FabIdle
<1>3. AmbiguousJournaled
  BY <1>1 DEF AmbiguousJournaled
<1>4. \A o \in FabOwner : FabAt(o)
  BY <1>2 DEF FabAt, FabFabric, FabAllocating
<1> QED
  BY <1>3, <1>4 DEF FabAmb

LEMMA FabAmbNext == ASSUME FabCore, FabAmb, [FabNext]_fabVars PROVE FabAmb' /\ [FabKept]_fabVars
PROOF
<1>1. FabCore'
  BY FabCoreNext
<1>2. CASE UNCHANGED fabVars
  <2>1. UNCHANGED <<fabChip, fabJ, fabProc>>
    BY <1>2 DEF fabVars
  <2> QED
    BY <1>2, <2>1 DEF FabAmb, FabAt, FabPc, FabWhole, AmbiguousJournaled, PortOf
<1>3. CASE FabNext
  <2>1. CASE PhyStep
    BY <1>1, <2>1, FabAmbPhy, FabAmbAllocate DEF PhyStep, FabOwner
  <2>2. CASE WanStep
    BY <1>1, <2>2, FabAmbWan, FabAmbAllocate DEF WanStep, FabOwner
  <2>3. CASE AggStep
    BY <1>1, <2>3, FabAmbAgg, FabAmbAllocate DEF AggStep, FabOwner
  <2> QED
    BY <1>1, <1>3, <2>1, <2>2, <2>3, FabAmbRequests, FabAmbFaults DEF FabNext
<1> QED
  BY <1>2, <1>3

LEMMA FabCoreSafe == FabCore => FabTypeOK /\ RedirectJournaled /\ RecordTrue /\ OneFabricOwner
PROOF
<1> SUFFICES ASSUME FabCore PROVE FabTypeOK /\ OneFabricOwner
  BY DEF FabCore
<1>1. FabShape /\ FabLives /\ FabHeld /\ FabAgg /\ fabChip \in FabChips /\ fabFaults \in 0 .. FabMaxFaults
  BY DEF FabCore, FabShape
<1>2. FabTypeOK
  <2>1. fabChip.life \in 1 .. FabMaxFaults + 1
    BY <1>1, FabAssumption DEF FabLives
  <2>2. /\ fabChip.lag \in {"none", "empty", "full"} /\ fabFace \in FabOwner \cup {None} /\ fabLock \in FabOwner \cup {None}
        /\ \A x \in DOMAIN fabChip.q : fabChip.q[x] \in {"none", "ok"} \cup HalfBuilt
    BY <1>1 DEF FabShape, FabChips, FabQueueMap
  <2>3. aggJ.phase \in {"stopped", "preparing", "active", "stopping"}
    BY <1>1 DEF FabShape, AggRecords
  <2>4. \A o \in FabOwner : fabFace = o \/ fabLock = o => fabProc[o].pc # "idle"
    BY <1>1 DEF FabHeld, FabPc, FabOwner, FabAllocating, FabWanFaced
  <2> QED
    BY <2>1, <2>2, <2>3, <2>4 DEF FabTypeOK
<1>3. OneFabricOwner
  BY <1>1 DEF FabAgg, OneFabricOwner, AggOwns, FabPc
<1> QED
  BY <1>2, <1>3

\* All of FabSafe, also that an ambiguous allocation is on record
\* (ffn_packet_fabric.py _ensure), whichever owners of whichever ports are in use.
THEOREM FabricOwnersSafe == FabSpec => []FabSafe
PROOF
<1>1. FabInit => FabCore /\ FabAmb
  BY FabCoreInit, FabAmbInit
<1>2. FabCore /\ FabAmb /\ [FabNext]_fabVars => (FabCore /\ FabAmb)'
  BY FabCoreNext, FabAmbNext
<1>3. FabCore /\ FabAmb => FabSafe
  BY FabCoreSafe DEF FabAmb, FabSafe
<1> QED
  BY <1>1, <1>2, <1>3, PTL DEF FabSpec

\* No owner leaves a port half built under a link that is up, or raises a link
\* over half-built queues (ffn_portctl.c portctl_execute, ffn_wan_forwarding.py
\* prepare_fabric): only an administrator or a reset of the switch does.
THEOREM AmbiguousLinkStaysDown == FabSpec => AmbiguousKeptDown
PROOF
<1>1. FabInit => FabCore /\ FabAmb
  BY FabCoreInit, FabAmbInit
<1>2. FabCore /\ FabAmb /\ [FabNext]_fabVars => (FabCore /\ FabAmb)' /\ [FabKept]_fabVars
  BY FabCoreNext, FabAmbNext
<1> QED
  BY <1>1, <1>2, PTL DEF FabSpec, AmbiguousKeptDown, FabKept
=============================================================================
