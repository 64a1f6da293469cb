------------------------------ MODULE SfpCages ------------------------------
(***************************************************************************)
(* One SFP+ cage of the faceplate: the module in it, the expander pins     *)
(* that gate its laser (ffn_sfp.c, ffn_sfp_control.py), the switch port    *)
(* behind it (ffn_bcm_link.py), the journalled administrative operations   *)
(* (ffn_faceplate.py) and the insertion watcher with its transmit check    *)
(* (ffn_sfp.c, ffn_sfp_watch.py, ffn_sfp_check.py).                        *)
(*                                                                         *)
(* Operations, re-links and remedies take the faceplate lock; inventories  *)
(* and checks do not.  A module is named by what the code tells apart:     *)
(* 1 Gb/s optics, 10 Gb/s optics, an RJ45 module (valid identity, not      *)
(* optical) and one whose identity never validates.                        *)
(***************************************************************************)
EXTENDS FfnCommon, Integers, Sequences

CONSTANTS SfpModules,     \* the modules at hand, of "g1", "x10", "rj", "bad"
          SfpRequests,    \* faceplate requests [enabled, speed]
          SfpDeadline,    \* polls until an unreadable module is given up
          MaxSwap, MaxBusFault   \* bounds: insertions, failed transfers or calls

\* What can be asked: a link speed, an administrative state, or both.
SfpSpeeds == {None, "auto", "1000", "10000"}
SfpAsked == [enabled : BOOLEAN \cup {None}, speed : SfpSpeeds]
ASSUME SfpAssumption ==
  /\ SfpModules \subseteq {"g1", "x10", "rj", "bad"} /\ SfpRequests \subseteq SfpAsked
  /\ SfpDeadline \in Nat \ {0} /\ MaxSwap \in Nat /\ MaxBusFault \in Nat
\* "none" is no administrative state, no speed, no module and no process.
ASSUME SfpNoneAssumption ==
  /\ None \notin BOOLEAN /\ None \notin {"auto", "1000", "10000", "g1", "x10", "rj", "bad", "face", "watch"}

VARIABLES cage,      \* the module in the cage, None when empty
          pins,      \* TX_DISABLE: the output latch and whether it is driven
          swPort,    \* the switch port: MAC, interface mode, autoneg, rate
          face,      \* faceplate.json: committed state and the pending request
          faceOp,    \* the faceplate process: step and requests still to apply
          faceLock,  \* the holder of the faceplate lock
          modCache,  \* the cached identity of the module
          sfpWatch,  \* the watcher
          inGroup,    \* the port belongs to an aggregate owner
          sfpBudget  \* swaps and faults left

sfpVars == <<cage, pins, swPort, face, faceOp, faceLock, modCache, sfpWatch, inGroup, sfpBudget>>
sfpHw == <<pins, swPort>>

NoFaceOp == [at |-> <<>>, todo |-> <<>>]
NewWatch == [at |-> "idle", seen |-> None, now |-> FALSE, pend |-> 0,
             quiet |-> FALSE, due |-> TRUE, back |-> "idle"]

SfpInit ==
  /\ cage = None
  /\ pins = [latch |-> TRUE, driven |-> FALSE]
  /\ swPort = [mac |-> FALSE, iface |-> "xfi", an |-> FALSE, rate |-> "10000"]
  /\ face = [enabled |-> None, speed |-> None, pending |-> None]
  /\ faceOp = NoFaceOp /\ faceLock = None /\ modCache = None
  /\ sfpWatch = NewWatch /\ inGroup = FALSE
  /\ sfpBudget = [swap |-> MaxSwap, fault |-> MaxBusFault]

(* The inventory of the cage.  An undriven line is pulled to disabled.     *)
Present == cage # None
TxDisable == pins.driven => pins.latch
TxEnabled == pins.driven /\ ~pins.latch

SfpFault == sfpBudget.fault > 0 /\ sfpBudget' = [sfpBudget EXCEPT !.fault = @ - 1]
SfpNoFault == UNCHANGED sfpBudget

(* set_enabled: preload the latch, then drive it; a transfer may fail.     *)
SetTx(on, ok) ==
  IF ok THEN SfpNoFault /\ pins' = [latch |-> ~on, driven |-> TRUE]
  ELSE SfpFault /\ pins' \in {pins, [pins EXCEPT !.latch = ~on]}

(* Identity pages: checked sums, then the rates the module declares.       *)
Classifiable == {"g1", "x10", "rj"}
Optical(m) == m \in {"g1", "x10"}
Rates(m) == IF m = "x10" THEN "10000" ELSE "1000"
Iface(rate) == IF rate = "1000" THEN "gmii" ELSE "xfi"

(* link_mode: the rate for a requested speed, "generic" when the module is *)
(* not optics, "refused" when it does not declare that speed.              *)
LinkMode(m, speed) ==
  IF ~Optical(m) THEN "generic"
  ELSE IF speed \in {"auto", Rates(m)} THEN Rates(m) ELSE "refused"

(* The configured speed the switch daemon reads back.                      *)
ConfiguredSpeed(p) ==
  IF p.iface = "gmii" THEN "1000" ELSE IF p.an THEN "auto" ELSE p.rate

(* The fibre recipe: a mode change runs with the MAC disabled and restores *)
(* the enable at the end, so that a step that fails leaves it disabled.    *)
RecipeTarget(p, rate) == [p EXCEPT !.iface = Iface(rate), !.an = rate = "1000", !.rate = rate]
Recipe(rate, ok) ==
  IF ok THEN SfpNoFault /\ swPort' = RecipeTarget(swPort, rate)
  ELSE SfpFault /\ swPort' \in {swPort} \cup
         (IF swPort = RecipeTarget(swPort, rate) THEN {}
          ELSE {[swPort EXCEPT !.mac = FALSE, !.an = FALSE],
                [swPort EXCEPT !.mac = FALSE, !.an = FALSE, !.iface = Iface(rate)]})

(* port.link.set, the generic path: autonegotiation or a fixed rate; the   *)
(* interface mode stays, and with it perhaps the speed that is read back.  *)
GenericSet(p, speed) ==
  IF ConfiguredSpeed(p) = speed THEN p
  ELSE IF speed = "auto" THEN [p EXCEPT !.an = TRUE]
  ELSE [p EXCEPT !.an = FALSE, !.rate = speed]
Generic(speed, ok) ==
  IF ok THEN SfpNoFault /\ swPort' = GenericSet(swPort, speed) /\ ConfiguredSpeed(swPort') = speed
  ELSE \/ SfpFault /\ swPort' = swPort
       \/ SfpNoFault /\ swPort' = GenericSet(swPort, speed) /\ ConfiguredSpeed(swPort') # speed

(* configure_fiber, and the generic path its callers fall back to.  The    *)
(* identity is read again; unreadable is not evidence of optics.           *)
LinkApply(speed, ok) ==
  LET modes == {LinkMode(cage, speed)} \cup (IF sfpBudget.fault > 0 THEN {"generic"} ELSE {})
  IN \E m \in modes :
       CASE m = "refused" -> ~ok /\ UNCHANGED <<swPort, sfpBudget>>
         [] m = "generic" -> Generic(speed, ok)
         [] OTHER         -> Recipe(m, ok)

(* The identity cache: filled while present, dropped when seen empty.      *)
SeenModule ==
  IF ~Present THEN None
  ELSE IF modCache = None /\ cage \in Classifiable THEN cage ELSE modCache

(* ----- people ----- *)
SfpInsert(m) ==
  /\ cage = None /\ sfpBudget.swap > 0
  /\ cage' = m /\ sfpBudget' = [sfpBudget EXCEPT !.swap = @ - 1]
  /\ UNCHANGED <<sfpHw, face, faceOp, faceLock, modCache, sfpWatch, inGroup>>

SfpRemove ==
  /\ cage # None /\ cage' = None
  /\ UNCHANGED <<sfpHw, face, faceOp, faceLock, modCache, sfpWatch, inGroup, sfpBudget>>

(* ----- an aggregate owner, under the faceplate lock ----- *)
\* Mutant: an owner that claims members without the faceplate lock.
MemberClaimUnlocked ==
  /\ ~inGroup /\ ~swPort.mac
  /\ inGroup' = TRUE /\ swPort' = [swPort EXCEPT !.mac = TRUE]
  /\ UNCHANGED <<cage, pins, face, faceOp, faceLock, modCache, sfpWatch, sfpBudget>>

(* prepare: members must be administratively down.                         *)
MemberClaim ==
  /\ faceLock = None /\ ~inGroup /\ ~swPort.mac
  /\ inGroup' = TRUE /\ swPort' = [swPort EXCEPT !.mac = TRUE]
  /\ UNCHANGED <<cage, pins, face, faceOp, faceLock, modCache, sfpWatch, sfpBudget>>

MemberStop ==
  /\ faceLock = None /\ inGroup
  /\ inGroup' = FALSE /\ swPort' = [swPort EXCEPT !.mac = FALSE]
  /\ UNCHANGED <<cage, pins, face, faceOp, faceLock, modCache, sfpWatch, sfpBudget>>

(* ----- the faceplate process ----- *)
(* observe, as every verb runs it.                                         *)
FaceStatus ==
  /\ faceLock = None /\ modCache' = SeenModule
  /\ UNCHANGED <<cage, sfpHw, face, faceOp, faceLock, sfpWatch, inGroup, sfpBudget>>

FaceStart(todo) ==
  /\ faceLock = None /\ faceOp = NoFaceOp
  /\ faceLock' = "face" /\ faceOp' = [at |-> <<"check">>, todo |-> todo]
  /\ UNCHANGED <<cage, sfpHw, face, modCache, sfpWatch, inGroup, sfpBudget>>

FaceSet(r) == FaceStart(<<r>>)

(* restore replays the committed speed and state, each as an operation.    *)
FaceRestore ==
  LET speed == IF face.speed = None THEN <<>> ELSE <<[enabled |-> None, speed |-> face.speed]>>
      state == IF face.enabled = None THEN <<>> ELSE <<[enabled |-> face.enabled, speed |-> None]>>
  IN face.pending = None /\ speed \o state # <<>> /\ FaceStart(speed \o state)

FaceReq == Head(faceOp.todo)
FaceAt(s) == faceOp.at # <<>> /\ Head(faceOp.at) = s
FaceGo(s) == faceOp' = [faceOp EXCEPT !.at = s] /\ UNCHANGED faceLock
FaceQuit == faceOp' = NoFaceOp /\ faceLock' = None

(* The laser goes off before the MAC and on after it.                      *)
FaceSteps(r) ==
  (IF r.speed = None THEN <<>> ELSE <<"link">>)
  \o (CASE r.enabled = FALSE -> <<"off", "mac">> [] r.enabled = TRUE -> <<"mac", "on">> [] OTHER -> <<>>)
  \o <<"read">>

(* apply: the refusals, then the journal.                                  *)
FaceCheck ==
  /\ FaceAt("check") /\ modCache' = SeenModule
  /\ IF inGroup \/ face.pending # None
       THEN FaceQuit /\ UNCHANGED face
       ELSE face' = [face EXCEPT !.pending = FaceReq] /\ FaceGo(FaceSteps(FaceReq))
  /\ UNCHANGED <<cage, sfpHw, sfpWatch, inGroup, sfpBudget>>

(* A step that fails ends the process; its request stays in the journal.   *)
FaceEnd(ok) == IF ok THEN FaceGo(Tail(faceOp.at)) ELSE FaceQuit

FaceLink ==
  /\ FaceAt("link")
  /\ \E ok \in BOOLEAN : LinkApply(FaceReq.speed, ok) /\ FaceEnd(ok)
  /\ UNCHANGED <<cage, pins, face, modCache, sfpWatch, inGroup>>

FaceTx(on) ==
  /\ FaceAt(IF on THEN "on" ELSE "off")
  /\ \E ok \in BOOLEAN : SetTx(on, ok) /\ FaceEnd(ok)
  /\ UNCHANGED <<cage, swPort, face, modCache, sfpWatch, inGroup>>

FaceMac ==
  /\ FaceAt("mac")
  /\ \/ swPort' = [swPort EXCEPT !.mac = FaceReq.enabled] /\ FaceEnd(TRUE) /\ SfpNoFault
     \/ SfpFault /\ FaceEnd(FALSE) /\ UNCHANGED swPort
  /\ UNCHANGED <<cage, pins, face, modCache, sfpWatch, inGroup>>

Committed(r) ==
  [enabled |-> IF r.enabled = None THEN face.enabled ELSE r.enabled,
   speed   |-> IF r.speed = None THEN face.speed ELSE r.speed, pending |-> None]

(* The readback, then the journal is closed; restore goes on to the next.  *)
FaceRead ==
  /\ FaceAt("read") /\ modCache' = SeenModule
  /\ IF FaceReq.enabled # None /\ (swPort.mac # FaceReq.enabled \/ TxEnabled # FaceReq.enabled)
       THEN FaceQuit /\ UNCHANGED face
       ELSE /\ face' = Committed(FaceReq)
            /\ IF Len(faceOp.todo) = 1 THEN FaceQuit
               ELSE faceOp' = [at |-> <<"check">>, todo |-> Tail(faceOp.todo)] /\ UNCHANGED faceLock
  /\ UNCHANGED <<cage, sfpHw, sfpWatch, inGroup, sfpBudget>>

(* resolve accepts what is observed, when transmitter and MAC agree.       *)
FaceResolve ==
  /\ faceLock = None /\ face.pending # None /\ modCache' = SeenModule
  /\ face.pending.enabled # None => swPort.mac = TxEnabled /\ TxDisable # swPort.mac
  /\ face' = Committed([enabled |-> IF face.pending.enabled = None THEN None ELSE swPort.mac /\ TxEnabled,
                        speed   |-> IF face.pending.speed = None THEN None ELSE ConfiguredSpeed(swPort)])
  /\ UNCHANGED <<cage, sfpHw, faceOp, faceLock, sfpWatch, inGroup, sfpBudget>>

(* The process is killed, or the call it waits for times out.              *)
FaceDie ==
  /\ faceOp # NoFaceOp /\ SfpFault /\ FaceQuit
  /\ UNCHANGED <<cage, sfpHw, face, modCache, sfpWatch, inGroup>>

(* ----- the watcher ----- *)
WatchAt(s) == sfpWatch.at = s
WatchKeeps == <<cage, face, faceOp, inGroup>>

GivenUp(pend) == pend = SfpDeadline

(* poll: presence, insertions, and the module that waits to be re-linked.  *)
(* Polls are further apart than a module takes to settle.                  *)
WatchPoll ==
  LET fresh == sfpWatch.seen = FALSE /\ Present
      pend == IF ~Present THEN 0 ELSE IF fresh THEN 1 ELSE sfpWatch.pend
      wait(p) == [sfpWatch EXCEPT !.now = Present, !.pend = p, !.at = "tail"]
  IN /\ WatchAt("idle") /\ ~sfpWatch.quiet
     /\ \/ SfpFault /\ sfpWatch' = [sfpWatch EXCEPT !.quiet = TRUE]
        \/ /\ pend = 0 \/ fresh
           /\ sfpWatch' = wait(pend) /\ SfpNoFault
        \/ /\ pend > 0 /\ ~fresh
           /\ \/ /\ cage \in Classifiable /\ SfpNoFault
                 /\ sfpWatch' = [wait(0) EXCEPT !.at = "relink", !.back = "tail"]
              \/ /\ IF cage \in Classifiable THEN SfpFault ELSE SfpNoFault
                 /\ sfpWatch' = wait(IF GivenUp(pend) THEN 0 ELSE IF pend = SfpDeadline THEN pend ELSE pend + 1)
     /\ UNCHANGED <<WatchKeeps, sfpHw, faceLock, modCache>>

(* relink, under the lock: nothing pending, no aggregate, a MAC that is on. *)
RelinkGuard == face.pending = None /\ ~inGroup /\ swPort.mac

WatchRelink ==
  /\ WatchAt("relink") /\ faceLock = None
  /\ IF RelinkGuard
       THEN /\ faceLock' = "watch"
            /\ sfpWatch' = [sfpWatch EXCEPT !.at = "program"]
       ELSE sfpWatch' = [sfpWatch EXCEPT !.at = sfpWatch.back, !.back = "idle"] /\ UNCHANGED faceLock
  /\ UNCHANGED <<WatchKeeps, sfpHw, modCache, sfpBudget>>

WatchProgram ==
  /\ WatchAt("program")
  /\ \E ok \in BOOLEAN : LinkApply(ConfiguredSpeed(swPort), ok) /\ modCache' = IF ok THEN SeenModule ELSE modCache
  /\ faceLock' = None /\ sfpWatch' = [sfpWatch EXCEPT !.at = sfpWatch.back, !.back = "idle"]
  /\ UNCHANGED <<WatchKeeps, pins>>

(* The wait for the lock ran out.                                          *)
WatchBusy ==
  /\ sfpWatch.at \in {"relink", "remedy"} /\ faceLock # None
  /\ sfpWatch' = [sfpWatch EXCEPT !.at = sfpWatch.back, !.back = "idle"]
  /\ UNCHANGED <<WatchKeeps, sfpHw, faceLock, modCache, sfpBudget>>

(* The end of a poll: the transmit check when it is due and no module is   *)
(* waiting for its identity.                                               *)
WatchTail ==
  LET runs == sfpWatch.due /\ sfpWatch.pend = 0
  IN /\ WatchAt("tail")
     /\ sfpWatch' = [sfpWatch EXCEPT !.seen = sfpWatch.now, !.now = FALSE, !.due = @ /\ ~runs,
                                     !.at = IF runs /\ sfpWatch.now THEN "verify" ELSE "idle"]
     /\ UNCHANGED <<WatchKeeps, sfpHw, faceLock, modCache, sfpBudget>>

(* The interface mode the cached module should run at the committed speed, *)
(* None when nothing is declared for it.  Optics and RJ45 are not told     *)
(* apart here.                                                             *)
Expected(m) ==
  IF m \in Classifiable /\ face.speed \in {None, "auto", Rates(m)} THEN Iface(Rates(m)) ELSE None

CommittedOn == IF face.enabled = None THEN swPort.mac /\ TxEnabled /\ Present ELSE face.enabled

(* check_port: the first failing layer.  "far" is a verdict of the module's *)
(* own diagnostics, which no local remedy answers.                         *)
SfpVerdict(module, dark) ==
  IF ~Present THEN "no-module"
  ELSE IF ~CommittedOn THEN "disabled"
  ELSE IF TxDisable THEN "transmitter-off"
  ELSE IF dark THEN "far"
  ELSE IF Expected(module) # None /\ Expected(module) # swPort.iface THEN "link-mode-mismatch"
  ELSE IF ~swPort.mac THEN "link-down"
  ELSE "ok"

(* verify: collect reads every layer without the faceplate lock.  The slot *)
(* of the port holds its last verdict, and a remedy runs for a verdict     *)
(* that is new in it; as every remedy empties the slot again, a verdict    *)
(* with a remedy is always new, and the slot only filters the log.         *)
WatchVerify ==
  /\ WatchAt("verify") /\ modCache' = SeenModule
  /\ \E dark \in BOOLEAN :
       LET v == SfpVerdict(SeenModule, dark)
       IN sfpWatch' = [sfpWatch EXCEPT !.at = CASE v = "transmitter-off"    -> "remedy"
                                                [] v = "link-mode-mismatch" -> "relink"
                                                [] OTHER                    -> "idle"]
  /\ UNCHANGED <<WatchKeeps, sfpHw, faceLock, sfpBudget>>

(* The remedy for a transmitter that is off, on the verdict collected.     *)
WatchRemedy ==
  /\ WatchAt("remedy") /\ faceLock = None
  /\ \E ok \in BOOLEAN : SetTx(TRUE, ok)
  /\ sfpWatch' = [sfpWatch EXCEPT !.at = "idle"]
  /\ UNCHANGED <<WatchKeeps, swPort, faceLock, modCache>>

(* Time: the back-off and the interval between checks run out.             *)
WatchQuietEnds ==
  /\ sfpWatch.quiet /\ sfpWatch' = [sfpWatch EXCEPT !.quiet = FALSE]
  /\ UNCHANGED <<WatchKeeps, sfpHw, faceLock, modCache, sfpBudget>>

WatchDue ==
  /\ WatchAt("idle") /\ ~sfpWatch.due /\ sfpWatch' = [sfpWatch EXCEPT !.due = TRUE]
  /\ UNCHANGED <<WatchKeeps, sfpHw, faceLock, modCache, sfpBudget>>

\* Mutant: a stale lock is cleared whoever holds it.
WatchRestartClears ==
  /\ SfpFault /\ sfpWatch' = NewWatch /\ faceLock' = None
  /\ UNCHANGED <<WatchKeeps, sfpHw, modCache>>

(* The service is restarted: what is present then is the applier's.        *)
WatchRestart ==
  /\ SfpFault /\ sfpWatch' = NewWatch
  /\ faceLock' = IF faceLock = "watch" THEN None ELSE faceLock
  /\ UNCHANGED <<WatchKeeps, sfpHw, modCache>>

SfpWatcher == WatchPoll \/ WatchRelink \/ WatchProgram \/ WatchBusy \/ WatchTail \/ WatchVerify
              \/ WatchRemedy \/ WatchQuietEnds

SfpFaceplate == FaceCheck \/ FaceLink \/ FaceTx(FALSE) \/ FaceMac
                \/ FaceTx(TRUE) \/ FaceRead

SfpNext == \/ SfpWatcher \/ WatchDue \/ WatchRestart
           \/ SfpFaceplate \/ FaceStatus \/ FaceRestore \/ FaceResolve \/ FaceDie
           \/ \E r \in SfpRequests : FaceSet(r)
           \/ SfpRemove \/ \E m \in SfpModules : SfpInsert(m)
           \/ MemberClaim \/ MemberStop

SfpSpec == SfpInit /\ [][SfpNext]_sfpVars /\ WF_sfpVars(SfpWatcher) /\ WF_sfpVars(SfpFaceplate)

-----------------------------------------------------------------------------
(* The type invariant: the lock belongs to the process that is inside.     *)
SfpTypeOK ==
  /\ cage \in SfpModules \cup {None} /\ modCache \in Classifiable \cup {None}
  /\ pins \in [latch : BOOLEAN, driven : BOOLEAN]
  /\ swPort \in [mac : BOOLEAN, iface : {"gmii", "xfi"}, an : BOOLEAN, rate : {"1000", "10000"}]
  /\ face.enabled \in BOOLEAN \cup {None} /\ face.speed \in {None, "auto", "1000", "10000"}
  /\ sfpWatch.pend \in 0..SfpDeadline /\ inGroup \in BOOLEAN
  /\ faceLock = "face" <=> faceOp # NoFaceOp
  /\ faceLock = "watch" <=> sfpWatch.at = "program"

(* An operation leaves the journal only when the journal tells the truth:  *)
(* apply's readback and resolve's comparison record an administrative      *)
(* state that both the MAC and the transmitter have.                       *)
JournalTrue ==
  [][ face.pending # None /\ face'.pending = None /\ face.pending.enabled # None
        => swPort'.mac = face'.enabled /\ TxEnabled' = face'.enabled ]_sfpVars

(* While an operation is unresolved only the operation itself moves the    *)
(* switch port: the re-link leaves it for the administrator to inspect.    *)
PendingFreezes == [][ face.pending # None /\ faceOp = NoFaceOp /\ ~inGroup /\ ~inGroup' => UNCHANGED swPort ]_sfpVars

(* No faceplate operation and no re-link reprograms a port an aggregate    *)
(* owner holds, whatever each of them had checked before.                  *)
MemberUntouched == [][ inGroup /\ inGroup' => UNCHANGED swPort ]_sfpVars

(* The steps of the owners of a cage: a journal is closed on what the      *)
(* hardware has, an open one freezes the port, and a member of a group is  *)
(* left alone.                                                             *)
SfpSteps == JournalTrue /\ PendingFreezes /\ MemberUntouched

(* One module whose identity never validates does not stop the transmit    *)
(* check of the faceplate.                                                 *)
CheckRuns == sfpWatch.due ~> ~sfpWatch.due

(* The mode follows the module: a re-link of a port committed to auto ends *)
(* in the mode of the optics in the cage, unless a transfer failed.        *)
RelinkFollows ==
  [][ sfpWatch.at = "program" /\ sfpWatch'.at # "program" /\ UNCHANGED sfpBudget
      /\ face.speed = "auto" /\ Optical(cage) => swPort'.iface = Iface(Rates(cage)) ]_sfpVars
============================================================================
