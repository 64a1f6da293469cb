-------------------------- MODULE Fe100Commission --------------------------
(* Bringing the FE100 up in a CP boot: the boot-time runner                 *)
(* (ffn_fe100_init.py), the commissioning tools it and an operator start    *)
(* (clocks, DDR, flow and counter memory, FLU, SEM, external tables), the   *)
(* readiness the session endpoint derives from registers and this boot's    *)
(* journals (ffn_fe100_live_sessions.py), and the warm grant of a lab       *)
(* (ffn_fe100_warm.py).                                                     *)
(*                                                                          *)
(* Registers are reduced to what the tools and the readiness tell apart.    *)
(* cal is what no status bit shows: whether a memory's calibration is good. *)
(* One channel stands for each memory, for FDT the one with recovery        *)
(* stages.  Files of a boot outlive it; hardware outlives a warm reboot.    *)
EXTENDS FfnCommon, Integers, Sequences, FiniteSets

CONSTANTS FlowMem, MaxBoots, ComMaxFaults   \* CP boots; failing or killed steps (bounds)

VARIABLES
  comPast,    \* one entry per earlier boot: its journals, where the FLU check ended them
  feHw,         \* the FE100 and its memories
  comRec,        \* rec[b][j]: stage of the journal j of boot b, or None
  comExt,        \* external-tables.json
  comJr,         \* jr[b]: init-<boot>.json
  comInit,       \* the runner: where it is, its step's return code, how the last run ended
  comTool,       \* the tool at work under the table lock, and who started it
  comHandle,     \* the session endpoint's handle, which holds the lock for its life
  comGrant,      \* warm-lab-<boot>.json of this boot
  comFaults

comVars == <<comPast, feHw, comRec, comExt, comJr, comInit, comTool, comHandle, comGrant, comFaults>>

Memory == FlowMem \cup {"fcm"}
ComStep(t, m) == [tool |-> t, mem |-> m]
MemorySteps(m) == <<ComStep("clocks", m), ComStep("train", m)>>
\* plan(), the blocks and the parser taken together.
InitPlan ==
  <<ComStep("blocks", None), ComStep("errors", None), ComStep("archive", None),
    ComStep("ddr-clocks", None), ComStep("ddr-train", None), ComStep("external", None)>>
  \o (IF "fhm" \in FlowMem THEN MemorySteps("fhm") ELSE <<>>) \o MemorySteps("fdt") \o MemorySteps("fcm")
  \o <<ComStep("flu", None), ComStep("sem", None)>>
PlanSteps == {InitPlan[i] : i \in DOMAIN InitPlan}
\* What only an operator runs: the recoveries of FDT1, the check of a FLU init.
Recovery == {ComStep("recover-calibration", "fdt"), ComStep("recover-controller", "fdt"),
             ComStep("recover-init-pattern", "fdt")}
FluVerify == ComStep("flu-verify", None)
Tools == (PlanSteps \ {ComStep("archive", None)}) \cup Recovery \cup {FluVerify}

\* Tools that open their journal with O_EXCL before any register is written.
Journaled(s) == s.tool \in {"clocks", "train", "flu", "sem"} \/ s \in Recovery
Journals == {s \in Tools : Journaled(s) \/ s = FluVerify}

ResetState ==
  [blocks |-> FALSE, err |-> FALSE, tdi |-> "reset", tables |-> "none",
   clk |-> [m \in Memory |-> "off"], dphy |-> [m \in Memory |-> FALSE], cal |-> [m \in Memory |-> "none"],
   flu |-> "off", sem |-> "off", sessions |-> FALSE]

ComStages == {"started", "refused", "failed", "changed", "completed"}   \* of a journal
ComLaunched == [step : Tools, by : {"init", "operator"}]                \* a tool at work

\* FHM is trained like FDT but has no recoveries: an instance may leave it out.
ASSUME ComAssumption ==
  "fdt" \in FlowMem /\ FlowMem \subseteq {"fdt", "fhm"} /\ MaxBoots \in Nat \ {0} /\ ComMaxFaults \in Nat
ASSUME ComNoneAssumption == None \notin ComStages /\ None \notin ComLaunched

NoRecords == [s \in Journals |-> None]
NoSteps == [done |-> 0, failed |-> FALSE]

\* ---- readiness ------------------------------------------------------------

\* calibration_journals: the latest stage that exists, completed or not.
\* Mutant: a channel whose PHY reports done is adopted.
LatestAdopted(R, m) == "completed"
Latest(R, m) ==
  LET stages == IF m = "fdt" THEN <<ComStep("recover-init-pattern", m), ComStep("recover-controller", m),
                                    ComStep("recover-calibration", m), ComStep("train", m)>>
                ELSE <<ComStep("train", m)>>
      there == {i \in DOMAIN stages : R[stages[i]] # None}
  IN  IF there = {} THEN None ELSE R[stages[CHOOSE i \in there : \A k \in there : i <= k]]
\* flu_record: a verification, where there is one, replaces the record.
FluRecord(R) == IF R[FluVerify] # None THEN R[FluVerify] ELSE R[ComStep("flu", None)]
\* prerequisites, those of the FLU itself apart.
MemoryReady(h, R) ==
  h.blocks /\ \A m \in FlowMem : h.clk[m] = "on" /\ h.dphy[m] /\ Latest(R, m) = "completed"
\* status(): no blockers, with pipeline_prerequisites and flu_record.
Initialized(h, R) == MemoryReady(h, R) /\ h.flu = "on" /\ ~h.err /\ FluRecord(R) = "completed"
\* action_prerequisites.
ActionReady(h, R) ==
  /\ \A s \in {ComStep("clocks", "fcm"), ComStep("train", "fcm"), ComStep("sem", None)} : R[s] = "completed"
  /\ h.clk["fcm"] = "on" /\ h.dphy["fcm"] /\ h.sem = "on"

\* ---- one tool --------------------------------------------------------------

ComFree == comTool = None /\ comHandle = None       \* /run/ffn-fe100-tables.lock

\* A tool: what it checks before its native call, the hardware after one that
\* succeeded, and after one that failed or was killed.
Effect(ok, done, spoilt) == [ok |-> ok, done |-> done, spoilt |-> spoilt]

BlockInit == Effect(TRUE, [feHw EXCEPT !.blocks = TRUE], {feHw})
ClearErrors == Effect(TRUE, [feHw EXCEPT !.err = FALSE], {feHw})
\* The TDI.  Its clocks are rolled back when they fail.
DdrClocks == Effect(comExt = None /\ feHw.tdi = "reset" /\ feHw.blocks, [feHw EXCEPT !.tdi = "clocks"], {feHw})
DdrTrain == Effect(comExt = None /\ feHw.tdi = "clocks", [feHw EXCEPT !.tdi = "trained"],
                   {[feHw EXCEPT !.tdi = t] : t \in {"clocks", "partial"}})
ExternalTables == Effect(comExt = None /\ feHw.tdi = "trained" /\ feHw.blocks,
                         [feHw EXCEPT !.tables = "set"], {[feHw EXCEPT !.tables = "partial"]})
\* The PHY's done bit "did not expose calibration error".
Calibrates(ok, m) == Effect(ok, [feHw EXCEPT !.dphy[m] = TRUE, !.cal[m] = "good"],
                            {[feHw EXCEPT !.dphy[m] = d, !.cal[m] = "bad"] : d \in BOOLEAN})
PrepareClocks(m) == Effect(feHw.clk[m] = "off" /\ ~feHw.sessions,
                           [feHw EXCEPT !.clk[m] = "on"], {[feHw EXCEPT !.clk[m] = "partial"]})
TrainMemory(m) == Calibrates(feHw.clk[m] = "on" /\ ~feHw.dphy[m] /\ ~feHw.sessions, m)
FcmClocks == PrepareClocks("fcm")
FcmTrain == TrainMemory("fcm")
RecoverCalibration(after) == Calibrates(comRec[ComStep(after, "fdt")] = "failed" /\ ~feHw.sessions, "fdt")
\* Mutant: any failed training of this boot will do.
RecoverAnyway(after) == Calibrates(comRec[ComStep("train", "fdt")] = "failed", "fdt")
RecoverController(after) ==
  Calibrates(comRec[ComStep(after, "fdt")] = "failed" /\ ~feHw.sessions /\ feHw.flu = "off", "fdt")
InitializeFlu == Effect(MemoryReady(feHw, comRec) /\ feHw.flu = "off" /\ ~feHw.sessions,
                        [feHw EXCEPT !.flu = "on"], {[feHw EXCEPT !.flu = "partial"]})
VerifyFluInit == Effect(/\ comRec[ComStep("flu", None)] \in {"completed", "changed"}
                        /\ MemoryReady(feHw, comRec) /\ feHw.flu = "on", feHw, {feHw})
InitializeSem == Effect(/\ ~feHw.sessions /\ feHw.sem = "off" /\ comRec[ComStep("train", "fcm")] = "completed"
                        /\ feHw.dphy["fcm"] /\ feHw.clk["fcm"] = "on",
                        [feHw EXCEPT !.sem = "on"], {[feHw EXCEPT !.sem = "partial"]})

EffectOf(s) ==
  CASE s.tool = "blocks" -> BlockInit
    [] s.tool = "errors" -> ClearErrors
    [] s.tool = "ddr-clocks" -> DdrClocks
    [] s.tool = "ddr-train" -> DdrTrain
    [] s.tool = "external" -> ExternalTables
    [] s.tool = "clocks" -> IF s.mem = "fcm" THEN FcmClocks ELSE PrepareClocks(s.mem)
    [] s.tool = "train" -> IF s.mem = "fcm" THEN FcmTrain ELSE TrainMemory(s.mem)
    [] s.tool = "recover-calibration" -> RecoverCalibration("train")
    [] s.tool = "recover-controller" -> RecoverController("recover-calibration")
    [] s.tool = "recover-init-pattern" -> RecoverController("recover-controller")
    [] s.tool = "flu" -> InitializeFlu
    [] s.tool = "flu-verify" -> VerifyFluInit
    [] s.tool = "sem" -> InitializeSem
Allowed(s) == EffectOf(s).ok
\* The checks are past: those of the external tables are made at the launch.
Passed(s) == s.tool = "external" \/ Allowed(s)

\* What a tool that dies where it is may leave.
KilledTool == IF comTool # None /\ Passed(comTool.step) THEN {feHw} \cup EffectOf(comTool.step).spoilt ELSE {feHw}

Faulty == comFaults < ComMaxFaults /\ comFaults' = comFaults + 1

\* The return code reaches the runner, if it was the runner that started it.
Exits(rc) ==
  /\ comTool' = None
  /\ comInit' = IF comTool.by = "init" THEN [comInit EXCEPT !.pc = "record", !.rc = rc] ELSE comInit
Mark(s, stage) == comRec' = IF s \in Journals THEN [comRec EXCEPT ![s] = stage] ELSE comRec

\* The lock and the journal: a journal that exists is a refusal without I/O.
\* The external tables' own journal is written once its checks passed.
ComLaunch(s, by) ==
  LET there == Journaled(s) /\ comRec[s] # None
      refused == there \/ (s.tool = "external" /\ ~Allowed(s))
  IN  /\ ComFree
      /\ comTool' = IF refused THEN None ELSE [step |-> s, by |-> by]
      /\ comInit' = IF by # "init" THEN comInit
                 ELSE IF refused THEN [comInit EXCEPT !.pc = "record", !.rc = 1] ELSE [comInit EXCEPT !.pc = "tool"]
      /\ comRec' = IF Journaled(s) /\ ~there THEN [comRec EXCEPT ![s] = "started"] ELSE comRec
      /\ comExt' = IF s.tool = "external" /\ ~refused THEN [old |-> FALSE, stage |-> "initializing"] ELSE comExt
      /\ UNCHANGED <<comPast, feHw, comJr, comHandle, comGrant, comFaults>>

VerifyFlu(by) == by = "operator" /\ ComLaunch(FluVerify, by)

ExtStage(s, stage) == comExt' = IF s.tool = "external" THEN [comExt EXCEPT !.stage = stage] ELSE comExt

ComWork ==
  /\ comTool # None
  /\ LET s == comTool.step
     IN  \/ /\ ~Passed(s)                      \* "refusing ..."
            /\ (IF s = FluVerify THEN comRec' = comRec ELSE Mark(s, "refused")) /\ Exits(1)
            /\ UNCHANGED <<feHw, comExt, comFaults>>
         \/ /\ Passed(s)
            /\ feHw' = EffectOf(s).done /\ Mark(s, "completed") /\ ExtStage(s, "verified")
            /\ Exits(0) /\ UNCHANGED comFaults
         \* the native call fails, or the readback after it does
         \/ /\ Passed(s) /\ s # FluVerify /\ Faulty
            /\ feHw' \in EffectOf(s).spoilt /\ Mark(s, "failed") /\ ExtStage(s, "failed") /\ Exits(1)
         \* FLU: "DDR/TDI status changed", with the initialization itself done
         \/ /\ s.tool = "flu" /\ Allowed(s) /\ Faulty
            /\ feHw' = EffectOf(s).done /\ Mark(s, "changed") /\ Exits(1) /\ UNCHANGED comExt
  /\ UNCHANGED <<comPast, comJr, comHandle, comGrant>>

\* ---- the runner -------------------------------------------------------------

Pending == comJr.done < Len(InitPlan)
NextStep == InitPlan[comJr.done + 1]
ComEnds == comInit' = [pc |-> "off", rc |-> 0]

\* The start: the readiness comes first, and needs the lock itself.
InitStart ==
  /\ comInit.pc = "off" /\ comTool = None
  /\ IF comHandle # None THEN ComEnds
     ELSE IF Initialized(feHw, comRec) THEN ComEnds             \* already-initialized
     ELSE IF comJr.failed THEN ComEnds
     ELSE comInit' = [comInit EXCEPT !.pc = "run"]
  /\ UNCHANGED <<comPast, feHw, comRec, comExt, comJr, comTool, comHandle, comGrant, comFaults>>

\* archive_generation: retained memory ends the run, without a step on record.
Archive ==
  IF comExt = None \/ ~comExt.old \/ feHw.tdi = "reset"
  THEN /\ comExt' = IF comExt = None \/ ~comExt.old THEN comExt ELSE None
       /\ comJr' = [comJr EXCEPT !.done = @ + 1] /\ UNCHANGED comInit
  ELSE ComEnds /\ UNCHANGED <<comExt, comJr>>

InitStep ==
  /\ comInit.pc = "run" /\ Pending
  /\ IF NextStep.tool = "archive"
     THEN Archive /\ ComFree /\ UNCHANGED <<comPast, feHw, comRec, comTool, comHandle, comGrant, comFaults>>
     ELSE ComLaunch(NextStep, "init")
\* Someone holds the lock through all the retries.
InitContended ==
  /\ comInit.pc = "run" /\ Pending /\ ~ComFree
  /\ comInit' = [comInit EXCEPT !.pc = "record", !.rc = 1]
  /\ UNCHANGED <<comPast, feHw, comRec, comExt, comJr, comTool, comHandle, comGrant, comFaults>>
InitRecord ==
  /\ comInit.pc = "record"
  /\ IF comInit.rc = 0
     THEN comJr' = [comJr EXCEPT !.done = @ + 1] /\ comInit' = [comInit EXCEPT !.pc = "run"]
     ELSE comJr' = [comJr EXCEPT !.failed = TRUE] /\ ComEnds
  /\ UNCHANGED <<comPast, feHw, comRec, comExt, comTool, comHandle, comGrant, comFaults>>
InitFinish ==
  /\ comInit.pc = "run" /\ ~Pending
  /\ ComEnds
  /\ UNCHANGED <<comPast, feHw, comRec, comExt, comJr, comTool, comHandle, comGrant, comFaults>>

\* The step times out, or systemd stops the unit: the tool dies where it is.
InitCut ==
  /\ comInit.pc # "off" /\ Faulty /\ ComEnds
  /\ IF comInit.pc = "tool" THEN comTool' = None /\ feHw' \in KilledTool ELSE UNCHANGED <<comTool, feHw>>
  /\ UNCHANGED <<comPast, comRec, comExt, comJr, comHandle, comGrant>>

\* ---- sessions and the lab ------------------------------------------------------

Stable(h) == <<h.clk, h.dphy, h.flu, h.sem, h.blocks>>
\* grant_valid: of this boot, and the registers read as when it was issued.
GrantValid == comGrant # None /\ comGrant.stable = Stable(feHw)

\* LiveSessions(writable): its blockers, from registers and the records cached.
Usable(kind, R) ==
  IF kind = "lab" THEN IF GrantValid THEN ~feHw.err ELSE Initialized(feHw, R) /\ ActionReady(feHw, R)
  ELSE Initialized(feHw, R)
ComOpen(kind) ==
  /\ ComFree /\ Usable(kind, comRec)
  /\ comHandle' = [kind |-> kind, rec |-> comRec]
  /\ UNCHANGED <<comPast, feHw, comRec, comExt, comJr, comInit, comTool, comGrant, comFaults>>
ComClose ==
  /\ comHandle # None /\ comHandle' = None
  /\ UNCHANGED <<comPast, feHw, comRec, comExt, comJr, comInit, comTool, comGrant, comFaults>>
\* call(): the registers afresh, the records as they were at the open.
ComCall(on) ==
  /\ comHandle # None /\ feHw.sessions # on /\ Usable(comHandle.kind, comHandle.rec)
  /\ feHw' = [feHw EXCEPT !.sessions = on]
  /\ UNCHANGED <<comPast, comRec, comExt, comJr, comInit, comTool, comHandle, comGrant, comFaults>>

\* issue(): exactly one earlier boot's chain fits the registers, and the PHYs
\* read back as calibrated.
Chains == {b \in DOMAIN comPast : /\ comPast[b][FluVerify] # None /\ Initialized([feHw EXCEPT !.err = FALSE], comPast[b])
                                 /\ ActionReady(feHw, comPast[b])}
WarmIssue ==
  /\ ComFree /\ ~feHw.sessions
  /\ \A s \in Journals : comRec[s] = None
  /\ Cardinality(Chains) = 1 /\ \A m \in Memory : feHw.cal[m] = "good"
  /\ comGrant' = [stable |-> Stable(feHw)]
  /\ UNCHANGED <<comPast, feHw, comRec, comExt, comJr, comInit, comTool, comHandle, comFaults>>

\* ---- reset, reboot ---------------------------------------------------------------

\* ffn_fe100_reset.py, without the lock.  External: what a reset leaves.
FeReset ==
  /\ Faulty /\ comTool = None /\ feHw' = ResetState
  /\ UNCHANGED <<comPast, comRec, comExt, comJr, comInit, comTool, comHandle, comGrant>>
\* The CP boots again.  Only a power cycle resets the FE100; without one, errors
\* of the time in between are latched.
Reboot(cold) ==
  /\ Len(comPast) + 1 < MaxBoots
  /\ comPast' = Append(comPast, IF comRec[FluVerify] # None THEN comRec ELSE NoRecords)
  /\ comRec' = NoRecords /\ comJr' = NoSteps
  /\ comExt' = IF comExt = None THEN None ELSE [comExt EXCEPT !.old = TRUE]
  /\ IF cold THEN feHw' = ResetState
     ELSE feHw' \in {[h EXCEPT !.err = TRUE] : h \in KilledTool}
  /\ comInit' = [pc |-> "off", rc |-> 0] /\ comTool' = None /\ comHandle' = None /\ comGrant' = None
  /\ UNCHANGED comFaults

ComInit ==
  /\ comPast = <<>> /\ feHw = ResetState
  /\ comRec = NoRecords /\ comExt = None /\ comJr = NoSteps
  /\ comInit = [pc |-> "off", rc |-> 0]
  /\ comTool = None /\ comHandle = None /\ comGrant = None /\ comFaults = 0

\* By hand, once the training did not complete: its recoveries and what follows
\* it, in any order.
Operator == \/ /\ comRec[ComStep("train", "fdt")] \in {"failed", "started"} /\ comInit.pc = "off"
               /\ \E s \in Recovery \cup {ComStep("flu", None)} : ComLaunch(s, "operator")
            \/ VerifyFlu("operator")
            \/ WarmIssue \/ FeReset
Sessions == (\E kind \in {"prod", "lab"} : ComOpen(kind)) \/ ComClose \/ (\E on \in BOOLEAN : ComCall(on))
ComNext ==
  \/ InitStart \/ InitStep \/ InitContended \/ InitRecord \/ InitFinish \/ InitCut
  \/ ComWork \/ Operator \/ Sessions \/ (\E cold \in BOOLEAN : Reboot(cold))
Runner == InitStep \/ InitContended \/ InitRecord \/ InitFinish
ComSpec == ComInit /\ [][ComNext]_comVars /\ WF_comVars(Runner) /\ WF_comVars(ComWork)

-----------------------------------------------------------------------------
ComTypeOK ==
  /\ Len(comPast) < MaxBoots
  /\ \A s \in Journals : comRec[s] \in ComStages \cup {None}
  /\ comTool # None => comHandle = None
  /\ comInit.pc = "tool" => comTool # None /\ comTool.by = "init"

\* "A damaged latest journal also blocks activation": a device that reads as
\* initialized has every flow memory calibrated, however training failed, was
\* cut off, recovered, reset or carried over a reboot.
ReadyIsCalibrated == Initialized(feHw, comRec) => \A m \in FlowMem : feHw.cal[m] = "good"

\* A warm grant counts only for the memory it was issued for.
GrantIsCalibrated == GrantValid => \A m \in Memory : feHw.cal[m] = "good"

\* "None of them can change while a handle exists": the records a handle read
\* once are those of now.
CacheFresh == comHandle # None => comHandle.rec = comRec

\* Memory is trained only while it holds nothing: no sessions, for the TDI no
\* tables, and nobody has the device open.
NoLiveTraining ==
  [][/\ feHw'.cal # feHw.cal /\ feHw' # ResetState => ~feHw.sessions /\ comHandle = None
     /\ feHw'.tdi = "trained" /\ feHw.tdi # "trained" => feHw.tables = "none"]_comVars
\* Every start of the unit ends, whatever the tools meet and whoever holds the
\* table lock: only contention is retried, four times.
RunnerEnds == comInit.pc # "off" ~> comInit.pc = "off"

\* Whoever is told the FE100 is ready works on calibrated memories of this boot.
ComSafe ==
  /\ ComTypeOK
  /\ ReadyIsCalibrated
  /\ GrantIsCalibrated
  /\ CacheFresh
=============================================================================
