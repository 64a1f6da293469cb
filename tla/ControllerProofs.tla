-------------------------- MODULE ControllerProofs --------------------------
(* Controllers that programs must not work on too early, too late, or at     *)
(* the same time: proofs about the commissioning of the FE100 (whoever is     *)
(* told that it is ready, or holds a warm grant, works on calibrated          *)
(* memories), about the kernel driver of the switch (its interrupt line and   *)
(* its DMA pools), and about the transceiver cages that an administrator, a   *)
(* watcher and the aggregates share.                                          *)
EXTENDS Fe100Commission, BdeDriver, SfpCages, SequenceTheorems, FiniteSetTheorems, TLAPS

-----------------------------------------------------------------------------
\* ---- the steps of the plan and the tools ----

ComRan(s) == {s[i] : i \in DOMAIN s}

\* The journals of FDT1, in the order in which they may follow each other.
FdtTrain == ComStep("train", "fdt")
FdtCal == ComStep("recover-calibration", "fdt")
FdtCtl == ComStep("recover-controller", "fdt")
FdtInit == ComStep("recover-init-pattern", "fdt")

ComRecords == [Journals -> ComStages \cup {None}]
ComHardware ==
  [blocks : BOOLEAN, err : BOOLEAN, tdi : {"reset", "clocks", "partial", "trained"}, tables : {"none", "set", "partial"},
   clk : [Memory -> {"off", "on", "partial"}], dphy : [Memory -> BOOLEAN], cal : [Memory -> {"none", "good", "bad"}],
   flu : {"off", "on", "partial"}, sem : {"off", "on", "partial"}, sessions : BOOLEAN]

ComShape ==
  /\ comPast \in Seq(ComRecords) /\ Len(comPast) < MaxBoots
  /\ feHw \in ComHardware
  /\ comRec \in ComRecords
  /\ comJr \in [done : Nat, failed : BOOLEAN]
  /\ comInit \in [pc : {"off", "run", "tool", "record"}, rc : {0, 1}]
  /\ comTool # None => comTool \in ComLaunched /\ comHandle = None
  /\ comInit.pc = "tool" => comTool # None /\ comTool.by = "init"
  /\ comFaults \in Nat

\* A recovery was let through after the stage before it failed, and the stage
\* of a tool at work is still open.
ComChain(R) ==
  /\ R[FdtCal] \in {"failed", "completed"} => R[FdtTrain] = "failed"
  /\ R[FdtCtl] \in {"failed", "completed"} => R[FdtCal] = "failed"
  /\ R[FdtInit] \in {"failed", "completed"} => R[FdtCtl] = "failed"
ComStagesHeld ==
  /\ comTool # None /\ Journaled(comTool.step) => comRec[comTool.step] = "started"
  /\ ComChain(comRec)

\* What a completed latest stage says of a memory whose PHY is up.
ComCalibrated ==
  /\ \A m \in FlowMem : Latest(comRec, m) = "completed" /\ feHw.dphy[m] => feHw.cal[m] = "good"
  /\ comRec[ComStep("train", "fcm")] = "completed" /\ feHw.dphy["fcm"] => feHw.cal["fcm"] = "good"

\* Under a grant the tables are only ever brought up over calibrated memory,
\* and nothing can calibrate that again.
ComGranted ==
  comGrant # None =>
    /\ feHw.flu = "on" =>
         /\ \A m \in FlowMem : feHw.dphy[m] /\ feHw.cal[m] = "good"
         /\ comRec[FdtTrain] = "failed" => comRec[FdtCal] \in {"failed", "completed"}
    /\ feHw.sem = "on" => feHw.dphy["fcm"] /\ feHw.cal["fcm"] = "good"
    /\ comGrant.stable[3] = "on" /\ comGrant.stable[4] = "on"

ComTables ==
  /\ feHw.tables # "none" => feHw.tdi = "trained"
  /\ comTool # None /\ comTool.step.tool = "external" => feHw.tdi = "trained"

ComInv == ComShape /\ ComStagesHeld /\ ComCalibrated /\ ComGranted /\ ComTables /\ CacheFresh

\* The elements of a concatenation.
LEMMA ComConcat ==
  ASSUME NEW S, NEW s \in Seq(S), NEW t \in Seq(S)
  PROVE s \o t \in Seq(S) /\ ComRan(s \o t) = ComRan(s) \cup ComRan(t)
<1>1. s \o t \in Seq(S) /\ DOMAIN (s \o t) = 1 .. Len(s) + Len(t)
  OBVIOUS
<1>2. \A i \in 1 .. Len(s) + Len(t) : (s \o t)[i] = IF i <= Len(s) THEN s[i] ELSE t[i - Len(s)]
  OBVIOUS
<1>3. DOMAIN s = 1 .. Len(s) /\ DOMAIN t = 1 .. Len(t) /\ Len(s) \in Nat /\ Len(t) \in Nat
  OBVIOUS
<1>4. \A j \in 1 .. Len(t) : j + Len(s) \in 1 .. Len(s) + Len(t) /\ (s \o t)[j + Len(s)] = t[j]
  BY <1>2, <1>3
<1>5. \A i \in 1 .. Len(s) : i \in 1 .. Len(s) + Len(t) /\ (s \o t)[i] = s[i]
  BY <1>2, <1>3
<1>6. \A i \in 1 .. Len(s) + Len(t) : i \in 1 .. Len(s) \/ (i - Len(s) \in 1 .. Len(t) /\ (s \o t)[i] = t[i - Len(s)])
  BY <1>2, <1>3
<1>7. ComRan(s \o t) \subseteq ComRan(s) \cup ComRan(t)
  BY <1>1, <1>3, <1>5, <1>6 DEF ComRan
<1>8. ComRan(s) \subseteq ComRan(s \o t) /\ ComRan(t) \subseteq ComRan(s \o t)
  BY <1>1, <1>3, <1>4, <1>5 DEF ComRan
<1> QED BY <1>1, <1>7, <1>8

ComMemorySteps(m) == {ComStep("clocks", m), ComStep("train", m)}
ComPlanSet ==
  {ComStep(t, None) : t \in {"blocks", "errors", "archive", "ddr-clocks", "ddr-train", "external", "flu", "sem"}}
  \cup {ComStep(t, m) : t \in {"clocks", "train"}, m \in Memory}

\* The plan is a sequence of the steps of every memory and of those of the
\* device as a whole.
LEMMA ComPlan ==
  /\ InitPlan \in Seq(ComPlanSet)
  /\ PlanSteps = ComPlanSet
<1>0. FlowMem \subseteq {"fdt", "fhm"} /\ "fdt" \in FlowMem
  BY ComAssumption
<1> DEFINE Device == <<ComStep("blocks", None), ComStep("errors", None), ComStep("archive", None),
                       ComStep("ddr-clocks", None), ComStep("ddr-train", None), ComStep("external", None)>>
           Last == <<ComStep("flu", None), ComStep("sem", None)>>
           Fhm == IF "fhm" \in FlowMem THEN MemorySteps("fhm") ELSE <<>>
           FhmSet == IF "fhm" \in FlowMem THEN ComMemorySteps("fhm") ELSE {}
<1>1. InitPlan = (((Device \o Fhm) \o MemorySteps("fdt")) \o MemorySteps("fcm")) \o Last
  BY DEF InitPlan
<1>2. Device \in Seq(ComPlanSet) /\ ComRan(Device) = {ComStep(t, None) : t \in {"blocks", "errors", "archive", "ddr-clocks", "ddr-train", "external"}}
  <2>1. \A t \in {"blocks", "errors", "archive", "ddr-clocks", "ddr-train", "external"} : ComStep(t, None) \in ComPlanSet
    BY DEF ComPlanSet
  <2>2. Device \in Seq(ComPlanSet)
    BY <2>1
  <2>3. DOMAIN Device = 1 .. 6
    OBVIOUS
  <2>4. ComRan(Device) = {Device[i] : i \in 1 .. 6}
    BY <2>3 DEF ComRan
  <2>5. \A i \in 1 .. 6 : i = 1 \/ i = 2 \/ i = 3 \/ i = 4 \/ i = 5 \/ i = 6
    OBVIOUS
  <2>6. {Device[i] : i \in 1 .. 6} = {ComStep("blocks", None), ComStep("errors", None), ComStep("archive", None),
                       ComStep("ddr-clocks", None), ComStep("ddr-train", None), ComStep("external", None)}
    BY <2>5
  <2> QED BY <2>2, <2>4, <2>6
<1>3. Last \in Seq(ComPlanSet) /\ ComRan(Last) = {ComStep(t, None) : t \in {"flu", "sem"}}
  <2>1. \A t \in {"flu", "sem"} : ComStep(t, None) \in ComPlanSet
    BY DEF ComPlanSet
  <2>2. Last \in Seq(ComPlanSet) /\ DOMAIN Last = 1 .. 2
    BY <2>1
  <2>3. \A i \in 1 .. 2 : i = 1 \/ i = 2
    OBVIOUS
  <2> QED BY <2>2, <2>3 DEF ComRan
<1>4. \A m \in Memory : MemorySteps(m) \in Seq(ComPlanSet) /\ ComRan(MemorySteps(m)) = ComMemorySteps(m)
  <2> SUFFICES ASSUME NEW m \in Memory PROVE MemorySteps(m) \in Seq(ComPlanSet) /\ ComRan(MemorySteps(m)) = ComMemorySteps(m)
    OBVIOUS
  <2>1. ComStep("clocks", m) \in ComPlanSet /\ ComStep("train", m) \in ComPlanSet
    BY DEF ComPlanSet
  <2>2. MemorySteps(m) \in Seq(ComPlanSet) /\ DOMAIN MemorySteps(m) = 1 .. 2
    BY <2>1 DEF MemorySteps
  <2>3. \A i \in 1 .. 2 : i = 1 \/ i = 2
    OBVIOUS
  <2> QED BY <2>2, <2>3 DEF ComRan, MemorySteps, ComMemorySteps
<1>5. Fhm \in Seq(ComPlanSet) /\ ComRan(Fhm) = FhmSet
  <2>1. CASE "fhm" \in FlowMem
    BY <2>1, <1>4 DEF Memory
  <2>2. CASE "fhm" \notin FlowMem
    BY <2>2 DEF ComRan
  <2> QED BY <2>1, <2>2
<1>6. "fdt" \in Memory /\ "fcm" \in Memory
  BY <1>0 DEF Memory
<1> HIDE DEF Device, Last, Fhm
<1> DEFINE P1 == Device \o Fhm
           P2 == P1 \o MemorySteps("fdt")
           P3 == P2 \o MemorySteps("fcm")
<1>7. P1 \in Seq(ComPlanSet) /\ ComRan(P1) = ComRan(Device) \cup FhmSet
  BY <1>2, <1>5, ComConcat
<1> HIDE DEF P1
<1>8. P2 \in Seq(ComPlanSet) /\ ComRan(P2) = ComRan(P1) \cup ComMemorySteps("fdt")
  BY <1>7, <1>4, <1>6, ComConcat
<1> HIDE DEF P2
<1>9. P3 \in Seq(ComPlanSet) /\ ComRan(P3) = ComRan(P2) \cup ComMemorySteps("fcm")
  BY <1>8, <1>4, <1>6, ComConcat
<1>9a. InitPlan = P3 \o Last
  BY <1>1 DEF P1, P2
<1> HIDE DEF P3
<1>10. InitPlan \in Seq(ComPlanSet) /\ ComRan(InitPlan) = ComRan(P3) \cup ComRan(Last)
  BY <1>9, <1>9a, <1>3, ComConcat
<1>11. FhmSet \cup ComMemorySteps("fdt") \cup ComMemorySteps("fcm") = {ComStep(t, m) : t \in {"clocks", "train"}, m \in Memory}
  BY <1>0 DEF ComMemorySteps, Memory
<1>12. ComRan(InitPlan) = ComPlanSet
  <2>1. ComRan(InitPlan) = ComRan(Device) \cup ComRan(Last) \cup (FhmSet \cup ComMemorySteps("fdt") \cup ComMemorySteps("fcm"))
    BY <1>7, <1>8, <1>9, <1>10
  <2>2. ComRan(InitPlan) = ComRan(Device) \cup ComRan(Last) \cup {ComStep(t, m) : t \in {"clocks", "train"}, m \in Memory}
    BY <2>1, <1>11
  <2>3. ComRan(Device) \cup ComRan(Last)
          = {ComStep(t, None) : t \in {"blocks", "errors", "archive", "ddr-clocks", "ddr-train", "external", "flu", "sem"}}
    BY <1>2, <1>3
  <2> QED BY <2>2, <2>3 DEF ComPlanSet
<1> QED BY <1>10, <1>12 DEF PlanSteps, ComRan

ComDeviceTools == {"blocks", "errors", "ddr-clocks", "ddr-train", "external", "flu", "sem", "flu-verify"}

\* The tools, and the journals among them.
LEMMA ComTools ==
  /\ Tools = {ComStep(t, None) : t \in ComDeviceTools} \cup {ComStep(t, m) : t \in {"clocks", "train"}, m \in Memory} \cup Recovery
  /\ Recovery = {FdtCal, FdtCtl, FdtInit}
  /\ Recovery \subseteq Journals /\ FluVerify \in Journals
  /\ \A m \in Memory : ComStep("train", m) \in Journals /\ ComStep("clocks", m) \in Journals
  /\ ComStep("flu", None) \in Journals /\ ComStep("sem", None) \in Journals
  /\ FlowMem \subseteq Memory /\ "fdt" \in FlowMem /\ "fdt" \in Memory /\ "fcm" \in Memory /\ "fcm" \notin FlowMem
<1>1. FlowMem \subseteq Memory /\ "fdt" \in FlowMem /\ "fdt" \in Memory /\ "fcm" \in Memory /\ "fcm" \notin FlowMem
  BY ComAssumption DEF Memory
<1>2. PlanSteps \ {ComStep("archive", None)}
        = {ComStep(t, None) : t \in {"blocks", "errors", "ddr-clocks", "ddr-train", "external", "flu", "sem"}}
          \cup {ComStep(t, m) : t \in {"clocks", "train"}, m \in Memory}
  BY ComPlan DEF ComPlanSet, ComStep
<1>3. Tools = {ComStep(t, None) : t \in ComDeviceTools} \cup {ComStep(t, m) : t \in {"clocks", "train"}, m \in Memory} \cup Recovery
  BY <1>2 DEF Tools, FluVerify, ComDeviceTools
<1>4. Recovery = {FdtCal, FdtCtl, FdtInit}
  BY DEF Recovery, FdtCal, FdtCtl, FdtInit
<1>5. Recovery \subseteq Journals /\ FluVerify \in Journals
  BY <1>3 DEF Journals, Journaled, Tools
<1>6. \A m \in Memory : ComStep("train", m) \in Journals /\ ComStep("clocks", m) \in Journals
  <2>1. \A m \in Memory : ComStep("train", m) \in Tools /\ ComStep("clocks", m) \in Tools
    BY <1>3
  <2>2. \A m : Journaled(ComStep("train", m)) /\ Journaled(ComStep("clocks", m))
    BY DEF Journaled, ComStep
  <2> QED BY <2>1, <2>2 DEF Journals
<1>7. ComStep("flu", None) \in Journals /\ ComStep("sem", None) \in Journals
  BY <1>3 DEF Journals, Journaled, ComStep, ComDeviceTools
<1> QED BY <1>1, <1>3, <1>4, <1>5, <1>6, <1>7

\* Every tool is one of thirteen.
LEMMA ComToolKinds ==
  ASSUME NEW s \in Tools
  PROVE  \/ \E t \in ComDeviceTools : s = ComStep(t, None)
         \/ \E m \in Memory : s = ComStep("clocks", m) \/ s = ComStep("train", m)
         \/ s = FdtCal \/ s = FdtCtl \/ s = FdtInit
BY ComTools

\* What each of them does.
LEMMA ComEffectOf ==
  /\ EffectOf(ComStep("blocks", None)) = BlockInit
  /\ EffectOf(ComStep("errors", None)) = ClearErrors
  /\ EffectOf(ComStep("ddr-clocks", None)) = DdrClocks
  /\ EffectOf(ComStep("ddr-train", None)) = DdrTrain
  /\ EffectOf(ComStep("external", None)) = ExternalTables
  /\ EffectOf(ComStep("flu", None)) = InitializeFlu
  /\ EffectOf(ComStep("sem", None)) = InitializeSem
  /\ EffectOf(ComStep("flu-verify", None)) = VerifyFluInit
  /\ \A m \in Memory : EffectOf(ComStep("clocks", m)) = PrepareClocks(m) /\ EffectOf(ComStep("train", m)) = TrainMemory(m)
  /\ EffectOf(FdtCal) = RecoverCalibration("train")
  /\ EffectOf(FdtCtl) = RecoverController("recover-calibration")
  /\ EffectOf(FdtInit) = RecoverController("recover-controller")
<1>1. EffectOf(ComStep("blocks", None)) = BlockInit /\ EffectOf(ComStep("errors", None)) = ClearErrors
      /\ EffectOf(ComStep("ddr-clocks", None)) = DdrClocks /\ EffectOf(ComStep("ddr-train", None)) = DdrTrain
  BY DEF EffectOf, ComStep
<1>2. EffectOf(ComStep("external", None)) = ExternalTables /\ EffectOf(ComStep("flu", None)) = InitializeFlu
      /\ EffectOf(ComStep("sem", None)) = InitializeSem /\ EffectOf(ComStep("flu-verify", None)) = VerifyFluInit
  BY DEF EffectOf, ComStep, FluVerify
<1>3. \A m \in Memory : EffectOf(ComStep("clocks", m)) = PrepareClocks(m) /\ EffectOf(ComStep("train", m)) = TrainMemory(m)
  BY DEF EffectOf, ComStep, FcmClocks, FcmTrain
<1>4. EffectOf(FdtCal) = RecoverCalibration("train") /\ EffectOf(FdtCtl) = RecoverController("recover-calibration")
      /\ EffectOf(FdtInit) = RecoverController("recover-controller")
  BY DEF EffectOf, ComStep, FdtCal, FdtCtl, FdtInit
<1> QED BY <1>1, <1>2, <1>3, <1>4

\* The tools that calibrate a memory.
ComTrains(m) == {ComStep("train", m)} \cup (IF m = "fdt" THEN Recovery ELSE {})

\* What a tool leaves alone, however it ends.
ComOutcome(s, h) ==
  /\ h \in ComHardware
  /\ \A m \in Memory : s \notin ComTrains(m) => h.dphy[m] = feHw.dphy[m] /\ h.cal[m] = feHw.cal[m]
  /\ h.cal # feHw.cal => \E m \in Memory : s \in ComTrains(m)
  /\ h.flu = "on" => feHw.flu = "on" \/ s = ComStep("flu", None)
  /\ h.sem = "on" => feHw.sem = "on" \/ s = ComStep("sem", None)
  /\ h.tdi # feHw.tdi => s = ComStep("ddr-clocks", None) \/ s = ComStep("ddr-train", None)
  /\ h.tdi = "trained" => feHw.tdi = "trained" \/ s = ComStep("ddr-train", None)
  /\ h.tables # feHw.tables => s = ComStep("external", None)
  /\ h.sessions = feHw.sessions

\* A calibration changes the PHY and the calibration of its memory only.
LEMMA ComCalibrates ==
  ASSUME feHw \in ComHardware, NEW m \in Memory, NEW ok,
         NEW h \in {feHw, Calibrates(ok, m).done} \cup Calibrates(ok, m).spoilt
  PROVE  /\ h \in ComHardware
         /\ \A n \in Memory : n # m => h.dphy[n] = feHw.dphy[n] /\ h.cal[n] = feHw.cal[n]
         /\ h.flu = feHw.flu /\ h.sem = feHw.sem /\ h.tdi = feHw.tdi
         /\ h.tables = feHw.tables /\ h.sessions = feHw.sessions
<1>1. h = feHw \/ \E d \in BOOLEAN, c \in {"good", "bad"} : h = [feHw EXCEPT !.dphy[m] = d, !.cal[m] = c]
  BY DEF Calibrates, Effect
<1>2. CASE h = feHw
  BY <1>2
<1>3. ASSUME NEW d \in BOOLEAN, NEW c \in {"good", "bad"}, h = [feHw EXCEPT !.dphy[m] = d, !.cal[m] = c]
      PROVE  /\ h \in ComHardware
             /\ \A n \in Memory : n # m => h.dphy[n] = feHw.dphy[n] /\ h.cal[n] = feHw.cal[n]
             /\ h.flu = feHw.flu /\ h.sem = feHw.sem /\ h.tdi = feHw.tdi
             /\ h.tables = feHw.tables /\ h.sessions = feHw.sessions
  <2>1. h.dphy = [feHw.dphy EXCEPT ![m] = d] /\ h.cal = [feHw.cal EXCEPT ![m] = c]
    BY <1>3 DEF ComHardware
  <2>2. feHw.dphy \in [Memory -> BOOLEAN] /\ feHw.cal \in [Memory -> {"none", "good", "bad"}]
    BY DEF ComHardware
  <2>3. h.dphy \in [Memory -> BOOLEAN] /\ h.cal \in [Memory -> {"none", "good", "bad"}]
    BY <2>1, <2>2, <1>3
  <2>4. h.flu = feHw.flu /\ h.sem = feHw.sem /\ h.tdi = feHw.tdi
          /\ h.tables = feHw.tables /\ h.sessions = feHw.sessions /\ h.clk = feHw.clk /\ h.err = feHw.err /\ h.blocks = feHw.blocks
    BY <1>3 DEF ComHardware
  <2>5. h = [blocks |-> feHw.blocks, err |-> feHw.err, tdi |-> feHw.tdi, tables |-> feHw.tables, clk |-> feHw.clk,
             dphy |-> h.dphy, cal |-> h.cal, flu |-> feHw.flu, sem |-> feHw.sem, sessions |-> feHw.sessions]
    BY <1>3, <2>1 DEF ComHardware
  <2>6. h \in ComHardware
    BY <2>5, <2>3 DEF ComHardware
  <2>7. \A n \in Memory : n # m => h.dphy[n] = feHw.dphy[n] /\ h.cal[n] = feHw.cal[n]
    BY <2>1, <2>2
  <2> QED BY <2>4, <2>6, <2>7
<1> QED BY <1>1, <1>2, <1>3

\* A calibration that succeeds.
LEMMA ComCalibratesWell ==
  ASSUME feHw \in ComHardware, NEW m \in Memory, NEW ok
  PROVE  Calibrates(ok, m).done.dphy[m] /\ Calibrates(ok, m).done.cal[m] = "good"
BY DEF Calibrates, Effect, ComHardware

\* However a tool ends, it has touched only what is its own.
LEMMA ComEffects ==
  ASSUME feHw \in ComHardware, NEW s \in Tools,
         NEW h \in {feHw, EffectOf(s).done} \cup EffectOf(s).spoilt
  PROVE  ComOutcome(s, h)
<1>1. CASE s = ComStep("blocks", None)
  <2>1. EffectOf(s) = BlockInit
    BY <1>1, ComEffectOf
  <2>2. h = feHw \/ h = [feHw EXCEPT !.blocks = TRUE]
    BY <2>1 DEF BlockInit, Effect
  <2>3. h \in ComHardware
    BY <2>2 DEF ComHardware
  <2>4. h.dphy = feHw.dphy /\ h.cal = feHw.cal /\ h.flu = feHw.flu /\ h.sem = feHw.sem /\ h.tdi = feHw.tdi /\ h.tables = feHw.tables /\ h.sessions = feHw.sessions
    BY <2>2 DEF ComHardware
  <2> QED BY <1>1, <2>3, <2>4 DEF ComOutcome
<1>2. CASE s = ComStep("errors", None)
  <2>1. EffectOf(s) = ClearErrors
    BY <1>2, ComEffectOf
  <2>2. h = feHw \/ h = [feHw EXCEPT !.err = FALSE]
    BY <2>1 DEF ClearErrors, Effect
  <2>3. h \in ComHardware
    BY <2>2 DEF ComHardware
  <2>4. h.dphy = feHw.dphy /\ h.cal = feHw.cal /\ h.flu = feHw.flu /\ h.sem = feHw.sem /\ h.tdi = feHw.tdi /\ h.tables = feHw.tables /\ h.sessions = feHw.sessions
    BY <2>2 DEF ComHardware
  <2> QED BY <1>2, <2>3, <2>4 DEF ComOutcome
<1>3. CASE s = ComStep("ddr-clocks", None)
  <2>1. EffectOf(s) = DdrClocks
    BY <1>3, ComEffectOf
  <2>2. h = feHw \/ h = [feHw EXCEPT !.tdi = "clocks"]
    BY <2>1 DEF DdrClocks, Effect
  <2>3. h \in ComHardware
    BY <2>2 DEF ComHardware
  <2>4. h.dphy = feHw.dphy /\ h.cal = feHw.cal /\ h.flu = feHw.flu /\ h.sem = feHw.sem /\ h.tables = feHw.tables /\ h.sessions = feHw.sessions
    BY <2>2 DEF ComHardware
  <2>5. h.tdi = "trained" => feHw.tdi = "trained"
    BY <2>2 DEF ComHardware
  <2> QED BY <1>3, <2>3, <2>4, <2>5 DEF ComOutcome
<1>4. CASE s = ComStep("ddr-train", None)
  <2>1. EffectOf(s) = DdrTrain
    BY <1>4, ComEffectOf
  <2>2. h = feHw \/ \E t \in {"trained", "clocks", "partial"} : h = [feHw EXCEPT !.tdi = t]
    BY <2>1 DEF DdrTrain, Effect
  <2>3. h \in ComHardware
    BY <2>2 DEF ComHardware
  <2>4. h.dphy = feHw.dphy /\ h.cal = feHw.cal /\ h.flu = feHw.flu /\ h.sem = feHw.sem /\ h.tables = feHw.tables /\ h.sessions = feHw.sessions
    BY <2>2 DEF ComHardware
  <2> QED BY <1>4, <2>3, <2>4 DEF ComOutcome
<1>5. CASE s = ComStep("external", None)
  <2>1. EffectOf(s) = ExternalTables
    BY <1>5, ComEffectOf
  <2>2. h = feHw \/ \E t \in {"set", "partial"} : h = [feHw EXCEPT !.tables = t]
    BY <2>1 DEF ExternalTables, Effect
  <2>3. h \in ComHardware
    BY <2>2 DEF ComHardware
  <2>4. h.dphy = feHw.dphy /\ h.cal = feHw.cal /\ h.flu = feHw.flu /\ h.sem = feHw.sem /\ h.tdi = feHw.tdi /\ h.sessions = feHw.sessions
    BY <2>2 DEF ComHardware
  <2> QED BY <1>5, <2>3, <2>4 DEF ComOutcome
<1>6. CASE s = ComStep("flu", None)
  <2>1. EffectOf(s) = InitializeFlu
    BY <1>6, ComEffectOf
  <2>2. h = feHw \/ \E t \in {"on", "partial"} : h = [feHw EXCEPT !.flu = t]
    BY <2>1 DEF InitializeFlu, Effect
  <2>3. h \in ComHardware
    BY <2>2 DEF ComHardware
  <2>4. h.dphy = feHw.dphy /\ h.cal = feHw.cal /\ h.sem = feHw.sem /\ h.tdi = feHw.tdi /\ h.tables = feHw.tables /\ h.sessions = feHw.sessions
    BY <2>2 DEF ComHardware
  <2> QED BY <1>6, <2>3, <2>4 DEF ComOutcome
<1>7. CASE s = ComStep("sem", None)
  <2>1. EffectOf(s) = InitializeSem
    BY <1>7, ComEffectOf
  <2>2. h = feHw \/ \E t \in {"on", "partial"} : h = [feHw EXCEPT !.sem = t]
    BY <2>1 DEF InitializeSem, Effect
  <2>3. h \in ComHardware
    BY <2>2 DEF ComHardware
  <2>4. h.dphy = feHw.dphy /\ h.cal = feHw.cal /\ h.flu = feHw.flu /\ h.tdi = feHw.tdi /\ h.tables = feHw.tables /\ h.sessions = feHw.sessions
    BY <2>2 DEF ComHardware
  <2> QED BY <1>7, <2>3, <2>4 DEF ComOutcome
<1>8. CASE s = ComStep("flu-verify", None)
  <2>1. h = feHw
    BY <1>8, ComEffectOf DEF VerifyFluInit, Effect
  <2> QED BY <2>1 DEF ComOutcome
<1>9. ASSUME NEW m \in Memory, s = ComStep("clocks", m) PROVE ComOutcome(s, h)
  <2>1. h = feHw \/ \E t \in {"on", "partial"} : h = [feHw EXCEPT !.clk[m] = t]
    BY <1>9, ComEffectOf DEF PrepareClocks, Effect
  <2>2. h \in ComHardware
    BY <2>1 DEF ComHardware
  <2>3. h.dphy = feHw.dphy /\ h.cal = feHw.cal /\ h.flu = feHw.flu /\ h.sem = feHw.sem /\ h.tdi = feHw.tdi /\ h.tables = feHw.tables /\ h.sessions = feHw.sessions
    BY <2>1 DEF ComHardware
  <2> QED BY <2>2, <2>3 DEF ComOutcome
<1>10. ASSUME NEW m \in Memory, s = ComStep("train", m) PROVE ComOutcome(s, h)
  <2>1. EffectOf(s) = Calibrates(feHw.clk[m] = "on" /\ ~feHw.dphy[m] /\ ~feHw.sessions, m)
    BY <1>10, ComEffectOf DEF TrainMemory
  <2>2. s \in ComTrains(m)
    BY <1>10 DEF ComTrains
  <2> QED BY <2>1, <2>2, ComCalibrates DEF ComOutcome
<1>11. CASE s = FdtCal \/ s = FdtCtl \/ s = FdtInit
  <2>1. \E ok : EffectOf(s) = Calibrates(ok, "fdt")
    BY <1>11, ComEffectOf DEF RecoverCalibration, RecoverController
  <2>2. s \in ComTrains("fdt") /\ "fdt" \in Memory
    BY <1>11, ComTools DEF ComTrains
  <2> QED BY <2>1, <2>2, ComCalibrates DEF ComOutcome
<1> QED BY <1>1, <1>2, <1>3, <1>4, <1>5, <1>6, <1>7, <1>8, <1>9, <1>10, <1>11, ComToolKinds DEF ComDeviceTools

\* What the tools check before they touch anything.
LEMMA ComAllowed ==
  /\ \A m \in Memory : Allowed(ComStep("train", m)) => ~feHw.dphy[m] /\ ~feHw.sessions
  /\ Allowed(FdtCal) => comRec[FdtTrain] = "failed" /\ ~feHw.sessions
  /\ Allowed(FdtCtl) => comRec[FdtCal] = "failed" /\ ~feHw.sessions /\ feHw.flu = "off"
  /\ Allowed(FdtInit) => comRec[FdtCtl] = "failed" /\ ~feHw.sessions /\ feHw.flu = "off"
  /\ Allowed(ComStep("flu", None)) => MemoryReady(feHw, comRec)
  /\ Allowed(ComStep("sem", None)) => comRec[ComStep("train", "fcm")] = "completed" /\ feHw.dphy["fcm"]
  /\ Allowed(ComStep("ddr-clocks", None)) => feHw.tdi = "reset"
  /\ Allowed(ComStep("ddr-train", None)) => feHw.tdi = "clocks"
  /\ Allowed(ComStep("external", None)) => feHw.tdi = "trained"
<1>1. ASSUME NEW e, NEW m, NEW ok \in BOOLEAN, e = Calibrates(ok, m) PROVE e.ok <=> ok
  BY <1>1 DEF Calibrates, Effect
<1>2. ASSUME NEW ok \in BOOLEAN, NEW done, NEW spoilt PROVE Effect(ok, done, spoilt).ok <=> ok
  BY DEF Effect
<1>3. ASSUME NEW m \in Memory PROVE Allowed(ComStep("train", m)) => ~feHw.dphy[m] /\ ~feHw.sessions
  <2>1. EffectOf(ComStep("train", m)) = Calibrates(feHw.clk[m] = "on" /\ ~feHw.dphy[m] /\ ~feHw.sessions, m)
    BY ComEffectOf DEF TrainMemory
  <2>2. EffectOf(ComStep("train", m)).ok <=> feHw.clk[m] = "on" /\ ~feHw.dphy[m] /\ ~feHw.sessions
    BY <2>1, <1>1
  <2> QED BY <2>2 DEF Allowed
<1>4. Allowed(FdtCal) => comRec[FdtTrain] = "failed" /\ ~feHw.sessions
  <2>1. EffectOf(FdtCal) = Calibrates((comRec[FdtTrain] = "failed" /\ ~feHw.sessions), "fdt")
    BY ComEffectOf DEF RecoverCalibration, FdtTrain
  <2>2. EffectOf(FdtCal).ok <=> (comRec[FdtTrain] = "failed" /\ ~feHw.sessions)
    BY <2>1, <1>1
  <2> QED BY <2>1, <2>2 DEF Allowed
<1>5. Allowed(FdtCtl) => comRec[FdtCal] = "failed" /\ ~feHw.sessions /\ feHw.flu = "off"
  <2>1. EffectOf(FdtCtl) = Calibrates((comRec[FdtCal] = "failed" /\ ~feHw.sessions /\ feHw.flu = "off"), "fdt")
    BY ComEffectOf DEF RecoverController, FdtCal
  <2>2. EffectOf(FdtCtl).ok <=> (comRec[FdtCal] = "failed" /\ ~feHw.sessions /\ feHw.flu = "off")
    BY <2>1, <1>1
  <2> QED BY <2>1, <2>2 DEF Allowed
<1>6. Allowed(FdtInit) => comRec[FdtCtl] = "failed" /\ ~feHw.sessions /\ feHw.flu = "off"
  <2>1. EffectOf(FdtInit) = Calibrates((comRec[FdtCtl] = "failed" /\ ~feHw.sessions /\ feHw.flu = "off"), "fdt")
    BY ComEffectOf DEF RecoverController, FdtCtl
  <2>2. EffectOf(FdtInit).ok <=> (comRec[FdtCtl] = "failed" /\ ~feHw.sessions /\ feHw.flu = "off")
    BY <2>1, <1>1
  <2> QED BY <2>1, <2>2 DEF Allowed
<1>7. Allowed(ComStep("flu", None)) => MemoryReady(feHw, comRec)
  <2>1. EffectOf(ComStep("flu", None)) = InitializeFlu
    BY ComEffectOf
  <2>2. InitializeFlu.ok <=> MemoryReady(feHw, comRec) /\ feHw.flu = "off" /\ ~feHw.sessions
    BY <1>2 DEF InitializeFlu
  <2> QED BY <2>1, <2>2 DEF Allowed
<1>8. Allowed(ComStep("sem", None)) => comRec[ComStep("train", "fcm")] = "completed" /\ feHw.dphy["fcm"]
  <2>1. EffectOf(ComStep("sem", None)) = InitializeSem
    BY ComEffectOf
  <2>2. InitializeSem.ok <=> /\ ~feHw.sessions /\ feHw.sem = "off" /\ comRec[ComStep("train", "fcm")] = "completed"
                             /\ feHw.dphy["fcm"] /\ feHw.clk["fcm"] = "on"
    BY <1>2 DEF InitializeSem
  <2> QED BY <2>1, <2>2 DEF Allowed
<1>9. Allowed(ComStep("ddr-clocks", None)) => feHw.tdi = "reset"
  <2>1. EffectOf(ComStep("ddr-clocks", None)) = DdrClocks
    BY ComEffectOf
  <2>2. DdrClocks.ok <=> comExt = None /\ feHw.tdi = "reset" /\ feHw.blocks
    BY <1>2 DEF DdrClocks
  <2> QED BY <2>1, <2>2 DEF Allowed
<1>10. Allowed(ComStep("ddr-train", None)) => feHw.tdi = "clocks"
  <2>1. EffectOf(ComStep("ddr-train", None)) = DdrTrain
    BY ComEffectOf
  <2>2. DdrTrain.ok <=> comExt = None /\ feHw.tdi = "clocks"
    BY <1>2 DEF DdrTrain
  <2> QED BY <2>1, <2>2 DEF Allowed
<1>11. Allowed(ComStep("external", None)) => feHw.tdi = "trained"
  <2>1. EffectOf(ComStep("external", None)) = ExternalTables
    BY ComEffectOf
  <2>2. ExternalTables.ok <=> comExt = None /\ feHw.tdi = "trained" /\ feHw.blocks
    BY <1>2 DEF ExternalTables
  <2> QED BY <2>1, <2>2 DEF Allowed
<1> QED BY <1>3, <1>4, <1>5, <1>6, <1>7, <1>8, <1>9, <1>10, <1>11

\* The latest stage of a memory.
LEMMA ComLatest ==
  ASSUME NEW R \in ComRecords
  PROVE  /\ \A m \in Memory \ {"fdt"} : Latest(R, m) = R[ComStep("train", m)]
         /\ R[FdtInit] # None => Latest(R, "fdt") = R[FdtInit]
         /\ R[FdtInit] = None /\ R[FdtCtl] # None => Latest(R, "fdt") = R[FdtCtl]
         /\ R[FdtInit] = None /\ R[FdtCtl] = None /\ R[FdtCal] # None => Latest(R, "fdt") = R[FdtCal]
         /\ R[FdtInit] = None /\ R[FdtCtl] = None /\ R[FdtCal] = None => Latest(R, "fdt") = R[FdtTrain]
<1>1. ASSUME NEW m \in Memory \ {"fdt"} PROVE Latest(R, m) = R[ComStep("train", m)]
  <2> DEFINE stages == <<ComStep("train", m)>>
             there == {i \in DOMAIN stages : R[stages[i]] # None}
             first == CHOOSE i \in there : \A k \in there : i <= k
  <2>1. Latest(R, m) = IF there = {} THEN None ELSE R[stages[first]]
    BY DEF Latest
  <2>2. DOMAIN stages = {1} /\ stages[1] = ComStep("train", m)
    OBVIOUS
  <2>3. there \subseteq {1}
    BY <2>2
  <2>4. CASE there = {}
    BY <2>1, <2>2, <2>4
  <2>5. CASE there # {}
    <3>1. there = {1}
      BY <2>3, <2>5
    <3>2. first = 1
      BY <3>1
    <3> QED BY <2>1, <2>2, <2>5, <3>2
  <2> QED BY <2>4, <2>5
<1> DEFINE stages == <<FdtInit, FdtCtl, FdtCal, FdtTrain>>
           there == {i \in DOMAIN stages : R[stages[i]] # None}
           first == CHOOSE i \in there : \A k \in there : i <= k
<1>2. Latest(R, "fdt") = IF there = {} THEN None ELSE R[stages[first]]
  BY DEF Latest, FdtInit, FdtCtl, FdtCal, FdtTrain
<1>3. DOMAIN stages = 1 .. 4 /\ stages[1] = FdtInit /\ stages[2] = FdtCtl /\ stages[3] = FdtCal /\ stages[4] = FdtTrain
  OBVIOUS
<1> HIDE DEF stages
<1>4. ASSUME NEW i \in there, \A k \in there : i <= k PROVE Latest(R, "fdt") = R[stages[i]]
  <2>1. first \in there /\ \A k \in there : first <= k
    BY <1>4
  <2> HIDE DEF first
  <2>2. i \in Int /\ first \in Int
    BY <1>3, <2>1
  <2>3. i <= first /\ first <= i
    BY <1>4, <2>1
  <2>4. first = i
    BY <2>2, <2>3
  <2> USE DEF first
  <2> QED BY <1>2, <1>4, <2>4
<1>5. \A k \in there : k \in 1 .. 4 /\ R[stages[k]] # None
  BY <1>3
<1>6. \A i \in 1 .. 4 : i \in there <=> R[stages[i]] # None
  BY <1>3
<1>7. R[FdtInit] # None => Latest(R, "fdt") = R[FdtInit]
  <2> SUFFICES ASSUME R[FdtInit] # None PROVE Latest(R, "fdt") = R[FdtInit]
    OBVIOUS
  <2>1. 1 \in there /\ \A k \in there : 1 <= k
    BY <1>3, <1>5, <1>6
  <2> QED BY <2>1, <1>3, <1>4
<1>8. R[FdtInit] = None /\ R[FdtCtl] # None => Latest(R, "fdt") = R[FdtCtl]
  <2> SUFFICES ASSUME R[FdtInit] = None, R[FdtCtl] # None PROVE Latest(R, "fdt") = R[FdtCtl]
    OBVIOUS
  <2>1. 2 \in there /\ \A k \in there : k # 1
    BY <1>3, <1>5, <1>6
  <2>2. \A k \in there : 2 <= k
    BY <2>1, <1>5
  <2> QED BY <2>1, <2>2, <1>3, <1>4
<1>9. R[FdtInit] = None /\ R[FdtCtl] = None /\ R[FdtCal] # None => Latest(R, "fdt") = R[FdtCal]
  <2> SUFFICES ASSUME R[FdtInit] = None, R[FdtCtl] = None, R[FdtCal] # None PROVE Latest(R, "fdt") = R[FdtCal]
    OBVIOUS
  <2>1. 3 \in there /\ \A k \in there : k # 1 /\ k # 2
    BY <1>3, <1>5, <1>6
  <2>2. \A k \in there : 3 <= k
    BY <2>1, <1>5
  <2> QED BY <2>1, <2>2, <1>3, <1>4
<1>10. R[FdtInit] = None /\ R[FdtCtl] = None /\ R[FdtCal] = None => Latest(R, "fdt") = R[FdtTrain]
  <2> SUFFICES ASSUME R[FdtInit] = None, R[FdtCtl] = None, R[FdtCal] = None PROVE Latest(R, "fdt") = R[FdtTrain]
    OBVIOUS
  <2>1. \A k \in there : k # 1 /\ k # 2 /\ k # 3
    BY <1>3, <1>5
  <2>2. \A k \in there : 4 <= k
    BY <2>1, <1>5
  <2>3. CASE R[FdtTrain] = None
    <3>1. there = {}
      BY <2>1, <2>3, <1>3, <1>5
    <3> QED BY <1>2, <2>3, <3>1
  <2>4. CASE R[FdtTrain] # None
    <3>1. 4 \in there
      BY <2>4, <1>3, <1>6
    <3> QED BY <3>1, <2>2, <1>3, <1>4
  <2> QED BY <2>3, <2>4
<1> QED BY <1>1, <1>7, <1>8, <1>9, <1>10

\* What the latest stage of a memory is depends on its own stages only.
LEMMA ComLatestSame ==
  ASSUME NEW R \in ComRecords, NEW Q \in ComRecords, NEW m \in Memory, \A t \in ComTrains(m) : R[t] = Q[t]
  PROVE  Latest(R, m) = Latest(Q, m)
<1>1. CASE m # "fdt"
  BY <1>1, ComLatest DEF ComTrains
<1>2. CASE m = "fdt"
  <2>1. R[FdtInit] = Q[FdtInit] /\ R[FdtCtl] = Q[FdtCtl] /\ R[FdtCal] = Q[FdtCal] /\ R[FdtTrain] = Q[FdtTrain]
    BY <1>2, ComTools DEF ComTrains, FdtTrain
  <2> QED BY <1>2, <2>1, ComLatest
<1> QED BY <1>1, <1>2

\* The stages of FDT1 are different journals.
LEMMA ComDistinct ==
  /\ FdtTrain # FdtCal /\ FdtTrain # FdtCtl /\ FdtTrain # FdtInit
  /\ FdtCal # FdtCtl /\ FdtCal # FdtInit /\ FdtCtl # FdtInit
BY DEF FdtTrain, FdtCal, FdtCtl, FdtInit, ComStep

\* A stage of FDT1 that is open, or then ends badly, is the latest one or has
\* only refused ones after it.
LEMMA ComStartedIsLatest ==
  ASSUME NEW R \in ComRecords, ComChain(R), NEW s \in Recovery \cup {FdtTrain}, R[s] = "started",
         NEW v \in ComStages \ {"completed"}
  PROVE  Latest([R EXCEPT ![s] = v], "fdt") # "completed"
<1> DEFINE Q == [R EXCEPT ![s] = v]
<1>1. None # "completed" /\ v # None /\ v # "completed"
  BY ComNoneAssumption DEF ComStages
<1>2. s = FdtTrain \/ s = FdtCal \/ s = FdtCtl \/ s = FdtInit
  BY ComTools
<1>3. s \in Journals /\ Q \in ComRecords
  BY ComTools DEF FdtTrain, ComRecords
<1>4. Q[s] = v /\ \A t \in Journals : t # s => Q[t] = R[t]
  BY <1>3 DEF ComRecords
<1>5. FdtTrain \in Journals /\ FdtCal \in Journals /\ FdtCtl \in Journals /\ FdtInit \in Journals
  BY ComTools DEF FdtTrain
<1>6. /\ s # FdtInit => Q[FdtInit] = R[FdtInit]
      /\ s # FdtCtl => Q[FdtCtl] = R[FdtCtl]
      /\ s # FdtCal => Q[FdtCal] = R[FdtCal]
      /\ s # FdtTrain => Q[FdtTrain] = R[FdtTrain]
  BY <1>4, <1>5
<1>7. /\ s = FdtCtl => R[FdtInit] # "completed"
      /\ s = FdtCal => R[FdtCtl] # "completed" /\ R[FdtInit] # "completed"
      /\ s = FdtTrain => R[FdtCal] # "completed" /\ R[FdtCtl] # "completed" /\ R[FdtInit] # "completed"
  BY <1>2, ComDistinct DEF ComChain
<1> HIDE DEF Q
<1>8. Latest(Q, "fdt") = "completed" =>
        /\ Q[FdtInit] # None => Q[FdtInit] = "completed"
        /\ Q[FdtInit] = None /\ Q[FdtCtl] # None => Q[FdtCtl] = "completed"
        /\ Q[FdtInit] = None /\ Q[FdtCtl] = None /\ Q[FdtCal] # None => Q[FdtCal] = "completed"
        /\ Q[FdtInit] = None /\ Q[FdtCtl] = None /\ Q[FdtCal] = None => Q[FdtTrain] = "completed"
  BY <1>3, ComLatest
<1>9. CASE s = FdtInit
  BY <1>1, <1>4, <1>8, <1>9 DEF Q
<1>10. CASE s = FdtCtl
  BY <1>1, <1>4, <1>6, <1>7, <1>8, <1>10, ComDistinct DEF Q
<1>11. CASE s = FdtCal
  BY <1>1, <1>4, <1>6, <1>7, <1>8, <1>11, ComDistinct DEF Q
<1>12. CASE s = FdtTrain
  BY <1>1, <1>4, <1>6, <1>7, <1>8, <1>12, ComDistinct DEF Q
<1> QED BY <1>2, <1>9, <1>10, <1>11, <1>12

-----------------------------------------------------------------------------
\* ---- the steps ----

\* What holds of the hardware and the records holds on while neither a memory
\* nor a journal changes, and nothing is turned on.
LEMMA ComQuiet ==
  ASSUME ComInv, comRec' = comRec, comGrant' = comGrant, comTool' = comTool \/ comTool' = None,
         feHw'.dphy = feHw.dphy, feHw'.cal = feHw.cal, feHw'.tdi = feHw.tdi, feHw'.tables = feHw.tables,
         feHw'.flu = "on" => feHw.flu = "on", feHw'.sem = "on" => feHw.sem = "on"
  PROVE  ComStagesHeld' /\ ComCalibrated' /\ ComGranted' /\ ComTables'
<1>1. ComStagesHeld'
  BY DEF ComInv, ComStagesHeld, ComChain
<1>2. ComCalibrated'
  BY DEF ComInv, ComCalibrated
<1>3. ComGranted'
  BY DEF ComInv, ComGranted
<1>4. ComTables'
  BY DEF ComInv, ComTables
<1> QED BY <1>1, <1>2, <1>3, <1>4

\* The runner's own steps.
LEMMA ComRunnerMoves ==
  ASSUME ComInv, UNCHANGED <<comPast, feHw, comRec, comTool, comHandle, comGrant, comFaults>>,
         comInit' \in [pc : {"off", "run", "tool", "record"}, rc : {0, 1}], comInit'.pc # "tool",
         comJr' \in [done : Nat, failed : BOOLEAN]
  PROVE  ComInv'
<1>1. ComShape'
  BY DEF ComInv, ComShape
<1>2. CacheFresh'
  BY DEF ComInv, CacheFresh
<1>3. ComStagesHeld' /\ ComCalibrated' /\ ComGranted' /\ ComTables'
  BY ComQuiet
<1> QED BY <1>1, <1>2, <1>3 DEF ComInv

\* The runner's own steps keep the invariant: none of them touches hardware.
LEMMA ComRunnerSteps ==
  ASSUME ComInv, InitStart \/ InitContended \/ InitRecord \/ InitFinish
  PROVE  ComInv'
<1>0. comInit \in [pc : {"off", "run", "tool", "record"}, rc : {0, 1}] /\ comJr \in [done : Nat, failed : BOOLEAN]
  BY DEF ComInv, ComShape
<1>1. CASE InitStart
  BY <1>0, <1>1, ComRunnerMoves DEF InitStart, ComEnds
<1>2. CASE InitContended
  BY <1>0, <1>2, ComRunnerMoves DEF InitContended, ComEnds
<1>3. CASE InitRecord
  <2>1. comJr.done \in Nat /\ comJr.failed \in BOOLEAN
    BY <1>0
  <2>2. comJr' \in [done : Nat, failed : BOOLEAN]
    <3>1. CASE comInit.rc = 0
      <4>1. comJr' = [comJr EXCEPT !.done = @ + 1]
        BY <1>3, <3>1 DEF InitRecord
      <4>2. comJr' = [done |-> comJr.done + 1, failed |-> comJr.failed]
        BY <1>0, <4>1
      <4> QED BY <2>1, <4>2
    <3>2. CASE comInit.rc # 0
      <4>1. comJr' = [comJr EXCEPT !.failed = TRUE]
        BY <1>3, <3>2 DEF InitRecord
      <4>2. comJr' = [done |-> comJr.done, failed |-> TRUE]
        BY <1>0, <4>1
      <4> QED BY <2>1, <4>2
    <3> QED BY <3>1, <3>2
  <2>3. comInit' \in [pc : {"off", "run", "tool", "record"}, rc : {0, 1}] /\ comInit'.pc # "tool"
    BY <1>0, <1>3 DEF InitRecord, ComEnds
  <2> QED BY <1>3, <2>2, <2>3, ComRunnerMoves DEF InitRecord
<1>4. CASE InitFinish
  BY <1>0, <1>4, ComRunnerMoves DEF InitFinish, ComEnds
<1> QED BY <1>1, <1>2, <1>3, <1>4

\* The session endpoint.
LEMMA ComEndpointSteps ==
  ASSUME ComInv, Sessions
  PROVE  ComInv'
<1>0. feHw \in ComHardware
  BY DEF ComInv, ComShape
<1>1. ASSUME NEW kind \in {"prod", "lab"}, ComOpen(kind) PROVE ComInv'
  <2>1. ComShape'
    BY <1>1 DEF ComInv, ComShape, ComOpen, ComFree
  <2>2. CacheFresh'
    BY <1>1 DEF CacheFresh, ComOpen
  <2>3. ComStagesHeld' /\ ComCalibrated' /\ ComGranted' /\ ComTables'
    BY <1>1, ComQuiet DEF ComOpen
  <2> QED BY <2>1, <2>2, <2>3 DEF ComInv
<1>2. CASE ComClose
  <2>1. ComShape'
    BY <1>2 DEF ComInv, ComShape, ComClose
  <2>2. CacheFresh'
    BY <1>2 DEF CacheFresh, ComClose
  <2>3. ComStagesHeld' /\ ComCalibrated' /\ ComGranted' /\ ComTables'
    BY <1>2, ComQuiet DEF ComClose
  <2> QED BY <2>1, <2>2, <2>3 DEF ComInv
<1>3. ASSUME NEW on \in BOOLEAN, ComCall(on) PROVE ComInv'
  <2>1. feHw' = [feHw EXCEPT !.sessions = on]
    BY <1>3 DEF ComCall
  <2>2. feHw' \in ComHardware
    BY <1>0, <2>1 DEF ComHardware
  <2>3. /\ feHw'.dphy = feHw.dphy /\ feHw'.cal = feHw.cal /\ feHw'.tdi = feHw.tdi /\ feHw'.tables = feHw.tables
        /\ feHw'.flu = feHw.flu /\ feHw'.sem = feHw.sem
    BY <1>0, <2>1 DEF ComHardware
  <2>4. ComShape'
    BY <1>3, <2>2 DEF ComInv, ComShape, ComCall
  <2>5. CacheFresh'
    BY <1>3 DEF ComInv, CacheFresh, ComCall
  <2>6. ComStagesHeld' /\ ComCalibrated' /\ ComGranted' /\ ComTables'
    BY <1>3, <2>3, ComQuiet DEF ComCall
  <2> QED BY <2>4, <2>5, <2>6 DEF ComInv
<1> QED BY <1>1, <1>2, <1>3 DEF Sessions

\* Memory is not spoilt, and no table set up without it, by a reset.
LEMMA ComResetSteps ==
  ASSUME ComInv, FeReset \/ WarmIssue
  PROVE  ComInv'
<1>0. feHw \in ComHardware
  BY DEF ComInv, ComShape
<1>1. CASE FeReset
  <2>1. ResetState \in ComHardware
    BY DEF ResetState, ComHardware
  <2>2. /\ \A m \in Memory : ~ResetState.dphy[m]
        /\ ResetState.flu = "off" /\ ResetState.sem = "off" /\ ResetState.tables = "none"
    BY DEF ResetState
  <2>3. ComShape'
    BY <1>1, <2>1 DEF ComInv, ComShape, FeReset, Faulty
  <2>4. CacheFresh'
    BY <1>1 DEF ComInv, CacheFresh, FeReset
  <2>5. ComStagesHeld'
    BY <1>1 DEF ComInv, ComStagesHeld, ComChain, FeReset
  <2>6. ComCalibrated'
    BY <1>1, <2>2, ComTools DEF ComCalibrated, FeReset
  <2>7. ComGranted'
    BY <1>1, <2>2 DEF ComInv, ComGranted, FeReset
  <2>8. ComTables'
    BY <1>1, <2>2 DEF ComTables, FeReset
  <2> QED BY <2>3, <2>4, <2>5, <2>6, <2>7, <2>8 DEF ComInv
<1>2. CASE WarmIssue
  <2>1. Chains # {}
    <3>1. Cardinality(Chains) = 1
      BY <1>2 DEF WarmIssue
    <3> QED BY <3>1, FS_EmptySet
  <2>2. PICK b \in DOMAIN comPast : Initialized([feHw EXCEPT !.err = FALSE], comPast[b]) /\ ActionReady(feHw, comPast[b])
    BY <2>1 DEF Chains
  <2>3. feHw.flu = "on" /\ (\A m \in FlowMem : feHw.dphy[m]) /\ feHw.sem = "on" /\ feHw.dphy["fcm"]
    BY <2>2, <1>0 DEF Initialized, MemoryReady, ActionReady, ComHardware
  <2>4. ComShape'
    BY <1>2 DEF ComInv, ComShape, WarmIssue
  <2>5. CacheFresh'
    BY <1>2 DEF ComInv, CacheFresh, WarmIssue
  <2>6. ComStagesHeld'
    BY <1>2 DEF ComInv, ComStagesHeld, ComChain, WarmIssue
  <2>7. ComCalibrated'
    BY <1>2 DEF ComInv, ComCalibrated, WarmIssue
  <2>8. ComTables'
    BY <1>2 DEF ComInv, ComTables, WarmIssue
  <2>9. comRec[FdtTrain] # "failed"
    BY <1>2, ComTools, ComNoneAssumption DEF WarmIssue, FdtTrain, ComStages
  <2>10. comGrant'.stable = <<feHw.clk, feHw.dphy, feHw.flu, feHw.sem, feHw.blocks>>
    BY <1>2 DEF WarmIssue, Stable
  <2>11. ComGranted'
    BY <1>2, <2>3, <2>9, <2>10, ComTools DEF ComGranted, WarmIssue
  <2> QED BY <2>4, <2>5, <2>6, <2>7, <2>8, <2>11 DEF ComInv
<1> QED BY <1>1, <1>2

\* A tool starts: what its journal says of a memory can only become less.
LEMMA ComLaunchStep ==
  ASSUME ComInv, NEW s \in Tools, NEW by \in {"init", "operator"}, ComLaunch(s, by),
         by = "init" => comInit.pc = "run"
  PROVE  ComInv'
<1> DEFINE there == Journaled(s) /\ comRec[s] # None
           refused == there \/ (s.tool = "external" /\ ~Allowed(s))
<1>0. comRec \in ComRecords /\ feHw \in ComHardware /\ comInit \in [pc : {"off", "run", "tool", "record"}, rc : {0, 1}]
  BY DEF ComInv, ComShape
<1>1. /\ comTool = None /\ comHandle = None
      /\ comTool' = IF refused THEN None ELSE [step |-> s, by |-> by]
      /\ comInit' = IF by # "init" THEN comInit
                 ELSE IF refused THEN [comInit EXCEPT !.pc = "record", !.rc = 1] ELSE [comInit EXCEPT !.pc = "tool"]
      /\ comRec' = IF Journaled(s) /\ ~there THEN [comRec EXCEPT ![s] = "started"] ELSE comRec
      /\ UNCHANGED <<comPast, feHw, comJr, comHandle, comGrant, comFaults>>
  BY DEF ComLaunch, ComFree
<1>2. Journaled(s) => s \in Journals
  BY DEF Journals
<1>3. "started" \in ComStages /\ None # "started" /\ None \notin ComStages
  BY ComNoneAssumption DEF ComStages
<1>4. comRec' \in ComRecords
  BY <1>0, <1>1, <1>2, <1>3 DEF ComRecords
<1>5. \A x \in Journals : comRec'[x] = comRec[x] \/ (x = s /\ comRec[x] = None /\ comRec'[x] = "started")
  BY <1>0, <1>1, <1>2 DEF ComRecords
<1>6. \A x \in Journals : comRec'[x] \in {"failed", "completed"} => comRec[x] = comRec'[x]
  BY <1>5
<1>7. \A x \in Journals : comRec[x] \in {"failed", "completed"} => comRec[x] = comRec'[x]
  BY <1>3, <1>5 DEF ComStages
<1>8. FdtTrain \in Journals /\ FdtCal \in Journals /\ FdtCtl \in Journals /\ FdtInit \in Journals /\ FlowMem \subseteq Memory
      /\ \A m \in Memory : ComStep("train", m) \in Journals
  BY ComTools DEF FdtTrain
<1>9. comTool' # None => comTool' = [step |-> s, by |-> by] /\ comTool' \in ComLaunched
  BY <1>1 DEF ComLaunched
<1>10. ComShape'
  <2>1. comInit' \in [pc : {"off", "run", "tool", "record"}, rc : {0, 1}]
    BY <1>0, <1>1
  <2>2. comInit.pc # "tool"
    BY <1>1 DEF ComInv, ComShape
  <2>3. comInit'.pc = "tool" => comTool' = [step |-> s, by |-> "init"]
    BY <1>0, <1>1, <2>2
  <2>4. [step |-> s, by |-> "init"] # None
    BY ComNoneAssumption DEF ComLaunched
  <2>5. comInit'.pc = "tool" => comTool' # None /\ comTool'.by = "init"
    BY <2>3, <2>4
  <2> QED BY <1>1, <1>4, <1>9, <2>1, <2>5 DEF ComInv, ComShape
<1>11. ComStagesHeld'
  <2>1. comTool' # None /\ Journaled(comTool'.step) => comRec'[comTool'.step] = "started"
    BY <1>0, <1>1, <1>2, <1>9 DEF ComRecords
  <2>2. ComChain(comRec)'
    BY <1>6, <1>7, <1>8 DEF ComInv, ComStagesHeld, ComChain
  <2> QED BY <2>1, <2>2 DEF ComStagesHeld
<1>12. ASSUME NEW m \in Memory, Latest(comRec', m) = "completed" PROVE Latest(comRec, m) = "completed"
  <2>1. CASE s \notin ComTrains(m) \/ comRec'[s] = comRec[s]
    <3>1. ComTrains(m) \subseteq Journals
      BY ComTools DEF ComTrains
    <3>2. \A t \in ComTrains(m) : comRec[t] = comRec'[t]
      BY <1>5, <2>1, <3>1
    <3> QED BY <1>0, <1>4, <1>12, <3>2, ComLatestSame
  <2>2. CASE s \in ComTrains(m) /\ comRec'[s] # comRec[s]
    <3>0. s \in Journals
      BY <2>2, ComTools DEF ComTrains
    <3>1. comRec'[s] = "started"
      BY <1>5, <2>2, <3>0
    <3>2. CASE m # "fdt"
      <4>1. Latest(comRec', m) = comRec'[ComStep("train", m)]
        BY <1>4, <3>2, ComLatest
      <4>2. s = ComStep("train", m)
        BY <2>2, <3>2 DEF ComTrains
      <4> QED BY <3>1, <4>1, <4>2, <1>12
    <3>3. CASE m = "fdt"
      <4>1. s \in Recovery \cup {FdtTrain}
        BY <2>2, <3>3 DEF ComTrains, FdtTrain
      <4>2. ComChain(comRec')
        BY <1>11 DEF ComStagesHeld, ComChain
      <4>3. [comRec' EXCEPT ![s] = "started"] = comRec'
        BY <1>4, <3>0, <3>1 DEF ComRecords
      <4>4. "started" \in ComStages \ {"completed"}
        BY DEF ComStages
      <4>5. Latest([comRec' EXCEPT ![s] = "started"], "fdt") # "completed"
        BY <1>4, <3>1, <4>1, <4>2, <4>4, ComStartedIsLatest
      <4> QED BY <1>12, <3>3, <4>3, <4>5
    <3> QED BY <3>2, <3>3
  <2> QED BY <2>1, <2>2
<1>13. ComCalibrated'
  <2>1. \A m \in FlowMem : Latest(comRec', m) = "completed" /\ feHw.dphy[m] => feHw.cal[m] = "good"
    BY <1>8, <1>12 DEF ComInv, ComCalibrated
  <2>2. comRec'[ComStep("train", "fcm")] = "completed" /\ feHw.dphy["fcm"] => feHw.cal["fcm"] = "good"
    BY <1>6, <1>8, ComTools DEF ComInv, ComCalibrated
  <2> QED BY <1>1, <2>1, <2>2 DEF ComCalibrated
<1>14. ComGranted'
  BY <1>1, <1>6, <1>7, <1>8 DEF ComInv, ComGranted
<1>15. ComTables'
  <2>1. comTool' # None /\ comTool'.step.tool = "external" => feHw.tdi = "trained"
    <3> SUFFICES ASSUME comTool' # None, comTool'.step.tool = "external" PROVE feHw.tdi = "trained"
      OBVIOUS
    <3>1. s.tool = "external" /\ Allowed(s)
      BY <1>1, <1>9
    <3>2. s = ComStep("external", None)
      BY <3>1, ComToolKinds DEF ComStep, FdtCal, FdtCtl, FdtInit, ComDeviceTools
    <3> QED BY <3>1, <3>2, ComAllowed
  <2> QED BY <1>1, <2>1 DEF ComInv, ComTables
<1>16. CacheFresh'
  BY <1>1 DEF CacheFresh
<1> QED BY <1>10, <1>11, <1>13, <1>14, <1>15, <1>16 DEF ComInv

\* The step that follows in the plan is a tool, or the archive.
LEMMA ComInitSteps ==
  ASSUME ComInv, InitStep
  PROVE  ComInv'
<1>0. comInit \in [pc : {"off", "run", "tool", "record"}, rc : {0, 1}] /\ comJr \in [done : Nat, failed : BOOLEAN]
  BY DEF ComInv, ComShape
<1>1. CASE NextStep.tool = "archive"
  <2>1. Archive /\ UNCHANGED <<comPast, feHw, comRec, comTool, comHandle, comGrant, comFaults>> /\ comInit.pc = "run"
    BY <1>1 DEF InitStep
  <2>2. comJr' \in [done : Nat, failed : BOOLEAN]
    <3>1. comJr = [done |-> comJr.done, failed |-> comJr.failed] /\ comJr.done \in Nat /\ comJr.failed \in BOOLEAN
      BY <1>0
    <3>2. comJr' = comJr \/ comJr' = [comJr EXCEPT !.done = @ + 1]
      BY <2>1 DEF Archive
    <3>3. comJr' = comJr \/ comJr' = [done |-> comJr.done + 1, failed |-> comJr.failed]
      BY <3>1, <3>2
    <3> QED BY <1>0, <3>1, <3>3
  <2>3. comInit' \in [pc : {"off", "run", "tool", "record"}, rc : {0, 1}] /\ comInit'.pc # "tool"
    BY <1>0, <2>1 DEF Archive, ComEnds
  <2> QED BY <2>1, <2>2, <2>3, ComRunnerMoves
<1>2. CASE NextStep.tool # "archive"
  <2>1. Pending /\ ComLaunch(NextStep, "init") /\ comInit.pc = "run"
    BY <1>2 DEF InitStep
  <2>2. comJr.done + 1 \in DOMAIN InitPlan
    <3>1. DOMAIN InitPlan = 1 .. Len(InitPlan) /\ Len(InitPlan) \in Nat
      BY ComPlan
    <3>2. comJr.done \in Nat /\ comJr.done < Len(InitPlan)
      BY <1>0, <2>1 DEF Pending
    <3> QED BY <3>1, <3>2
  <2>3. NextStep \in PlanSteps
    BY <2>2 DEF NextStep, PlanSteps
  <2>4. NextStep \in Tools
    BY <1>2, <2>3 DEF Tools, ComStep
  <2> QED BY <2>1, <2>4, ComLaunchStep
<1> QED BY <1>1, <1>2

\* What an operator starts.
LEMMA ComOperatorSteps ==
  ASSUME ComInv, Operator
  PROVE  ComInv'
<1>1. CASE \E s \in Recovery \cup {ComStep("flu", None)} : ComLaunch(s, "operator")
  <2>1. Recovery \cup {ComStep("flu", None)} \subseteq Tools
    BY ComTools DEF ComDeviceTools
  <2> QED BY <1>1, <2>1, ComLaunchStep
<1>2. CASE VerifyFlu("operator")
  <2>1. FluVerify \in Tools
    BY DEF Tools
  <2> QED BY <1>2, <2>1, ComLaunchStep DEF VerifyFlu
<1>3. CASE WarmIssue \/ FeReset
  BY <1>3, ComResetSteps
<1> QED BY <1>1, <1>2, <1>3 DEF Operator

\* The tables are set up, and stay set up, behind a trained interface.
LEMMA ComTablesKept ==
  ASSUME ComInv, comTool # None, Passed(comTool.step),
         NEW h \in {feHw, EffectOf(comTool.step).done} \cup EffectOf(comTool.step).spoilt
  PROVE  h.tables # "none" => h.tdi = "trained"
<1> DEFINE s == comTool.step
<1>1. s \in Tools /\ feHw \in ComHardware
  BY DEF ComInv, ComShape, ComLaunched
<1>2. feHw.tables # "none" => feHw.tdi = "trained"
  BY DEF ComInv, ComTables
<1>3. s.tool = "external" => feHw.tdi = "trained"
  BY DEF ComInv, ComTables
<1>4. s.tool # "external" => Allowed(s)
  BY DEF Passed
<1> HIDE DEF s
<1>5. h \in {feHw, EffectOf(s).done} \cup EffectOf(s).spoilt
  BY DEF s
<1>6. ComOutcome(s, h)
  BY <1>1, <1>5, ComEffects
<1>7. CASE s = ComStep("external", None)
  <2>1. s.tool = "external" /\ s # ComStep("ddr-clocks", None) /\ s # ComStep("ddr-train", None)
    BY <1>7 DEF ComStep
  <2> QED BY <2>1, <1>3, <1>6 DEF ComOutcome
<1>8. CASE s = ComStep("ddr-clocks", None) \/ s = ComStep("ddr-train", None)
  <2>1. s # ComStep("external", None) /\ Allowed(s)
    BY <1>4, <1>8 DEF ComStep
  <2>2. feHw.tdi # "trained"
    BY <1>8, <2>1, ComAllowed
  <2> QED BY <1>2, <1>6, <2>1, <2>2 DEF ComOutcome
<1>9. CASE s # ComStep("external", None) /\ s # ComStep("ddr-clocks", None) /\ s # ComStep("ddr-train", None)
  BY <1>2, <1>6, <1>9 DEF ComOutcome
<1> QED BY <1>7, <1>8, <1>9

\* The records R a tool leaves with the hardware h when it ends.
ComMarked(stage) == IF comTool.step \in Journals THEN [comRec EXCEPT ![comTool.step] = stage] ELSE comRec
ComLeaves(R, h) ==
  \/ h = feHw /\ (R = comRec \/ R = ComMarked("refused"))
  \/ Passed(comTool.step) /\ h \in {feHw} \cup EffectOf(comTool.step).spoilt /\ (R = comRec \/ R = ComMarked("failed"))
  \/ Passed(comTool.step) /\ h = EffectOf(comTool.step).done /\ R = ComMarked("completed")
  \/ Passed(comTool.step) /\ comTool.step = ComStep("flu", None) /\ h = EffectOf(comTool.step).done /\ R = ComMarked("changed")

\* A tool that ends badly leaves no journal by which its memory is calibrated.
LEMMA ComStale ==
  ASSUME ComInv, comTool # None, NEW m \in Memory, comTool.step \in ComTrains(m), NEW v \in ComStages \ {"completed"}
  PROVE  Latest([comRec EXCEPT ![comTool.step] = v], m) # "completed"
<1> DEFINE s == comTool.step
<1>1. s \in Journals /\ Journaled(s)
  <2>1. s \in Journals
    BY ComTools DEF ComTrains
  <2>2. Journaled(s)
    BY ComTools DEF ComTrains, Journaled, ComStep, FdtCal, FdtCtl, FdtInit
  <2> QED BY <2>1, <2>2
<1>2. comRec \in ComRecords /\ comRec[s] = "started" /\ ComChain(comRec)
  BY <1>1 DEF ComInv, ComShape, ComStagesHeld
<1> HIDE DEF s
<1>3. [comRec EXCEPT ![s] = v] \in ComRecords /\ [comRec EXCEPT ![s] = v][s] = v
  BY <1>1, <1>2 DEF ComRecords
<1>4. CASE m # "fdt"
  <2>1. s = ComStep("train", m)
    BY <1>4 DEF s, ComTrains
  <2>2. Latest([comRec EXCEPT ![s] = v], m) = [comRec EXCEPT ![s] = v][ComStep("train", m)]
    BY <1>3, <1>4, ComLatest
  <2> QED BY <1>3, <2>1, <2>2 DEF s
<1>5. CASE m = "fdt"
  <2>1. s \in Recovery \cup {FdtTrain}
    BY <1>5 DEF s, ComTrains, FdtTrain
  <2> QED BY <1>2, <1>5, <2>1, ComStartedIsLatest DEF s
<1> QED BY <1>4, <1>5

\* What the latest stage of FDT1 tells of its earlier ones.
LEMMA ComRecovered ==
  ASSUME NEW R \in ComRecords, ComChain(R), Latest(R, "fdt") = "completed", R[FdtTrain] = "failed"
  PROVE  R[FdtCal] \in {"failed", "completed"}
<1>1. None # "completed"
  BY ComNoneAssumption DEF ComStages
<1>2. CASE R[FdtInit] # None
  BY <1>2, ComLatest DEF ComChain
<1>3. CASE R[FdtInit] = None /\ R[FdtCtl] # None
  BY <1>3, ComLatest DEF ComChain
<1>4. CASE R[FdtInit] = None /\ R[FdtCtl] = None /\ R[FdtCal] # None
  BY <1>4, ComLatest
<1>5. CASE R[FdtInit] = None /\ R[FdtCtl] = None /\ R[FdtCal] = None
  BY <1>5, ComLatest
<1> QED BY <1>2, <1>3, <1>4, <1>5

\* Nothing calibrates a memory under tables that are on.
LEMMA ComNotUnder ==
  ASSUME ComInv, comTool # None, Passed(comTool.step), comGrant # None
  PROVE  /\ feHw.flu = "on" => \A m \in FlowMem : comTool.step \notin ComTrains(m)
         /\ feHw.sem = "on" => comTool.step \notin ComTrains("fcm")
<1> DEFINE s == comTool.step
<1>1. \A m \in Memory : s \in ComTrains(m) => Allowed(s) /\ Journaled(s) /\ comRec[s] = "started"
  <2> SUFFICES ASSUME NEW m \in Memory, s \in ComTrains(m) PROVE Allowed(s) /\ Journaled(s) /\ comRec[s] = "started"
    OBVIOUS
  <2>1. Journaled(s) /\ s.tool # "external"
    BY ComTools DEF ComTrains, Journaled, ComStep, FdtCal, FdtCtl, FdtInit
  <2> QED BY <2>1 DEF Passed, ComInv, ComStagesHeld
<1>2. feHw.flu = "on" => (\A m \in FlowMem : feHw.dphy[m]) /\ (comRec[FdtTrain] = "failed" => comRec[FdtCal] \in {"failed", "completed"})
  BY DEF ComInv, ComGranted
<1>3. feHw.sem = "on" => feHw.dphy["fcm"]
  BY DEF ComInv, ComGranted
<1> HIDE DEF s
<1>4. ASSUME NEW m \in FlowMem, feHw.flu = "on", s \in ComTrains(m) PROVE FALSE
  <2>0. m \in Memory
    BY ComTools
  <2>1. Allowed(s) /\ comRec[s] = "started"
    BY <1>1, <1>4, <2>0
  <2>2. CASE s = ComStep("train", m)
    BY <1>2, <1>4, <2>0, <2>1, <2>2, ComAllowed
  <2>3. CASE s = FdtCal
    BY <1>2, <1>4, <2>1, <2>3, ComAllowed
  <2>4. CASE s = FdtCtl \/ s = FdtInit
    BY <1>4, <2>1, <2>4, ComAllowed
  <2> QED BY <1>4, <2>2, <2>3, <2>4, ComTools DEF ComTrains
<1>5. ASSUME feHw.sem = "on", s \in ComTrains("fcm") PROVE FALSE
  <2>1. s = ComStep("train", "fcm") /\ "fcm" \in Memory
    BY <1>5, ComTools DEF ComTrains
  <2> QED BY <1>1, <1>3, <1>5, <2>1, ComAllowed
<1> QED BY <1>4, <1>5 DEF s

\* However a tool ends, its memory is calibrated where the journals say so, and
\* the tables are on over such memory only.
LEMMA ComOutcomes ==
  ASSUME ComInv, comTool # None, NEW R, NEW h, ComLeaves(R, h)
  PROVE  /\ R \in ComRecords /\ h \in ComHardware /\ ComChain(R)
         /\ \A m \in FlowMem : Latest(R, m) = "completed" /\ h.dphy[m] => h.cal[m] = "good"
         /\ R[ComStep("train", "fcm")] = "completed" /\ h.dphy["fcm"] => h.cal["fcm"] = "good"
         /\ comGrant # None /\ h.flu = "on" =>
              /\ \A m \in FlowMem : h.dphy[m] /\ h.cal[m] = "good"
              /\ R[FdtTrain] = "failed" => R[FdtCal] \in {"failed", "completed"}
         /\ comGrant # None /\ h.sem = "on" => h.dphy["fcm"] /\ h.cal["fcm"] = "good"
         /\ h.tables # "none" => h.tdi = "trained"
<1> DEFINE s == comTool.step
<1>0. s \in Tools /\ feHw \in ComHardware /\ comRec \in ComRecords /\ ComChain(comRec)
  BY DEF ComInv, ComShape, ComLaunched, ComStagesHeld
<1>1. h \in {feHw, EffectOf(s).done} \cup EffectOf(s).spoilt /\ (h # feHw => Passed(s))
  BY DEF ComLeaves
<1>2. R = comRec \/ (s \in Journals /\ \E v \in ComStages : R = [comRec EXCEPT ![s] = v])
  BY DEF ComLeaves, ComMarked, ComStages
<1>3. Journaled(s) => comRec[s] = "started"
  BY DEF ComInv, ComStagesHeld
<1>4. h.tables # "none" => h.tdi = "trained"
  <2>1. CASE Passed(s)
    BY <1>1, <2>1, ComTablesKept
  <2>2. CASE ~Passed(s)
    BY <1>1, <2>2 DEF ComInv, ComTables
  <2> QED BY <2>1, <2>2
<1>5. ComOutcome(s, h)
  BY <1>0, <1>1, ComEffects
<1>6. R \in ComRecords
  BY <1>0, <1>2 DEF ComRecords
<1>7. \A x \in Journals : x # s => R[x] = comRec[x]
  BY <1>0, <1>2 DEF ComRecords
<1>8. \A m \in Memory : s \in ComTrains(m) => s \in Journals /\ Journaled(s) /\ s # ComStep("flu", None) /\ s.tool # "external"
  <2> SUFFICES ASSUME NEW m \in Memory, s \in ComTrains(m)
               PROVE s \in Journals /\ Journaled(s) /\ s # ComStep("flu", None) /\ s.tool # "external"
    OBVIOUS
  <2>1. s \in Journals
    BY ComTools DEF ComTrains
  <2> QED BY <2>1, ComTools DEF ComTrains, Journaled, ComStep, FdtCal, FdtCtl, FdtInit
\* a calibrating tool: either it succeeded, or its journal is not completed
<1>9. ASSUME NEW m \in Memory, s \in ComTrains(m)
      PROVE  \/ Passed(s) /\ h = EffectOf(s).done /\ R = [comRec EXCEPT ![s] = "completed"]
             \/ \E v \in ComStages \ {"completed"} : R = [comRec EXCEPT ![s] = v] /\ (v = "failed" => Passed(s)) /\ v # "changed"
  <2>1. s \in Journals /\ Journaled(s) /\ comRec[s] = "started" /\ s # ComStep("flu", None)
    BY <1>3, <1>8, <1>9
  <2>2. comRec = [comRec EXCEPT ![s] = "started"]
    BY <1>0, <2>1 DEF ComRecords
  <2>3. R = comRec \/ R = [comRec EXCEPT ![s] = "refused"] \/ (Passed(s) /\ R = [comRec EXCEPT ![s] = "failed"])
        \/ (Passed(s) /\ h = EffectOf(s).done /\ R = [comRec EXCEPT ![s] = "completed"])
    BY <2>1 DEF ComLeaves, ComMarked
  <2>4. "started" \in ComStages \ {"completed"} /\ "refused" \in ComStages \ {"completed"} /\ "failed" \in ComStages \ {"completed"}
    BY DEF ComStages
  <2> HIDE DEF s
  <2> QED BY <2>2, <2>3, <2>4
<1>10. ASSUME NEW m \in Memory, s \in ComTrains(m), Passed(s), h = EffectOf(s).done PROVE h.dphy[m] /\ h.cal[m] = "good"
  <2>1. CASE s = ComStep("train", m)
    <3>1. EffectOf(s) = Calibrates(feHw.clk[m] = "on" /\ ~feHw.dphy[m] /\ ~feHw.sessions, m)
      BY <2>1, ComEffectOf DEF TrainMemory
    <3> QED BY <1>0, <1>10, <3>1, ComCalibratesWell
  <2>2. CASE m = "fdt" /\ s \in Recovery
    <3>1. \E ok : EffectOf(s) = Calibrates(ok, "fdt")
      BY <2>2, ComTools, ComEffectOf DEF RecoverCalibration, RecoverController
    <3> QED BY <1>0, <1>10, <2>2, <3>1, ComCalibratesWell
  <2> QED BY <1>10, <2>1, <2>2 DEF ComTrains
<1>11. ASSUME NEW m \in Memory, s \notin ComTrains(m)
       PROVE  h.dphy[m] = feHw.dphy[m] /\ h.cal[m] = feHw.cal[m] /\ Latest(R, m) = Latest(comRec, m)
              /\ R[ComStep("train", m)] = comRec[ComStep("train", m)]
  <2>1. ComTrains(m) \subseteq Journals /\ ComStep("train", m) \in ComTrains(m)
    BY ComTools DEF ComTrains
  <2>2. \A t \in ComTrains(m) : R[t] = comRec[t]
    BY <1>7, <1>11, <2>1
  <2>3. Latest(R, m) = Latest(comRec, m)
    BY <1>0, <1>6, <2>2, ComLatestSame
  <2> QED BY <1>5, <1>11, <2>1, <2>2, <2>3 DEF ComOutcome
<1>12. ASSUME NEW m \in FlowMem, Latest(R, m) = "completed", h.dphy[m] PROVE h.cal[m] = "good"
  <2>0. m \in Memory
    BY ComTools
  <2>1. CASE s \notin ComTrains(m)
    BY <1>11, <1>12, <2>0, <2>1 DEF ComInv, ComCalibrated
  <2>2. CASE s \in ComTrains(m)
    BY <1>9, <1>10, <1>12, <2>0, <2>2, ComStale
  <2> QED BY <2>1, <2>2
<1>13. R[ComStep("train", "fcm")] = "completed" /\ h.dphy["fcm"] => h.cal["fcm"] = "good"
  <2> SUFFICES ASSUME R[ComStep("train", "fcm")] = "completed", h.dphy["fcm"] PROVE h.cal["fcm"] = "good"
    OBVIOUS
  <2>0. "fcm" \in Memory
    BY ComTools
  <2>1. CASE s \notin ComTrains("fcm")
    BY <1>11, <2>0, <2>1 DEF ComInv, ComCalibrated
  <2>2. CASE s \in ComTrains("fcm")
    <3>1. Latest(R, "fcm") = "completed"
      BY <1>6, <2>0, ComLatest
    <3> QED BY <1>9, <1>10, <2>0, <2>2, <3>1, ComStale
  <2> QED BY <2>1, <2>2
<1>14. FdtTrain \in Journals /\ FdtCal \in Journals /\ FdtCtl \in Journals /\ FdtInit \in Journals
       /\ "fdt" \in FlowMem /\ "fdt" \in Memory /\ "fcm" \in Memory /\ FlowMem \subseteq Memory
       /\ FdtTrain \in ComTrains("fdt") /\ FdtCal \in ComTrains("fdt") /\ FdtCtl \in ComTrains("fdt") /\ FdtInit \in ComTrains("fdt")
  BY ComTools DEF ComTrains, FdtTrain
\* a stage of FDT1 that changes was open before and was let through
<1>15. ASSUME NEW x \in {FdtTrain, FdtCal, FdtCtl, FdtInit}, R[x] \in {"failed", "completed"}
       PROVE  R[x] = comRec[x] \/ (x = s /\ Allowed(s) /\ comRec[s] = "started")
  <2>1. CASE x # s
    BY <1>7, <1>14, <2>1
  <2>2. CASE x = s
    <3>1. s \in ComTrains("fdt") /\ s \in Journals
      BY <1>14, <2>2
    <3>2. Journaled(s) /\ s.tool # "external" /\ comRec[s] = "started"
      BY <1>3, <1>8, <1>14, <3>1
    <3>3. Passed(s)
      <4>1. \A v : [comRec EXCEPT ![s] = v][s] = v
        BY <1>0, <3>1 DEF ComRecords
      <4>2. CASE Passed(s) /\ h = EffectOf(s).done /\ R = [comRec EXCEPT ![s] = "completed"]
        BY <4>2
      <4>3. ASSUME NEW v \in ComStages \ {"completed"}, R = [comRec EXCEPT ![s] = v], v = "failed" => Passed(s)
            PROVE  Passed(s)
        <5>1. R[s] = v
          BY <4>1, <4>3
        <5>2. v = "failed"
          BY <1>15, <2>2, <5>1
        <5> QED BY <4>3, <5>2
      <4> QED BY <1>9, <1>14, <3>1, <4>2, <4>3
    <3> QED BY <2>2, <3>2, <3>3 DEF Passed
  <2> QED BY <2>1, <2>2
\* and one that others rest on does not change
<1>16. ASSUME NEW x \in {FdtTrain, FdtCal, FdtCtl, FdtInit}, comRec[x] \in {"failed", "completed"} PROVE R[x] = comRec[x]
  <2>1. x # s
    <3>1. s \in {FdtTrain, FdtCal, FdtCtl, FdtInit} => comRec[s] = "started"
      BY <1>3, <1>8, <1>14
    <3> QED BY <1>16, <3>1
  <2> QED BY <1>7, <1>14, <2>1
<1>17. ComChain(R)
  <2>1. R[FdtCal] \in {"failed", "completed"} => comRec[FdtTrain] = "failed"
    BY <1>0, <1>15, ComAllowed, ComDistinct DEF ComChain
  <2>2. R[FdtCtl] \in {"failed", "completed"} => comRec[FdtCal] = "failed"
    BY <1>0, <1>15, ComAllowed, ComDistinct DEF ComChain
  <2>3. R[FdtInit] \in {"failed", "completed"} => comRec[FdtCtl] = "failed"
    BY <1>0, <1>15, ComAllowed, ComDistinct DEF ComChain
  <2> QED BY <2>1, <2>2, <2>3, <1>16 DEF ComChain
<1>18. ASSUME comGrant # None, h.flu = "on"
       PROVE  /\ \A m \in FlowMem : h.dphy[m] /\ h.cal[m] = "good"
              /\ R[FdtTrain] = "failed" => R[FdtCal] \in {"failed", "completed"}
  <2>1. \/ feHw.flu = "on"
        \/ feHw.flu # "on" /\ s = ComStep("flu", None) /\ Allowed(s)
    <3>1. feHw.flu # "on" => s = ComStep("flu", None) /\ Passed(s)
      BY <1>1, <1>5, <1>18 DEF ComOutcome
    <3>2. s = ComStep("flu", None) => s.tool # "external"
      BY DEF ComStep
    <3> QED BY <3>1, <3>2 DEF Passed
  <2>2. CASE feHw.flu = "on"
    <3>1. (\A m \in FlowMem : feHw.dphy[m] /\ feHw.cal[m] = "good") /\ (comRec[FdtTrain] = "failed" => comRec[FdtCal] \in {"failed", "completed"})
      BY <1>18, <2>2 DEF ComInv, ComGranted
    <3>2. \A m \in FlowMem : h.dphy[m] /\ h.cal[m] = "good"
      <4>1. CASE Passed(s)
        <5>1. \A m \in FlowMem : s \notin ComTrains(m)
          BY <1>18, <2>2, <4>1, ComNotUnder
        <5> QED BY <1>11, <1>14, <3>1, <5>1
      <4>2. CASE ~Passed(s)
        BY <1>1, <3>1, <4>2
      <4> QED BY <4>1, <4>2
    <3>3. R[FdtTrain] = "failed" => comRec[FdtTrain] = "failed"
      <4> SUFFICES ASSUME R[FdtTrain] = "failed", comRec[FdtTrain] # "failed" PROVE FALSE
        OBVIOUS
      <4>1. FdtTrain = s /\ Allowed(s)
        BY <1>15
      <4>2. Passed(s)
        BY <4>1 DEF Passed
      <4> QED BY <1>14, <1>18, <2>2, <4>1, <4>2, ComNotUnder
    <3> QED BY <1>16, <3>1, <3>2, <3>3
  <2>3. CASE feHw.flu # "on" /\ s = ComStep("flu", None) /\ Allowed(s)
    <3>1. MemoryReady(feHw, comRec)
      BY <2>3, ComAllowed
    <3>2. \A m \in FlowMem : feHw.dphy[m] /\ feHw.cal[m] = "good" /\ Latest(comRec, m) = "completed"
      BY <3>1 DEF MemoryReady, ComInv, ComCalibrated
    <3>3. \A m \in Memory : s \notin ComTrains(m)
      BY <1>8, <2>3
    <3>4. \A m \in FlowMem : h.dphy[m] /\ h.cal[m] = "good" /\ Latest(R, m) = "completed"
      BY <1>11, <1>14, <3>2, <3>3
    <3>5. R[FdtTrain] = "failed" => R[FdtCal] \in {"failed", "completed"}
      BY <1>6, <1>14, <1>17, <3>4, ComRecovered
    <3> QED BY <3>4, <3>5
  <2> QED BY <2>1, <2>2, <2>3
<1>19. ASSUME comGrant # None, h.sem = "on" PROVE h.dphy["fcm"] /\ h.cal["fcm"] = "good"
  <2>1. CASE feHw.sem = "on"
    <3>1. feHw.dphy["fcm"] /\ feHw.cal["fcm"] = "good"
      BY <1>19, <2>1 DEF ComInv, ComGranted
    <3>2. CASE Passed(s)
      <4>1. s \notin ComTrains("fcm")
        BY <1>19, <2>1, <3>2, ComNotUnder
      <4> QED BY <1>11, <1>14, <3>1, <4>1
    <3>3. CASE ~Passed(s)
      BY <1>1, <3>1, <3>3
    <3> QED BY <3>2, <3>3
  <2>2. CASE feHw.sem # "on"
    <3>1. s = ComStep("sem", None) /\ Passed(s)
      BY <1>1, <1>5, <1>19, <2>2 DEF ComOutcome
    <3>2. s \notin ComTrains("fcm") /\ s.tool # "external"
      BY <3>1, ComTools DEF ComTrains, ComStep
    <3>3. Allowed(ComStep("sem", None))
      BY <3>1, <3>2 DEF Passed
    <3>4. feHw.dphy["fcm"] /\ feHw.cal["fcm"] = "good"
      BY <3>3, ComAllowed DEF ComInv, ComCalibrated
    <3> QED BY <1>11, <1>14, <3>2, <3>4
  <2> QED BY <2>1, <2>2
<1>20. h \in ComHardware
  BY <1>5 DEF ComOutcome
<1> QED BY <1>4, <1>6, <1>12, <1>13, <1>17, <1>18, <1>19, <1>20

\* A step in which a tool ends, leaving hardware and journals as above.
LEMMA ComToolEnds ==
  ASSUME ComInv, comTool # None, ComLeaves(comRec', feHw'), comTool' = None, UNCHANGED <<comPast, comJr, comHandle, comGrant>>,
         comInit' \in [pc : {"off", "run", "tool", "record"}, rc : {0, 1}], comInit'.pc # "tool", comFaults' \in Nat
  PROVE  ComInv'
<1> DEFINE R == comRec'
           h == feHw'
<1>1. /\ R \in ComRecords /\ h \in ComHardware /\ ComChain(R)
      /\ \A m \in FlowMem : Latest(R, m) = "completed" /\ h.dphy[m] => h.cal[m] = "good"
      /\ R[ComStep("train", "fcm")] = "completed" /\ h.dphy["fcm"] => h.cal["fcm"] = "good"
      /\ comGrant # None /\ h.flu = "on" =>
           /\ \A m \in FlowMem : h.dphy[m] /\ h.cal[m] = "good"
           /\ R[FdtTrain] = "failed" => R[FdtCal] \in {"failed", "completed"}
      /\ comGrant # None /\ h.sem = "on" => h.dphy["fcm"] /\ h.cal["fcm"] = "good"
      /\ h.tables # "none" => h.tdi = "trained"
  <2> HIDE DEF R, h
  <2>1. ComLeaves(R, h)
    BY DEF R, h
  <2> QED BY <2>1, ComOutcomes
<1>2. ComShape'
  BY <1>1 DEF ComInv, ComShape
<1>3. ComStagesHeld'
  BY <1>1 DEF ComStagesHeld, ComChain
<1>4. ComCalibrated'
  BY <1>1 DEF ComCalibrated
<1>5. ComGranted'
  BY <1>1 DEF ComInv, ComGranted
<1>6. ComTables'
  BY <1>1 DEF ComTables
<1>7. CacheFresh'
  BY DEF ComInv, ComShape, CacheFresh
<1> QED BY <1>2, <1>3, <1>4, <1>5, <1>6, <1>7 DEF ComInv

\* A step of a tool at work keeps the invariant, however the tool ends.
LEMMA ComWorkStep ==
  ASSUME ComInv, ComWork
  PROVE  ComInv'
<1> DEFINE s == comTool.step
<1>0. comTool # None /\ UNCHANGED <<comPast, comJr, comHandle, comGrant>> /\ comFaults \in Nat
      /\ comInit \in [pc : {"off", "run", "tool", "record"}, rc : {0, 1}]
  BY DEF ComWork, ComInv, ComShape
<1>1. \E rc \in {0, 1} : Exits(rc)
  BY DEF ComWork
<1>2. comTool' = None /\ comInit' \in [pc : {"off", "run", "tool", "record"}, rc : {0, 1}]
  BY <1>0, <1>1 DEF Exits
<1>3. comInit'.pc # "tool"
  BY <1>0, <1>1 DEF Exits, ComInv, ComShape
<1>4. comFaults' \in Nat
  BY <1>0 DEF ComWork, Faulty
<1>5. ComLeaves(comRec', feHw')
  <2>1. CASE ~Passed(s)
    <3>1. ~Allowed(s)
      BY <2>1 DEF Passed
    <3>2. feHw' = feHw /\ (comRec' = comRec \/ Mark(s, "refused"))
      BY <2>1, <3>1 DEF ComWork
    <3> QED BY <3>2 DEF Mark, ComLeaves, ComMarked
  <2>2. CASE Passed(s) /\ feHw' = EffectOf(s).done /\ Mark(s, "completed")
    BY <2>2 DEF Mark, ComLeaves, ComMarked
  <2>3. CASE Passed(s) /\ feHw' \in EffectOf(s).spoilt /\ Mark(s, "failed")
    BY <2>3 DEF Mark, ComLeaves, ComMarked
  <2>4. CASE s.tool = "flu" /\ Allowed(s) /\ feHw' = EffectOf(s).done /\ Mark(s, "changed")
    <3>1. s \in Tools
      BY <1>0 DEF ComInv, ComShape, ComLaunched
    <3>2. s = ComStep("flu", None)
      BY <2>4, <3>1, ComToolKinds DEF ComStep, FdtCal, FdtCtl, FdtInit, ComDeviceTools
    <3> QED BY <2>4, <3>2 DEF Mark, ComLeaves, ComMarked, Passed
  <2> QED BY <2>1, <2>2, <2>3, <2>4 DEF ComWork
<1> QED BY <1>0, <1>2, <1>3, <1>4, <1>5, ComToolEnds

\* A tool that is killed leaves its journal open.
LEMMA ComCutStep ==
  ASSUME ComInv, InitCut
  PROVE  ComInv'
<1>0. feHw \in ComHardware /\ comFaults \in Nat
  BY DEF ComInv, ComShape
<1>1. comFaults' \in Nat /\ comInit' = [pc |-> "off", rc |-> 0] /\ UNCHANGED <<comPast, comRec, comExt, comJr, comHandle, comGrant>>
  BY <1>0 DEF InitCut, Faulty, ComEnds
<1>2. CASE comInit.pc = "tool"
  <2>1. comTool # None /\ comTool' = None /\ feHw' \in KilledTool
    BY <1>2 DEF InitCut, ComInv, ComShape
  <2>2. ComLeaves(comRec', feHw')
    BY <1>1, <2>1 DEF KilledTool, ComLeaves
  <2> QED BY <1>1, <2>1, <2>2, ComToolEnds
<1>3. CASE comInit.pc # "tool"
  <2>1. UNCHANGED <<comTool, feHw>>
    BY <1>3 DEF InitCut
  <2>2. ComStagesHeld' /\ ComCalibrated' /\ ComGranted' /\ ComTables'
    BY <1>1, <2>1, ComQuiet
  <2>3. ComShape'
    BY <1>1, <2>1 DEF ComInv, ComShape
  <2>4. CacheFresh'
    BY <1>1 DEF ComInv, CacheFresh
  <2> QED BY <2>2, <2>3, <2>4 DEF ComInv
<1> QED BY <1>2, <1>3

\* No journal of a new boot completes anything.
LEMMA ComNoRecords ==
  /\ NoRecords \in ComRecords
  /\ \A x \in Journals : NoRecords[x] = None
  /\ None # "completed" /\ None # "failed"
  /\ \A m \in Memory : Latest(NoRecords, m) # "completed"
<1>1. NoRecords \in ComRecords /\ \A x \in Journals : NoRecords[x] = None
  BY DEF NoRecords, ComRecords
<1>2. None # "completed" /\ None # "failed"
  BY ComNoneAssumption DEF ComStages
<1>3. FdtTrain \in Journals /\ FdtCal \in Journals /\ FdtCtl \in Journals /\ FdtInit \in Journals
      /\ \A m \in Memory : ComStep("train", m) \in Journals
  BY ComTools DEF FdtTrain
<1>4. \A m \in Memory : Latest(NoRecords, m) = None
  <2> SUFFICES ASSUME NEW m \in Memory PROVE Latest(NoRecords, m) = None
    OBVIOUS
  <2>1. CASE m # "fdt"
    BY <1>1, <1>3, <2>1, ComLatest
  <2>2. CASE m = "fdt"
    BY <1>1, <1>3, <2>2, ComLatest
  <2> QED BY <2>1, <2>2
<1> QED BY <1>1, <1>2, <1>4

\* A kill, or a reboot, leaves the variables in their sets.
LEMMA ComKilledShape ==
  ASSUME ComInv, NEW h \in KilledTool
  PROVE  h \in ComHardware /\ (h.tables # "none" => h.tdi = "trained")
<1>1. CASE h = feHw
  BY <1>1 DEF ComInv, ComShape, ComTables
<1>2. CASE h # feHw
  <2>1. comTool # None /\ Passed(comTool.step) /\ h \in {feHw} \cup EffectOf(comTool.step).spoilt
    BY <1>2 DEF KilledTool
  <2>2. ComLeaves(comRec, h)
    BY <2>1 DEF ComLeaves
  <2> QED BY <2>1, <2>2, ComOutcomes
<1> QED BY <1>1, <1>2

\* A reboot of the control plane keeps the invariant: /run is gone, the device is not.
LEMMA ComRebootStep ==
  ASSUME ComInv, NEW cold \in BOOLEAN, Reboot(cold)
  PROVE  ComInv'
<1>0. /\ comPast \in Seq(ComRecords) /\ comRec \in ComRecords /\ feHw \in ComHardware /\ comFaults \in Nat
      /\ MaxBoots \in Nat
  BY ComAssumption DEF ComInv, ComShape
<1>1. /\ comPast' = Append(comPast, IF comRec[FluVerify] # None THEN comRec ELSE NoRecords) /\ Len(comPast) + 1 < MaxBoots
      /\ comRec' = NoRecords /\ comJr' = NoSteps /\ comInit' = [pc |-> "off", rc |-> 0]
      /\ comTool' = None /\ comHandle' = None /\ comGrant' = None /\ comFaults' = comFaults
  BY DEF Reboot
<1>2. ResetState \in ComHardware /\ ResetState.tables = "none"
  BY DEF ResetState, ComHardware
<1>3. \A h \in KilledTool : h \in ComHardware /\ (h.tables # "none" => h.tdi = "trained")
  BY ComKilledShape
<1>4. feHw' \in ComHardware /\ (feHw'.tables # "none" => feHw'.tdi = "trained")
  <2>1. CASE cold
    BY <1>2, <2>1 DEF Reboot
  <2>2. CASE ~cold
    <3>1. PICK h \in KilledTool : feHw' = [h EXCEPT !.err = TRUE]
      BY <2>2 DEF Reboot
    <3>2. h \in ComHardware /\ (h.tables # "none" => h.tdi = "trained")
      BY <1>3
    <3> QED BY <3>1, <3>2 DEF ComHardware
  <2> QED BY <2>1, <2>2
<1>5. comPast' \in Seq(ComRecords) /\ Len(comPast') = Len(comPast) + 1
  BY <1>0, <1>1, ComNoRecords
<1>6. ComShape'
  BY <1>0, <1>1, <1>4, <1>5, ComNoRecords DEF ComShape, NoSteps
<1>7. ComStagesHeld'
  <2>1. FdtTrain \in Journals /\ FdtCal \in Journals /\ FdtCtl \in Journals /\ FdtInit \in Journals
    BY ComTools DEF FdtTrain
  <2>2. ComChain(NoRecords)
    BY <2>1, ComNoRecords DEF ComChain
  <2> QED BY <1>1, <2>2 DEF ComStagesHeld, ComChain
<1>8. ComCalibrated'
  BY <1>1, ComNoRecords, ComTools DEF ComCalibrated
<1>9. ComGranted' /\ ComTables' /\ CacheFresh'
  BY <1>1, <1>4 DEF ComGranted, ComTables, CacheFresh
<1> QED BY <1>6, <1>7, <1>8, <1>9 DEF ComInv

\* The invariant holds at power-on.
LEMMA ComStarts == ComInit => ComInv
<1> SUFFICES ASSUME ComInit PROVE ComInv
  OBVIOUS
<1>1. ResetState \in ComHardware /\ ResetState.tables = "none"
  BY DEF ResetState, ComHardware
<1>2. comPast = <<>> /\ feHw = ResetState /\ comRec = NoRecords /\ comJr = NoSteps /\ comInit = [pc |-> "off", rc |-> 0]
      /\ comTool = None /\ comHandle = None /\ comGrant = None /\ comFaults = 0
  BY DEF ComInit
<1>3. MaxBoots \in Nat \ {0}
  BY ComAssumption
<1>4. comPast \in Seq(ComRecords) /\ Len(comPast) < MaxBoots
  BY <1>2, <1>3
<1>5. ComShape
  BY <1>1, <1>2, <1>4, ComNoRecords DEF ComShape, NoSteps
<1>6. ComStagesHeld
  <2>1. FdtTrain \in Journals /\ FdtCal \in Journals /\ FdtCtl \in Journals /\ FdtInit \in Journals
    BY ComTools DEF FdtTrain
  <2> QED BY <1>2, <2>1, ComNoRecords DEF ComStagesHeld, ComChain
<1>7. ComCalibrated
  BY <1>2, ComNoRecords, ComTools DEF ComCalibrated
<1>8. ComGranted /\ ComTables /\ CacheFresh
  BY <1>1, <1>2 DEF ComGranted, ComTables, CacheFresh
<1> QED BY <1>5, <1>6, <1>7, <1>8 DEF ComInv

\* Every step of the controller and its tools keeps the invariant.
LEMMA ComMoves == ComInv /\ [ComNext]_comVars => ComInv'
<1> SUFFICES ASSUME ComInv, [ComNext]_comVars PROVE ComInv'
  OBVIOUS
<1>1. CASE InitStart \/ InitContended \/ InitRecord \/ InitFinish
  BY <1>1, ComRunnerSteps
<1>2. CASE InitStep
  BY <1>2, ComInitSteps
<1>3. CASE InitCut
  BY <1>3, ComCutStep
<1>4. CASE ComWork
  BY <1>4, ComWorkStep
<1>5. CASE Operator
  BY <1>5, ComOperatorSteps
<1>6. CASE Sessions
  BY <1>6, ComEndpointSteps
<1>7. CASE \E cold \in BOOLEAN : Reboot(cold)
  BY <1>7, ComRebootStep
<1>8. CASE UNCHANGED comVars
  <2>1. ComShape' /\ CacheFresh'
    BY <1>8 DEF comVars, ComInv, ComShape, CacheFresh
  <2>2. ComStagesHeld' /\ ComCalibrated' /\ ComGranted' /\ ComTables'
    BY <1>8, ComQuiet DEF comVars
  <2> QED BY <2>1, <2>2 DEF ComInv
<1> QED BY <1>1, <1>2, <1>3, <1>4, <1>5, <1>6, <1>7, <1>8 DEF ComNext

\* The invariant that carries the properties of the bring-up: which stages a
\* journal's stage proves, what a completed latest stage says of a memory whose
\* PHY is up, and that under a warm grant nothing calibrates beneath tables.
THEOREM ComInvariance == ComSpec => []ComInv
<1>1. ComInit => ComInv
  BY ComStarts
<1>2. ComInv /\ [ComNext]_comVars => ComInv'
  BY ComMoves
<1> QED BY <1>1, <1>2, PTL DEF ComSpec

\* The invariant implies what the runs check of every state.
LEMMA ComInvIsSafe == ComInv => ComSafe
<1> SUFFICES ASSUME ComInv PROVE ComSafe
  OBVIOUS
<1>1. ComTypeOK
  BY DEF ComInv, ComShape, ComTypeOK, ComRecords
<1>2. ReadyIsCalibrated
  BY DEF ComInv, ComCalibrated, ReadyIsCalibrated, Initialized, MemoryReady
<1>3. GrantIsCalibrated
  <2> SUFFICES ASSUME GrantValid PROVE \A m \in Memory : feHw.cal[m] = "good"
    BY DEF GrantIsCalibrated
  <2>1. comGrant # None /\ comGrant.stable = <<feHw.clk, feHw.dphy, feHw.flu, feHw.sem, feHw.blocks>>
    BY DEF GrantValid, Stable
  <2>2. feHw.flu = "on" /\ feHw.sem = "on"
    BY <2>1 DEF ComInv, ComGranted
  <2> QED BY <2>1, <2>2 DEF ComInv, ComGranted, Memory
<1>4. CacheFresh
  BY DEF ComInv
<1> QED BY <1>1, <1>2, <1>3, <1>4 DEF ComSafe

\* "A damaged latest journal also blocks activation"; a warm grant counts only
\* for the memory it was issued for; the records a handle read once are those of
\* now: for any number of boots, faults and tools, in any order that the table
\* lock allows.
THEOREM CommissionSafe == ComSpec => []ComSafe
<1> QED BY ComInvariance, ComInvIsSafe, PTL

\* A tool changes a calibration, or trains the TDI, over nothing that is in use.
LEMMA ComToolIdle ==
  ASSUME ComInv, comTool # None, Passed(comTool.step),
         NEW h \in {feHw, EffectOf(comTool.step).done} \cup EffectOf(comTool.step).spoilt
  PROVE  /\ h.cal # feHw.cal => ~feHw.sessions /\ comHandle = None
         /\ h.tdi = "trained" /\ feHw.tdi # "trained" => feHw.tables = "none"
<1> DEFINE s == comTool.step
<1>1. s \in Tools /\ feHw \in ComHardware /\ comHandle = None
  BY DEF ComInv, ComShape, ComLaunched
<1>2. feHw.tables # "none" => feHw.tdi = "trained"
  BY DEF ComInv, ComTables
<1>3. s.tool # "external" => Allowed(s)
  BY DEF Passed
<1> HIDE DEF s
<1>4. ComOutcome(s, h)
  BY <1>1, ComEffects DEF s
<1>5. ASSUME h.cal # feHw.cal PROVE ~feHw.sessions
  <2>1. PICK m \in Memory : s \in ComTrains(m)
    BY <1>4, <1>5 DEF ComOutcome
  <2>2. s = ComStep("train", m) \/ s = FdtCal \/ s = FdtCtl \/ s = FdtInit
    BY <2>1, ComTools DEF ComTrains
  <2>3. Allowed(s)
    BY <1>3, <2>2 DEF ComStep, FdtCal, FdtCtl, FdtInit
  <2> QED BY <2>2, <2>3, ComAllowed
<1> QED BY <1>1, <1>2, <1>5

\* No action trains memory that is in use.
LEMMA ComNoLiveStep ==
  ASSUME ComInv, [ComNext]_comVars
  PROVE  [/\ feHw'.cal # feHw.cal /\ feHw' # ResetState => ~feHw.sessions /\ comHandle = None
          /\ feHw'.tdi = "trained" /\ feHw.tdi # "trained" => feHw.tables = "none"]_comVars
<1> DEFINE Quiet(h) == /\ h.cal # feHw.cal => ~feHw.sessions /\ comHandle = None
                       /\ h.tdi = "trained" /\ feHw.tdi # "trained" => feHw.tables = "none"
<1>0. feHw \in ComHardware
  BY DEF ComInv, ComShape
<1>1. Quiet(feHw)
  OBVIOUS
<1>2. ASSUME NEW h \in KilledTool PROVE Quiet(h)
  BY ComToolIdle DEF KilledTool
<1>3. CASE InitStart \/ InitStep \/ InitContended \/ InitRecord \/ InitFinish
  <2>1. feHw' = feHw
    BY <1>3 DEF InitStart, InitStep, InitContended, InitRecord, InitFinish, ComLaunch
  <2> QED BY <1>1, <2>1
<1>4. CASE InitCut
  <2>1. feHw' = feHw \/ feHw' \in KilledTool
    BY <1>4 DEF InitCut
  <2> QED BY <1>1, <1>2, <2>1
<1>5. CASE ComWork
  <2>1. feHw' = feHw \/ (comTool # None /\ Passed(comTool.step) /\ feHw' \in {EffectOf(comTool.step).done} \cup EffectOf(comTool.step).spoilt)
    BY <1>5 DEF ComWork, Passed
  <2>2. Quiet(feHw')
    BY <1>1, <2>1, ComToolIdle
  <2> QED BY <2>2
<1>6. CASE Operator
  <2>1. feHw' = feHw \/ feHw' = ResetState
    BY <1>6 DEF Operator, VerifyFlu, ComLaunch, WarmIssue, FeReset
  <2>2. ResetState.tdi # "trained"
    BY DEF ResetState
  <2> QED BY <1>1, <2>1, <2>2
<1>7. CASE Sessions
  <2>1. feHw'.cal = feHw.cal /\ feHw'.tdi = feHw.tdi
    BY <1>0, <1>7 DEF Sessions, ComOpen, ComClose, ComCall, ComHardware
  <2> QED BY <2>1
<1>8. ASSUME NEW cold \in BOOLEAN, Reboot(cold)
      PROVE  /\ feHw'.cal # feHw.cal /\ feHw' # ResetState => ~feHw.sessions /\ comHandle = None
             /\ feHw'.tdi = "trained" /\ feHw.tdi # "trained" => feHw.tables = "none"
  <2>1. CASE cold
    BY <1>8, <2>1 DEF Reboot, ResetState
  <2>2. CASE ~cold
    <3>1. PICK h \in KilledTool : feHw' = [h EXCEPT !.err = TRUE]
      BY <1>8, <2>2 DEF Reboot
    <3>2. h \in ComHardware
      BY <1>0, <3>1, ComKilledShape
    <3>3. feHw'.cal = h.cal /\ feHw'.tdi = h.tdi
      BY <3>1, <3>2 DEF ComHardware
    <3> QED BY <1>2, <3>3
  <2> QED BY <2>1, <2>2
<1>9. CASE UNCHANGED comVars
  BY <1>9
<1> QED BY <1>3, <1>4, <1>5, <1>6, <1>7, <1>8, <1>9 DEF ComNext

\* Memory is trained only while it holds nothing: no sessions, for the TDI no
\* tables, and nobody has the device open.
THEOREM TrainingNotLive == ComSpec => NoLiveTraining
<1>1. ComInv /\ [ComNext]_comVars =>
        [/\ feHw'.cal # feHw.cal /\ feHw' # ResetState => ~feHw.sessions /\ comHandle = None
         /\ feHw'.tdi = "trained" /\ feHw.tdi # "trained" => feHw.tables = "none"]_comVars
  BY ComNoLiveStep
<1> QED BY <1>1, ComInvariance, PTL DEF ComSpec, NoLiveTraining

-----------------------------------------------------------------------------
\* ---- BdeDriver: the interrupt line of the switch ----

BdeHeldAt == {"xchg0", "xchg1", "enable", "disable", "armed", "leave", "dead"}
BdeFreeAt == {"closed", "user", "wait", "relock", "killed", "handle", "exited"}
BdeBetween == {"enable", "disable"}

\* Who is at what holds the mutex, and nobody is anywhere before the module is
\* loaded.
BdeShape ==
  /\ irq \in [masked : BOOLEAN, depth : 0 .. 1, moved : BOOLEAN]
  /\ isr \in {"idle", "disable", "inc"} /\ bdeLock \in BdeTask \cup {None}
  /\ off \in BOOLEAN /\ bdePending \in BOOLEAN
  /\ task \in [BdeTask -> BdeHeldAt \cup BdeFreeAt]
  /\ \A t \in BdeTask : task[t] \in BdeHeldAt => bdeLock = t
  /\ loaded.intr # None => loaded.up
  /\ ~loaded.up => bdeLock = None
  /\ loaded.intr = None => isr = "idle" /\ \A t \in BdeTask : task[t] \notin BdeBetween

\* The flag against the line: a command that has exchanged the flag has still to
\* move the line, and so has the handler; on one core they are never both
\* between the two.
BdeLine ==
  /\ \A t \in BdeTask : task[t] = "enable" => ~irq.masked /\ irq.depth = 1 /\ isr = "idle"
  /\ \A t \in BdeTask : task[t] = "disable" => irq.masked /\ irq.depth = 0 /\ isr # "disable"
  /\ isr = "disable" => irq.masked /\ irq.depth = 0
  /\ (\A t \in BdeTask : task[t] \notin BdeBetween) /\ isr # "disable" => (irq.masked <=> irq.depth = 1)

BdeInv == BdeShape /\ BdeLine /\ RouteReachesHandler

\* A task's step under the mutex, or one that does not need it, while the
\* handler rests.
LEMMA BdeTaskMoves ==
  ASSUME BdeInv, NEW t \in BdeTask, NEW at \in BdeHeldAt \cup BdeFreeAt, task' = [task EXCEPT ![t] = at],
         loaded.up, isr = "idle", UNCHANGED <<loaded, isr>>, off' \in BOOLEAN, bdePending' \in BOOLEAN,
         irq' \in [masked : BOOLEAN, depth : 0 .. 1, moved : BOOLEAN],
         \/ bdeLock' = bdeLock /\ at \in BdeFreeAt /\ task[t] \in BdeFreeAt /\ irq'.masked = irq.masked /\ irq'.depth = irq.depth
         \/ bdeLock \in {None, t} /\ bdeLock' = (IF at \in BdeHeldAt THEN t ELSE None)
            /\ (at \in BdeBetween => loaded.intr # None /\ irq'.masked = (at = "disable") /\ irq'.depth = (IF at = "enable" THEN 1 ELSE 0))
            /\ (at \notin BdeBetween => (irq'.masked <=> irq'.depth = 1))
  PROVE  BdeInv'
<1>0. /\ task \in [BdeTask -> BdeHeldAt \cup BdeFreeAt]
      /\ \A u \in BdeTask : task[u] \in BdeHeldAt => bdeLock = u
      /\ bdeLock \in BdeTask \cup {None}
      /\ loaded.intr = None => \A u \in BdeTask : task[u] \notin BdeBetween
  BY DEF BdeInv, BdeShape
<1>1. task' \in [BdeTask -> BdeHeldAt \cup BdeFreeAt] /\ task'[t] = at /\ \A u \in BdeTask : u # t => task'[u] = task[u]
  BY <1>0
<1>2. BdeBetween \subseteq BdeHeldAt /\ \A s : ~(s \in BdeHeldAt /\ s \in BdeFreeAt)
  BY DEF BdeBetween, BdeHeldAt, BdeFreeAt
<1>3. RouteReachesHandler'
  BY DEF BdeInv, RouteReachesHandler
<1>4. CASE bdeLock' = bdeLock /\ at \in BdeFreeAt /\ task[t] \in BdeFreeAt /\ irq'.masked = irq.masked /\ irq'.depth = irq.depth
  <2>1. \A u \in BdeTask : task'[u] \in BdeHeldAt => task[u] = task'[u] /\ bdeLock' = u
    BY <1>0, <1>1, <1>2, <1>4
  <2>2. BdeShape'
    BY <1>1, <1>2, <1>4, <2>1 DEF BdeInv, BdeShape
  <2>3. BdeLine'
    <3>1. \A u \in BdeTask : task'[u] \in BdeBetween <=> task[u] \in BdeBetween /\ task[u] = task'[u]
      BY <1>0, <1>1, <1>2, <1>4, <2>1
    <3>2. BdeLine /\ isr' = isr /\ (irq'.masked <=> irq.masked) /\ irq'.depth = irq.depth
      BY <1>4 DEF BdeInv
    <3>3. \A u \in BdeTask : task'[u] = "enable" => ~irq'.masked /\ irq'.depth = 1 /\ isr' = "idle"
      BY <3>1, <3>2 DEF BdeLine, BdeBetween
    <3>4. \A u \in BdeTask : task'[u] = "disable" => irq'.masked /\ irq'.depth = 0 /\ isr' # "disable"
      BY <3>1, <3>2 DEF BdeLine, BdeBetween
    <3>5. isr' = "disable" => irq'.masked /\ irq'.depth = 0
      BY <3>2 DEF BdeLine
    <3>6. (\A u \in BdeTask : task'[u] \notin BdeBetween) /\ isr' # "disable" => (irq'.masked <=> irq'.depth = 1)
      <4>1. ASSUME \A u \in BdeTask : task'[u] \notin BdeBetween PROVE \A u \in BdeTask : task[u] \notin BdeBetween
        BY <1>0, <1>1, <1>2, <1>4, <4>1
      <4> QED BY <3>2, <4>1 DEF BdeLine
    <3> QED BY <3>3, <3>4, <3>5, <3>6 DEF BdeLine
  <2> QED BY <1>3, <2>2, <2>3 DEF BdeInv
<1>5. CASE /\ bdeLock \in {None, t} /\ bdeLock' = (IF at \in BdeHeldAt THEN t ELSE None)
           /\ (at \in BdeBetween => loaded.intr # None /\ irq'.masked = (at = "disable") /\ irq'.depth = (IF at = "enable" THEN 1 ELSE 0))
           /\ (at \notin BdeBetween => (irq'.masked <=> irq'.depth = 1))
  <2>1. \A u \in BdeTask : u # t => task'[u] \notin BdeHeldAt
    BY <1>0, <1>1, <1>5, BdeNoneAssumption
  <2>2. BdeShape'
    BY <1>0, <1>1, <1>2, <1>5, <2>1 DEF BdeInv, BdeShape
  <2>3. BdeLine'
    <3>1. \A u \in BdeTask : task'[u] \in BdeBetween => u = t /\ task'[u] = at
      BY <1>1, <1>2, <2>1
    <3>2. CASE at \in BdeBetween
      BY <1>1, <1>5, <3>1, <3>2 DEF BdeLine, BdeBetween
    <3>3. CASE at \notin BdeBetween
      BY <1>1, <1>5, <3>1, <3>3 DEF BdeLine, BdeBetween
    <3> QED BY <3>2, <3>3
  <2> QED BY <1>3, <2>2, <2>3 DEF BdeInv
<1> QED BY <1>4, <1>5

\* The flag and the line at rest: nobody else is between the two while a task
\* may take or holds the mutex.
LEMMA BdeLineRests ==
  ASSUME BdeInv, NEW t \in BdeTask, bdeLock \in {None, t}, isr = "idle"
  PROVE  /\ task[t] \notin BdeBetween => (irq.masked <=> irq.depth = 1)
         /\ irq \in [masked : BOOLEAN, depth : 0 .. 1, moved : BOOLEAN]
         /\ task[t] = "enable" => ~irq.masked /\ irq.depth = 1
         /\ task[t] = "disable" => irq.masked /\ irq.depth = 0
<1>1. \A u \in BdeTask : u # t => task[u] \notin BdeBetween
  BY BdeNoneAssumption DEF BdeInv, BdeShape, BdeBetween, BdeHeldAt
<1> QED BY <1>1 DEF BdeInv, BdeShape, BdeLine

\* What the SDK's threads do in the driver.
LEMMA BdeTaskSteps ==
  ASSUME BdeInv, ~smp, NEW t \in BdeTask,
         OpenDev(t) \/ CloseDev(t) \/ Disable7(t) \/ OtherCmd(t) \/ Sdk(t) \/ Ioctl(t) \/ Signal(t)
  PROVE  BdeInv'
<1> USE DEF Kept
<1>0. off \in BOOLEAN /\ bdePending \in BOOLEAN /\ irq \in [masked : BOOLEAN, depth : 0 .. 1, moved : BOOLEAN]
  BY DEF BdeInv, BdeShape
<1>1. \A from, to : Goes(t, from, to) => loaded.up /\ isr = "idle" /\ task[t] = from /\ task' = [task EXCEPT ![t] = to]
  BY DEF Goes, Runs
<1>2. CASE OpenDev(t) \/ CloseDev(t) \/ Woken(t) \/ Signal(t) \/ Handle(t)
  <2>1. PICK at \in {"user", "closed", "relock", "killed"} : task' = [task EXCEPT ![t] = at]
    BY <1>1, <1>2 DEF OpenDev, CloseDev, Woken, Signal, Handle
  <2>2. /\ task[t] \in {"closed", "user", "wait", "handle"} /\ loaded.up /\ isr = "idle"
        /\ UNCHANGED <<loaded, isr, irq, bdeLock, off>> /\ bdePending' \in BOOLEAN
    BY <1>0, <1>1, <1>2 DEF OpenDev, CloseDev, Woken, Signal, Handle
  <2> QED BY <1>0, <2>1, <2>2, BdeTaskMoves DEF BdeFreeAt
<1>3. CASE Wait9(t) \/ Enable6(t) \/ Disable7(t) \/ OtherCmd(t)
  <2>1. /\ task[t] = "user" /\ loaded.up /\ isr = "idle" /\ UNCHANGED <<loaded, isr, bdePending>> /\ off' \in BOOLEAN
        /\ bdeLock = None /\ bdeLock' = t
    BY <1>0, <1>1, <1>3 DEF Wait9, Enable6, Disable7, OtherCmd
  <2>2. PICK at \in {"xchg0", "xchg1", "leave"} : task' = [task EXCEPT ![t] = at]
    BY <1>1, <1>3 DEF Wait9, Enable6, Disable7, OtherCmd
  <2>3. irq' = irq \/ irq' = [irq EXCEPT !.moved = FALSE]
    BY <1>3 DEF Wait9, Enable6, Disable7, OtherCmd
  <2>4. irq' \in [masked : BOOLEAN, depth : 0 .. 1, moved : BOOLEAN] /\ irq'.masked = irq.masked /\ irq'.depth = irq.depth
    BY <1>0, <2>3
  <2>5. at \in BdeHeldAt /\ at \notin BdeBetween /\ task[t] \notin BdeBetween
    BY <2>1 DEF BdeHeldAt, BdeBetween
  <2>6. irq'.masked <=> irq'.depth = 1
    BY <2>1, <2>4, <2>5, BdeLineRests
  <2> QED BY <1>0, <2>1, <2>2, <2>4, <2>5, <2>6, BdeTaskMoves
<1>4. CASE Rearm(t)
  <2> DEFINE at == IF loaded.intr # None /\ irq.masked THEN "enable" ELSE "armed"
  <2>1. /\ task[t] = "xchg0" /\ task' = [task EXCEPT ![t] = at] /\ loaded.up /\ isr = "idle" /\ bdeLock = t
        /\ UNCHANGED <<loaded, isr, bdePending, off, bdeLock>>
        /\ irq' = IF loaded.intr # None THEN [irq EXCEPT !.masked = FALSE] ELSE irq
    BY <1>1, <1>4 DEF Rearm
  <2>2. at \in BdeHeldAt /\ (at \in BdeBetween => at = "enable" /\ loaded.intr # None /\ irq.masked) /\ task[t] \notin BdeBetween
    BY <2>1 DEF BdeHeldAt, BdeBetween
  <2>3. irq.masked <=> irq.depth = 1
    BY <2>1, <2>2, BdeLineRests
  <2>4. irq' \in [masked : BOOLEAN, depth : 0 .. 1, moved : BOOLEAN]
        /\ (loaded.intr # None => ~irq'.masked) /\ irq'.depth = irq.depth /\ (loaded.intr = None => irq'.masked = irq.masked)
    BY <1>0, <2>1
  <2>5. at \in BdeBetween => ~irq'.masked /\ irq'.depth = 1
    BY <2>2, <2>3, <2>4
  <2>6. at \notin BdeBetween => (irq'.masked <=> irq'.depth = 1)
    BY <1>0, <2>3, <2>4 DEF BdeBetween
  <2>7. at = "enable" \/ at \notin BdeBetween
    BY <2>2
  <2> HIDE DEF at
  <2>8. irq'.masked \in BOOLEAN
    BY <2>4
  <2> QED BY <1>0, <2>1, <2>2, <2>4, <2>5, <2>6, <2>7, <2>8, BdeTaskMoves
<1>5. CASE Mask(t)
  <2> DEFINE at == IF loaded.intr # None /\ ~irq.masked THEN "disable" ELSE "leave"
  <2>1. /\ task[t] = "xchg1" /\ task' = [task EXCEPT ![t] = at] /\ loaded.up /\ isr = "idle" /\ bdeLock = t
        /\ UNCHANGED <<loaded, isr, bdePending, off, bdeLock>>
        /\ irq' = IF loaded.intr # None THEN [irq EXCEPT !.masked = TRUE] ELSE irq
    BY <1>1, <1>5 DEF Mask
  <2>2. at \in BdeHeldAt /\ (at \in BdeBetween => at = "disable" /\ loaded.intr # None /\ ~irq.masked) /\ task[t] \notin BdeBetween
    BY <2>1 DEF BdeHeldAt, BdeBetween
  <2>3. (irq.masked <=> irq.depth = 1) /\ irq.depth \in {0, 1}
    BY <1>0, <2>1, <2>2, BdeLineRests
  <2>4. irq' \in [masked : BOOLEAN, depth : 0 .. 1, moved : BOOLEAN]
        /\ (loaded.intr # None => irq'.masked) /\ irq'.depth = irq.depth /\ (loaded.intr = None => irq'.masked = irq.masked)
    BY <1>0, <2>1
  <2>5. at \in BdeBetween => irq'.masked /\ irq'.depth = 0
    BY <2>2, <2>3, <2>4
  <2>6. at \notin BdeBetween => (irq'.masked <=> irq'.depth = 1)
    BY <1>0, <2>3, <2>4 DEF BdeBetween
  <2>7. at = "disable" \/ at \notin BdeBetween
    BY <2>2
  <2> HIDE DEF at
  <2>8. irq'.masked \in BOOLEAN
    BY <2>4
  <2> QED BY <1>0, <2>1, <2>2, <2>4, <2>5, <2>6, <2>7, <2>8, BdeTaskMoves
<1>6. CASE EnableIrq(t) \/ DisableIrq(t)
  <2>1. PICK at \in {"armed", "leave"} : task' = [task EXCEPT ![t] = at]
    BY <1>1, <1>6 DEF EnableIrq, DisableIrq
  <2>2. /\ loaded.up /\ isr = "idle" /\ bdeLock = t /\ UNCHANGED <<loaded, isr, bdePending, off, bdeLock>>
        /\ \/ task[t] = "enable" /\ irq' = [irq EXCEPT !.depth = IF @ = 0 THEN 0 ELSE @ - 1]
           \/ task[t] = "disable" /\ irq' = [irq EXCEPT !.depth = @ + 1]
    BY <1>1, <1>6 DEF EnableIrq, DisableIrq
  <2>3. /\ task[t] = "enable" => ~irq.masked /\ irq.depth = 1
        /\ task[t] = "disable" => irq.masked /\ irq.depth = 0
    BY <2>2, BdeLineRests
  <2>4. irq' \in [masked : BOOLEAN, depth : 0 .. 1, moved : BOOLEAN] /\ (irq'.masked <=> irq'.depth = 1)
    BY <1>0, <2>2, <2>3
  <2>5. at \in BdeHeldAt /\ at \notin BdeBetween
    BY DEF BdeHeldAt, BdeBetween
  <2> QED BY <1>0, <2>1, <2>2, <2>4, <2>5, BdeTaskMoves
<1>7. CASE Armed(t) \/ Relock(t) \/ LeaveIoctl(t)
  <2>1. PICK at \in {"wait", "leave", "dead", "exited", "handle", "user"} :
          task' = [task EXCEPT ![t] = at] /\ bdeLock' = (IF at \in BdeHeldAt THEN t ELSE None)
    <3>1. CASE Armed(t)
      BY <1>1, <3>1 DEF Armed, BdeHeldAt
    <3>2. CASE Relock(t)
      BY <3>2 DEF Relock, BdeHeldAt
    <3>3. CASE LeaveIoctl(t)
      BY <3>3 DEF LeaveIoctl, BdeHeldAt
    <3> QED BY <1>7, <3>1, <3>2, <3>3
  <2>2. /\ loaded.up /\ isr = "idle" /\ bdeLock \in {None, t} /\ UNCHANGED <<loaded, isr, bdePending, off, irq>>
        /\ task[t] \in {"armed", "relock", "killed", "leave", "dead"}
    BY <1>1, <1>7 DEF Armed, Relock, LeaveIoctl, Runs
  <2>3. irq.masked <=> irq.depth = 1
    BY <2>2, BdeLineRests DEF BdeBetween
  <2>4. at \in BdeHeldAt \cup BdeFreeAt /\ at \notin BdeBetween
    BY DEF BdeHeldAt, BdeFreeAt, BdeBetween
  <2> QED BY <1>0, <2>1, <2>2, <2>3, <2>4, BdeTaskMoves
<1> QED BY <1>2, <1>3, <1>4, <1>5, <1>6, <1>7 DEF Sdk, Ioctl

\* What module init decides about the interrupt.
LEMMA BdeLoadDecides ==
  ASSUME NEW readback \in BOOLEAN, NEW msi \in BOOLEAN, NEW enabled \in BOOLEAN, NEW requested \in BOOLEAN, NEW legacy \in BOOLEAN,
         IrqSetup(Bridge(readback, msi), msi, enabled, requested, legacy)[2] = "intx"
  PROVE  IrqSetup(Bridge(readback, msi), msi, enabled, requested, legacy)[1].intx
<1> DEFINE bridge == Bridge(readback, msi)
<1>1. bridge \in [be : BOOLEAN, out : BOOLEAN, intx : BOOLEAN]
  BY DEF Bridge
<1>2. RouteIntx(bridge).intx
  BY <1>1 DEF RouteIntx
<1> HIDE DEF bridge
<1>3. CASE msi /\ enabled /\ requested
  <2>1. IrqSetup(bridge, msi, enabled, requested, legacy) = <<bridge, "msi">>
    BY <1>3 DEF IrqSetup
  <2> QED BY <2>1 DEF bridge
<1>4. CASE ~(msi /\ enabled /\ requested) /\ legacy
  <2>1. IrqSetup(bridge, msi, enabled, requested, legacy) = <<RouteIntx(bridge), "intx">>
    BY <1>4 DEF IrqSetup
  <2> QED BY <1>2, <2>1 DEF bridge
<1>5. CASE ~(msi /\ enabled /\ requested) /\ ~legacy
  <2>1. IrqSetup(bridge, msi, enabled, requested, legacy) = <<RouteIntx(bridge), None>>
    BY <1>5 DEF IrqSetup
  <2> QED BY <1>2, <2>1 DEF bridge
<1> QED BY <1>3, <1>4, <1>5

\* Loading, unloading, the chip and the handler.
LEMMA BdeOtherSteps ==
  ASSUME BdeInv, Load \/ Unload \/ Raise \/ Isr
  PROVE  BdeInv'
<1>0. /\ irq \in [masked : BOOLEAN, depth : 0 .. 1, moved : BOOLEAN] /\ bdePending \in BOOLEAN
      /\ task \in [BdeTask -> BdeHeldAt \cup BdeFreeAt]
  BY DEF BdeInv, BdeShape
<1>1. CASE Load
  <2>1. PICK readback \in BOOLEAN, msi \in BOOLEAN, enabled \in BOOLEAN, requested \in BOOLEAN, legacy \in BOOLEAN, p \in Pools :
          LET s == IrqSetup(Bridge(readback, msi), msi, enabled, requested, legacy)
          IN  loaded' = [up |-> TRUE, bridge |-> s[1], intr |-> s[2], pool |-> DmaSetup(p)]
    BY <1>1 DEF Load
  <2>2. RouteReachesHandler' /\ loaded'.up
    BY <2>1, BdeLoadDecides DEF RouteReachesHandler
  <2>3. /\ ~loaded.up /\ irq' = [masked |-> FALSE, depth |-> 0, moved |-> FALSE] /\ task' = [t \in BdeTask |-> "closed"]
        /\ UNCHANGED <<isr, bdeLock, off, bdePending>>
    BY <1>1 DEF Load
  <2>4. isr = "idle" /\ loaded.intr = None
    BY <2>3 DEF BdeInv, BdeShape
  <2>5. irq' \in [masked : BOOLEAN, depth : 0 .. 1, moved : BOOLEAN] /\ ~irq'.masked /\ irq'.depth = 0
    BY <2>3
  <2>6. task' \in [BdeTask -> BdeHeldAt \cup BdeFreeAt] /\ \A t \in BdeTask : task'[t] \notin BdeHeldAt /\ task'[t] \notin BdeBetween
    BY <2>3 DEF BdeHeldAt, BdeFreeAt, BdeBetween
  <2>7. BdeShape'
    BY <2>2, <2>3, <2>4, <2>5, <2>6 DEF BdeInv, BdeShape
  <2>8. BdeLine'
    BY <2>3, <2>4, <2>5, <2>6 DEF BdeLine, BdeBetween
  <2> QED BY <2>2, <2>7, <2>8 DEF BdeInv
<1>2. CASE Unload
  <2>1. /\ loaded' = Unloaded /\ bdeLock = None /\ isr = "idle" /\ irq' = [irq EXCEPT !.masked = FALSE, !.depth = 0]
        /\ \A t \in BdeTask : task[t] \in {"closed", "exited"}
        /\ UNCHANGED <<isr, bdeLock, task, off, bdePending>>
    BY <1>2 DEF Unload
  <2>2. loaded'.intr = None
    BY <2>1 DEF Unloaded
  <2>3. irq' \in [masked : BOOLEAN, depth : 0 .. 1, moved : BOOLEAN] /\ ~irq'.masked /\ irq'.depth = 0
    <3>1. 0 \in 0 .. 1 /\ FALSE \in BOOLEAN
      OBVIOUS
    <3>2. ASSUME NEW D, NEW zero \in D, irq \in [masked : BOOLEAN, depth : D, moved : BOOLEAN],
                 irq' = [irq EXCEPT !.masked = FALSE, !.depth = zero]
          PROVE  irq' \in [masked : BOOLEAN, depth : D, moved : BOOLEAN] /\ ~irq'.masked /\ irq'.depth = zero
      BY <3>2
    <3> QED BY <1>0, <2>1, <3>1, <3>2
  <2>4. \A t \in BdeTask : task'[t] \notin BdeBetween
    BY <2>1 DEF BdeBetween
  <2>5. BdeShape'
    BY <2>1, <2>2, <2>3, <2>4 DEF BdeInv, BdeShape
  <2>6. BdeLine'
    BY <2>1, <2>3, <2>4 DEF BdeLine, BdeBetween
  <2>7. RouteReachesHandler'
    BY <2>2, BdeNoneAssumption DEF RouteReachesHandler
  <2> QED BY <2>5, <2>6, <2>7 DEF BdeInv
<1>3. CASE Raise
  <2>1. bdePending' = TRUE /\ UNCHANGED <<loaded, irq, isr, bdeLock, task, off>>
    BY <1>3 DEF Raise
  <2> QED BY <2>1 DEF BdeInv, BdeShape, BdeLine, RouteReachesHandler
<1>4. CASE Isr
  <2>1. UNCHANGED <<loaded, bdeLock, task, off, bdePending>>
    BY <1>4 DEF Isr, IsrEnter, IsrDisable, IsrInc
  <2>2. BdeShape /\ BdeLine
    BY DEF BdeInv
  <2>3. /\ irq' \in [masked : BOOLEAN, depth : 0 .. 1, moved : BOOLEAN] /\ isr' \in {"idle", "disable", "inc"}
        /\ (isr' # "idle" => loaded.intr # None) /\ BdeLine'
    <3>1. CASE IsrEnter
      <4>1. loaded.intr # None /\ irq.depth = 0 /\ isr = "idle"
            /\ isr' = (IF irq.masked THEN "inc" ELSE "disable") /\ irq' = [irq EXCEPT !.masked = TRUE]
        BY <3>1 DEF IsrEnter
      <4>2. irq' \in [masked : BOOLEAN, depth : 0 .. 1, moved : BOOLEAN] /\ irq'.masked /\ irq'.depth = 0
        BY <1>0, <4>1
      <4>3. \A t \in BdeTask : task[t] # "enable"
        BY <2>2, <4>1 DEF BdeLine
      <4>4. isr' # "disable" => irq.masked
        BY <4>1
      <4>5. (\A t \in BdeTask : task[t] \notin BdeBetween) => ~irq.masked
        BY <2>2, <4>1 DEF BdeLine
      <4>6. \A t \in BdeTask : task[t] = "disable" => isr' # "disable"
        BY <2>2, <4>1 DEF BdeLine
      <4>7. BdeLine'
        BY <2>1, <4>2, <4>3, <4>4, <4>5, <4>6 DEF BdeLine
      <4> QED BY <4>1, <4>2, <4>7
    <3>2. CASE IsrDisable
      <4>1. isr = "disable" /\ isr' = "inc" /\ irq' = [irq EXCEPT !.depth = @ + 1]
        BY <3>2 DEF IsrDisable
      <4>2. irq.masked /\ irq.depth = 0 /\ loaded.intr # None /\ \A t \in BdeTask : task[t] \notin BdeBetween
        BY <2>2, <4>1 DEF BdeLine, BdeShape, BdeBetween
      <4>3. irq' \in [masked : BOOLEAN, depth : 0 .. 1, moved : BOOLEAN] /\ irq'.masked /\ irq'.depth = 1
        BY <1>0, <4>1, <4>2
      <4> QED BY <2>1, <4>1, <4>2, <4>3 DEF BdeLine, BdeBetween
    <3>3. CASE IsrInc
      <4>1. isr = "inc" /\ isr' = "idle" /\ irq' = [irq EXCEPT !.moved = TRUE]
        BY <3>3 DEF IsrInc
      <4>2. irq' \in [masked : BOOLEAN, depth : 0 .. 1, moved : BOOLEAN] /\ (irq'.masked <=> irq.masked) /\ irq'.depth = irq.depth
        BY <1>0, <4>1
      <4>3. \A t \in BdeTask : task[t] # "enable"
        BY <2>2, <4>1 DEF BdeLine
      <4> QED BY <2>1, <2>2, <4>1, <4>2, <4>3 DEF BdeLine
    <3> QED BY <1>4, <3>1, <3>2, <3>3 DEF Isr
  <2>4. BdeShape'
    BY <2>1, <2>2, <2>3 DEF BdeShape
  <2>5. RouteReachesHandler'
    BY <2>1 DEF BdeInv, RouteReachesHandler
  <2> QED BY <2>3, <2>4, <2>5 DEF BdeInv
<1> QED BY <1>1, <1>2, <1>3, <1>4

\* ---- the same line on any machine: a command may run while the handler does ----

One(b) == IF b THEN 1 ELSE 0
\* Who has exchanged the flag and has still to turn the line off, or on.
BdeOwes == One(isr = "disable") + One(\E t \in BdeTask : task[t] = "disable")
BdeDue == One(\E t \in BdeTask : task[t] = "enable")

\* The line is off at least as often as the flag says it is, once everybody has
\* done what he owes; an enable of a line that is on is lost and leaves more.
BdeAny ==
  /\ irq \in [masked : BOOLEAN, depth : Nat, moved : BOOLEAN]
  /\ isr \in {"idle", "disable", "inc"} /\ bdeLock \in BdeTask \cup {None}
  /\ smp \in BOOLEAN /\ off \in BOOLEAN /\ bdePending \in BOOLEAN
  /\ task \in [BdeTask -> BdeHeldAt \cup BdeFreeAt]
  /\ \A t \in BdeTask : task[t] \in BdeHeldAt => bdeLock = t
  /\ loaded.intr # None => loaded.up
  /\ loaded.intr = None => isr = "idle" /\ \A t \in BdeTask : task[t] \notin BdeBetween
  /\ irq.depth + BdeOwes >= BdeDue + One(irq.masked)
  /\ RouteReachesHandler

\* Nobody else is between the flag and the line while a task may take or holds
\* the mutex.
LEMMA BdeBooksOfOne ==
  ASSUME BdeAny, NEW t \in BdeTask, bdeLock \in {None, t}
  PROVE  /\ \A u \in BdeTask : u # t => task[u] \notin BdeHeldAt
         /\ irq.depth + One(isr = "disable") + One(task[t] = "disable") >= One(task[t] = "enable") + One(irq.masked)
<1>1. \A u \in BdeTask : u # t => task[u] \notin BdeHeldAt
  BY BdeNoneAssumption DEF BdeAny
<1>2. /\ (\E u \in BdeTask : task[u] = "disable") <=> task[t] = "disable"
      /\ (\E u \in BdeTask : task[u] = "enable") <=> task[t] = "enable"
  BY <1>1 DEF BdeHeldAt
<1>3. BdeOwes = One(isr = "disable") + One(task[t] = "disable") /\ BdeDue = One(task[t] = "enable")
  BY <1>2 DEF BdeOwes, BdeDue, One
<1>4. irq.depth + BdeOwes >= BdeDue + One(irq.masked) /\ irq.depth \in Nat
  BY DEF BdeAny
<1> QED BY <1>1, <1>3, <1>4 DEF One

\* A task's step under the mutex, or one that does not need it.
LEMMA BdeAnyMoves ==
  ASSUME BdeAny, NEW t \in BdeTask, NEW at \in BdeHeldAt \cup BdeFreeAt, task' = [task EXCEPT ![t] = at],
         UNCHANGED <<smp, loaded, isr>>, off' \in BOOLEAN, bdePending' \in BOOLEAN,
         irq' \in [masked : BOOLEAN, depth : Nat, moved : BOOLEAN],
         \/ bdeLock' = bdeLock /\ at \in BdeFreeAt /\ task[t] \in BdeFreeAt /\ irq'.masked = irq.masked /\ irq'.depth = irq.depth
         \/ /\ bdeLock \in {None, t} /\ bdeLock' = (IF at \in BdeHeldAt THEN t ELSE None)
            /\ at \in BdeBetween => loaded.intr # None
            /\ irq'.depth + One(isr = "disable") + One(at = "disable") >= One(at = "enable") + One(irq'.masked)
  PROVE  BdeAny'
<1>0. /\ task \in [BdeTask -> BdeHeldAt \cup BdeFreeAt] /\ bdeLock \in BdeTask \cup {None}
      /\ \A u \in BdeTask : task[u] \in BdeHeldAt => bdeLock = u
      /\ loaded.intr = None => isr = "idle" /\ \A u \in BdeTask : task[u] \notin BdeBetween
      /\ irq.depth + BdeOwes >= BdeDue + One(irq.masked)
  BY DEF BdeAny
<1>1. task' \in [BdeTask -> BdeHeldAt \cup BdeFreeAt] /\ task'[t] = at /\ \A u \in BdeTask : u # t => task'[u] = task[u]
  BY <1>0
<1>2. BdeBetween \subseteq BdeHeldAt /\ \A s : ~(s \in BdeHeldAt /\ s \in BdeFreeAt)
  BY DEF BdeBetween, BdeHeldAt, BdeFreeAt
<1>3. RouteReachesHandler'
  BY DEF BdeAny, RouteReachesHandler
<1>4. CASE bdeLock' = bdeLock /\ at \in BdeFreeAt /\ task[t] \in BdeFreeAt /\ irq'.masked = irq.masked /\ irq'.depth = irq.depth
  <2>1. \A s \in BdeHeldAt : (\E u \in BdeTask : task'[u] = s) <=> (\E u \in BdeTask : task[u] = s)
    BY <1>1, <1>2, <1>4
  <2>2. BdeOwes' = BdeOwes /\ BdeDue' = BdeDue
    <3>1. (\E u \in BdeTask : task'[u] = "disable") <=> (\E u \in BdeTask : task[u] = "disable")
      BY <2>1 DEF BdeHeldAt
    <3>2. (\E u \in BdeTask : task'[u] = "enable") <=> (\E u \in BdeTask : task[u] = "enable")
      BY <2>1 DEF BdeHeldAt
    <3> QED BY <3>1, <3>2 DEF BdeOwes, BdeDue, One
  <2>3. irq'.depth + BdeOwes' >= BdeDue' + One(irq'.masked)
    BY <1>0, <1>4, <2>2
  <2>4. \A u \in BdeTask : task'[u] \in BdeHeldAt => bdeLock' = u
    BY <1>0, <1>1, <1>2, <1>4
  <2>5. loaded'.intr = None => isr' = "idle" /\ \A u \in BdeTask : task'[u] \notin BdeBetween
    BY <1>0, <1>1, <1>2, <1>4
  <2> QED BY <1>1, <1>3, <1>4, <2>3, <2>4, <2>5 DEF BdeAny
<1>5. CASE /\ bdeLock \in {None, t} /\ bdeLock' = (IF at \in BdeHeldAt THEN t ELSE None)
           /\ at \in BdeBetween => loaded.intr # None
           /\ irq'.depth + One(isr = "disable") + One(at = "disable") >= One(at = "enable") + One(irq'.masked)
  <2>1. \A u \in BdeTask : u # t => task'[u] \notin BdeHeldAt
    BY <1>1, <1>5, BdeBooksOfOne
  <2>2. /\ (\E u \in BdeTask : task'[u] = "disable") <=> at = "disable"
        /\ (\E u \in BdeTask : task'[u] = "enable") <=> at = "enable"
    BY <1>1, <2>1 DEF BdeHeldAt
  <2>3. BdeOwes' = One(isr = "disable") + One(at = "disable") /\ BdeDue' = One(at = "enable")
    BY <2>2 DEF BdeOwes, BdeDue, One
  <2>4. irq'.depth + BdeOwes' >= BdeDue' + One(irq'.masked)
    BY <1>5, <2>3 DEF One
  <2>5. \A u \in BdeTask : task'[u] \in BdeHeldAt => bdeLock' = u
    BY <1>1, <1>5, <2>1
  <2>6. loaded'.intr = None => isr' = "idle" /\ \A u \in BdeTask : task'[u] \notin BdeBetween
    BY <1>0, <1>1, <1>2, <1>5, <2>1
  <2>7. bdeLock' \in BdeTask \cup {None}
    BY <1>5
  <2> QED BY <1>1, <1>3, <2>4, <2>5, <2>6, <2>7 DEF BdeAny
<1> QED BY <1>4, <1>5

LEMMA BdeAnyTaskSteps ==
  ASSUME BdeAny, NEW t \in BdeTask,
         OpenDev(t) \/ CloseDev(t) \/ Disable7(t) \/ OtherCmd(t) \/ Sdk(t) \/ Ioctl(t) \/ Signal(t)
  PROVE  BdeAny'
<1> USE DEF Kept
<1>0. /\ off \in BOOLEAN /\ bdePending \in BOOLEAN /\ irq \in [masked : BOOLEAN, depth : Nat, moved : BOOLEAN]
      /\ irq.depth \in Nat /\ irq.masked \in BOOLEAN
  BY DEF BdeAny
<1>1. \A from, to : Goes(t, from, to) => task[t] = from /\ task' = [task EXCEPT ![t] = to]
  BY DEF Goes
<1>2. CASE OpenDev(t) \/ CloseDev(t) \/ Woken(t) \/ Signal(t) \/ Handle(t)
  <2>1. PICK at \in {"user", "closed", "relock", "killed"} : task' = [task EXCEPT ![t] = at]
    BY <1>1, <1>2 DEF OpenDev, CloseDev, Woken, Signal, Handle
  <2>2. /\ task[t] \in {"closed", "user", "wait", "handle"}
        /\ UNCHANGED <<smp, loaded, isr, irq, bdeLock, off>> /\ bdePending' \in BOOLEAN
    BY <1>0, <1>1, <1>2 DEF OpenDev, CloseDev, Woken, Signal, Handle
  <2> QED BY <1>0, <2>1, <2>2, BdeAnyMoves DEF BdeFreeAt
<1>3. CASE Wait9(t) \/ Enable6(t) \/ Disable7(t) \/ OtherCmd(t)
  <2>1. /\ task[t] = "user" /\ UNCHANGED <<smp, loaded, isr, bdePending>> /\ off' \in BOOLEAN
        /\ bdeLock = None /\ bdeLock' = t
    BY <1>0, <1>1, <1>3 DEF Wait9, Enable6, Disable7, OtherCmd
  <2>2. PICK at \in {"xchg0", "xchg1", "leave"} : task' = [task EXCEPT ![t] = at]
    BY <1>1, <1>3 DEF Wait9, Enable6, Disable7, OtherCmd
  <2>3. irq' = irq \/ irq' = [irq EXCEPT !.moved = FALSE]
    BY <1>3 DEF Wait9, Enable6, Disable7, OtherCmd
  <2>4. irq' \in [masked : BOOLEAN, depth : Nat, moved : BOOLEAN] /\ irq'.masked = irq.masked /\ irq'.depth = irq.depth
    BY <1>0, <2>3
  <2>5. at \in BdeHeldAt /\ at \notin BdeBetween
    BY DEF BdeHeldAt, BdeBetween
  <2>6. irq.depth + One(isr = "disable") + One(task[t] = "disable") >= One(task[t] = "enable") + One(irq.masked)
    BY <2>1, BdeBooksOfOne
  <2>7. irq'.depth + One(isr = "disable") + One(at = "disable") >= One(at = "enable") + One(irq'.masked)
    BY <1>0, <2>1, <2>2, <2>4, <2>6 DEF One
  <2> QED BY <1>0, <2>1, <2>2, <2>4, <2>5, <2>7, BdeAnyMoves
<1>4. CASE Rearm(t) \/ Mask(t) \/ EnableIrq(t) \/ DisableIrq(t)
  <2>1. UNCHANGED <<smp, loaded, isr, bdePending, off, bdeLock>> /\ bdeLock = t
    BY <1>4 DEF Rearm, Mask, EnableIrq, DisableIrq
  <2>2. irq.depth + One(isr = "disable") + One(task[t] = "disable") >= One(task[t] = "enable") + One(irq.masked)
    BY <2>1, BdeBooksOfOne
  <2>3. ASSUME NEW at \in {"enable", "disable", "armed", "leave"}, task' = [task EXCEPT ![t] = at],
               at \in BdeBetween => loaded.intr # None,
               irq' \in [masked : BOOLEAN, depth : Nat, moved : BOOLEAN],
               irq'.depth + One(isr = "disable") + One(at = "disable") >= One(at = "enable") + One(irq'.masked)
        PROVE  BdeAny'
    <3>1. at \in BdeHeldAt
      BY <2>3 DEF BdeHeldAt
    <3> QED BY <1>0, <2>1, <2>3, <3>1, BdeAnyMoves
  <2>4. CASE Rearm(t)
    <3>1. /\ task[t] = "xchg0" /\ task' = [task EXCEPT ![t] = IF loaded.intr # None /\ irq.masked THEN "enable" ELSE "armed"]
          /\ irq' = IF loaded.intr # None THEN [irq EXCEPT !.masked = FALSE] ELSE irq
      BY <1>1, <2>4 DEF Rearm
    <3>2. irq.depth + One(isr = "disable") >= One(irq.masked)
      BY <1>0, <2>2, <3>1 DEF One
    <3>3. CASE loaded.intr # None /\ irq.masked
      <4>1. irq' \in [masked : BOOLEAN, depth : Nat, moved : BOOLEAN] /\ irq'.masked = FALSE /\ irq'.depth = irq.depth
        BY <1>0, <3>1, <3>3
      <4>2. irq'.depth + One(isr = "disable") + One("enable" = "disable") >= One("enable" = "enable") + One(irq'.masked)
        BY <1>0, <3>2, <3>3, <4>1 DEF One
      <4>3. task' = [task EXCEPT ![t] = "enable"]
        BY <3>1, <3>3
      <4> QED BY <2>3, <3>3, <4>1, <4>2, <4>3
    <3>4. CASE ~(loaded.intr # None /\ irq.masked)
      <4>1. irq' \in [masked : BOOLEAN, depth : Nat, moved : BOOLEAN] /\ irq'.masked = irq.masked /\ irq'.depth = irq.depth
        BY <1>0, <3>1, <3>4
      <4>2. irq'.depth + One(isr = "disable") + One("armed" = "disable") >= One("armed" = "enable") + One(irq'.masked)
        BY <1>0, <3>2, <4>1 DEF One
      <4>3. task' = [task EXCEPT ![t] = "armed"] /\ "armed" \notin BdeBetween
        BY <3>1, <3>4 DEF BdeBetween
      <4> QED BY <2>3, <4>1, <4>2, <4>3
    <3> QED BY <3>3, <3>4
  <2>5. CASE Mask(t)
    <3>1. /\ task[t] = "xchg1" /\ task' = [task EXCEPT ![t] = IF loaded.intr # None /\ ~irq.masked THEN "disable" ELSE "leave"]
          /\ irq' = IF loaded.intr # None THEN [irq EXCEPT !.masked = TRUE] ELSE irq
      BY <1>1, <2>5 DEF Mask
    <3>2. irq.depth + One(isr = "disable") >= One(irq.masked)
      BY <1>0, <2>2, <3>1 DEF One
    <3>3. CASE loaded.intr # None /\ ~irq.masked
      <4>1. irq' \in [masked : BOOLEAN, depth : Nat, moved : BOOLEAN] /\ irq'.masked = TRUE /\ irq'.depth = irq.depth
        BY <1>0, <3>1, <3>3
      <4>2. irq'.depth + One(isr = "disable") + One("disable" = "disable") >= One("disable" = "enable") + One(irq'.masked)
        BY <1>0, <3>2, <3>3, <4>1 DEF One
      <4>3. task' = [task EXCEPT ![t] = "disable"]
        BY <3>1, <3>3
      <4> QED BY <2>3, <3>3, <4>1, <4>2, <4>3
    <3>4. CASE ~(loaded.intr # None /\ ~irq.masked)
      <4>1. irq' \in [masked : BOOLEAN, depth : Nat, moved : BOOLEAN] /\ irq'.masked = irq.masked /\ irq'.depth = irq.depth
        BY <1>0, <3>1, <3>4
      <4>2. irq'.depth + One(isr = "disable") + One("leave" = "disable") >= One("leave" = "enable") + One(irq'.masked)
        BY <1>0, <3>2, <4>1 DEF One
      <4>3. task' = [task EXCEPT ![t] = "leave"] /\ "leave" \notin BdeBetween
        BY <3>1, <3>4 DEF BdeBetween
      <4> QED BY <2>3, <4>1, <4>2, <4>3
    <3> QED BY <3>3, <3>4
  <2>6. CASE EnableIrq(t)
    <3>1. /\ task[t] = "enable" /\ task' = [task EXCEPT ![t] = "armed"]
          /\ irq' = [irq EXCEPT !.depth = IF @ = 0 THEN 0 ELSE @ - 1]
      BY <1>1, <2>6 DEF EnableIrq
    <3>2. irq' \in [masked : BOOLEAN, depth : Nat, moved : BOOLEAN] /\ irq'.masked = irq.masked
          /\ irq'.depth = IF irq.depth = 0 THEN 0 ELSE irq.depth - 1
      BY <1>0, <3>1
    <3>3. irq'.depth + One(isr = "disable") + One("armed" = "disable") >= One("armed" = "enable") + One(irq'.masked)
      BY <1>0, <2>2, <3>1, <3>2 DEF One
    <3> QED BY <2>3, <3>1, <3>2, <3>3 DEF BdeBetween
  <2>7. CASE DisableIrq(t)
    <3>1. task[t] = "disable" /\ task' = [task EXCEPT ![t] = "leave"] /\ irq' = [irq EXCEPT !.depth = @ + 1]
      BY <1>1, <2>7 DEF DisableIrq
    <3>2. irq' \in [masked : BOOLEAN, depth : Nat, moved : BOOLEAN] /\ irq'.masked = irq.masked /\ irq'.depth = irq.depth + 1
      BY <1>0, <3>1
    <3>3. irq'.depth + One(isr = "disable") + One("leave" = "disable") >= One("leave" = "enable") + One(irq'.masked)
      BY <1>0, <2>2, <3>1, <3>2 DEF One
    <3> QED BY <2>3, <3>1, <3>2, <3>3 DEF BdeBetween
  <2> QED BY <1>4, <2>4, <2>5, <2>6, <2>7
<1>5. CASE Armed(t) \/ Relock(t) \/ LeaveIoctl(t)
  <2>1. PICK at \in {"wait", "leave", "dead", "exited", "handle", "user"} :
          task' = [task EXCEPT ![t] = at] /\ bdeLock' = (IF at \in BdeHeldAt THEN t ELSE None)
    <3>1. CASE Armed(t)
      BY <1>1, <3>1 DEF Armed, BdeHeldAt
    <3>2. CASE Relock(t)
      BY <3>2 DEF Relock, BdeHeldAt
    <3>3. CASE LeaveIoctl(t)
      BY <3>3 DEF LeaveIoctl, BdeHeldAt
    <3> QED BY <1>5, <3>1, <3>2, <3>3
  <2>2. /\ bdeLock \in {None, t} /\ UNCHANGED <<smp, loaded, isr, bdePending, off, irq>>
        /\ task[t] \in {"armed", "relock", "killed", "leave", "dead"}
    BY <1>1, <1>5 DEF Armed, Relock, LeaveIoctl
  <2>3. irq.depth + One(isr = "disable") + One(task[t] = "disable") >= One(task[t] = "enable") + One(irq.masked)
    BY <2>2, BdeBooksOfOne
  <2>4. irq'.depth + One(isr = "disable") + One(at = "disable") >= One(at = "enable") + One(irq'.masked)
    BY <1>0, <2>1, <2>2, <2>3 DEF One
  <2>5. at \in BdeHeldAt \cup BdeFreeAt /\ at \notin BdeBetween
    BY DEF BdeHeldAt, BdeFreeAt, BdeBetween
  <2> QED BY <1>0, <2>1, <2>2, <2>4, <2>5, BdeAnyMoves
<1> QED BY <1>2, <1>3, <1>4, <1>5 DEF Sdk, Ioctl

LEMMA BdeAnyOtherSteps ==
  ASSUME BdeAny, Load \/ Unload \/ Raise \/ Isr
  PROVE  BdeAny'
<1>0. /\ irq \in [masked : BOOLEAN, depth : Nat, moved : BOOLEAN] /\ bdePending \in BOOLEAN
      /\ irq.depth \in Nat /\ irq.masked \in BOOLEAN
      /\ irq.depth + BdeOwes >= BdeDue + One(irq.masked) /\ smp \in BOOLEAN /\ smp' = smp
  BY DEF BdeAny, Load, Unload, Raise, Isr, IsrEnter, IsrDisable, IsrInc
<1>1. ASSUME irq'.depth = 0, irq'.masked = FALSE, isr' = "idle", \A t \in BdeTask : task'[t] \notin BdeBetween
      PROVE  irq'.depth + BdeOwes' >= BdeDue' + One(irq'.masked)
  <2>1. BdeOwes' = 0 /\ BdeDue' = 0
    BY <1>1 DEF BdeOwes, BdeDue, One, BdeBetween
  <2> QED BY <1>1, <2>1 DEF One
<1>2. CASE Load
  <2>1. PICK readback \in BOOLEAN, msi \in BOOLEAN, enabled \in BOOLEAN, requested \in BOOLEAN, legacy \in BOOLEAN, p \in Pools :
          LET s == IrqSetup(Bridge(readback, msi), msi, enabled, requested, legacy)
          IN  loaded' = [up |-> TRUE, bridge |-> s[1], intr |-> s[2], pool |-> DmaSetup(p)]
    BY <1>2 DEF Load
  <2>2. RouteReachesHandler' /\ loaded'.up
    BY <2>1, BdeLoadDecides DEF RouteReachesHandler
  <2>3. /\ ~loaded.up /\ irq' = [masked |-> FALSE, depth |-> 0, moved |-> FALSE] /\ task' = [t \in BdeTask |-> "closed"]
        /\ UNCHANGED <<isr, bdeLock, off, bdePending>>
    BY <1>2 DEF Load
  <2>4. isr = "idle"
    BY <2>3 DEF BdeAny
  <2>5. irq' \in [masked : BOOLEAN, depth : Nat, moved : BOOLEAN] /\ irq'.masked = FALSE /\ irq'.depth = 0
    BY <2>3
  <2>6. task' \in [BdeTask -> BdeHeldAt \cup BdeFreeAt] /\ \A t \in BdeTask : task'[t] \notin BdeHeldAt /\ task'[t] \notin BdeBetween
    BY <2>3 DEF BdeHeldAt, BdeFreeAt, BdeBetween
  <2>7. irq'.depth + BdeOwes' >= BdeDue' + One(irq'.masked)
    BY <1>1, <2>3, <2>4, <2>5, <2>6
  <2> QED BY <1>0, <2>2, <2>3, <2>4, <2>5, <2>6, <2>7 DEF BdeAny
<1>3. CASE Unload
  <2>1. /\ loaded' = Unloaded /\ bdeLock = None /\ isr = "idle" /\ irq' = [irq EXCEPT !.masked = FALSE, !.depth = 0]
        /\ \A t \in BdeTask : task[t] \in {"closed", "exited"}
        /\ UNCHANGED <<isr, bdeLock, task, off, bdePending>>
    BY <1>3 DEF Unload
  <2>2. loaded'.intr = None /\ RouteReachesHandler'
    BY <2>1, BdeNoneAssumption DEF Unloaded, RouteReachesHandler
  <2>3. irq' \in [masked : BOOLEAN, depth : Nat, moved : BOOLEAN] /\ irq'.masked = FALSE /\ irq'.depth = 0
    BY <1>0, <2>1
  <2>4. \A t \in BdeTask : task'[t] \notin BdeBetween
    BY <2>1 DEF BdeBetween
  <2>5. irq'.depth + BdeOwes' >= BdeDue' + One(irq'.masked)
    BY <1>1, <2>1, <2>3, <2>4
  <2> QED BY <1>0, <2>1, <2>2, <2>3, <2>4, <2>5 DEF BdeAny
<1>4. CASE Raise
  <2>1. bdePending' = TRUE /\ UNCHANGED <<loaded, irq, isr, bdeLock, task, off>>
    BY <1>4 DEF Raise
  <2> QED BY <1>0, <2>1 DEF BdeAny, RouteReachesHandler, BdeOwes, BdeDue
<1>5. CASE Isr
  <2>1. UNCHANGED <<loaded, bdeLock, task, off, bdePending>>
    BY <1>5 DEF Isr, IsrEnter, IsrDisable, IsrInc
  <2>2. BdeDue' = BdeDue /\ RouteReachesHandler' /\ BdeDue \in Nat
    BY <2>1 DEF BdeAny, BdeDue, RouteReachesHandler, One
  <2>3. PICK n \in {0, 1} : BdeOwes = One(isr = "disable") + n /\ BdeOwes' = One(isr' = "disable") + n
    <3>1. (\E t \in BdeTask : task'[t] = "disable") <=> (\E t \in BdeTask : task[t] = "disable")
      BY <2>1
    <3> QED BY <3>1 DEF BdeOwes, One
  <2>4. /\ irq' \in [masked : BOOLEAN, depth : Nat, moved : BOOLEAN] /\ isr' \in {"idle", "disable", "inc"}
        /\ (isr' # "idle" => loaded.intr # None)
        /\ irq'.depth + BdeOwes' >= BdeDue + One(irq'.masked)
    <3>1. CASE IsrEnter
      <4>1. loaded.intr # None /\ isr = "idle"
            /\ isr' = (IF irq.masked THEN "inc" ELSE "disable") /\ irq' = [irq EXCEPT !.masked = TRUE]
        BY <3>1 DEF IsrEnter
      <4>2. irq' \in [masked : BOOLEAN, depth : Nat, moved : BOOLEAN] /\ irq'.masked = TRUE /\ irq'.depth = irq.depth
        BY <1>0, <4>1
      <4> QED BY <1>0, <2>2, <2>3, <4>1, <4>2 DEF One
    <3>2. CASE IsrDisable
      <4>1. isr = "disable" /\ isr' = "inc" /\ irq' = [irq EXCEPT !.depth = @ + 1]
        BY <3>2 DEF IsrDisable
      <4>2. irq' \in [masked : BOOLEAN, depth : Nat, moved : BOOLEAN] /\ irq'.masked = irq.masked /\ irq'.depth = irq.depth + 1
        BY <1>0, <4>1
      <4>3. loaded.intr # None
        BY <4>1 DEF BdeAny
      <4> QED BY <1>0, <2>2, <2>3, <4>1, <4>2, <4>3 DEF One
    <3>3. CASE IsrInc
      <4>1. isr = "inc" /\ isr' = "idle" /\ irq' = [irq EXCEPT !.moved = TRUE]
        BY <3>3 DEF IsrInc
      <4>2. irq' \in [masked : BOOLEAN, depth : Nat, moved : BOOLEAN] /\ irq'.masked = irq.masked /\ irq'.depth = irq.depth
        BY <1>0, <4>1
      <4> QED BY <1>0, <2>2, <2>3, <4>1, <4>2 DEF One
    <3> QED BY <1>5, <3>1, <3>2, <3>3 DEF Isr
  <2> QED BY <1>0, <2>1, <2>2, <2>4 DEF BdeAny
<1> QED BY <1>2, <1>3, <1>4, <1>5

\* On a machine of any size, loaded with any pool and options: when nobody is
\* between irq_masked and the line, a set flag means the line is off; with one
\* core it means exactly one disable, and a clear one none; and the chip raises
\* its interrupt where the handler listens (ffn_bde_isr, ffn_bde_irq_rearm,
\* ffn_bde_irq_mask, ffn_bde_irq_setup).
THEOREM BdeLineSafe == BdeSpec => []BdeSafe
<1>1. BdeInit => BdeAny /\ (~smp => BdeInv)
  <2> SUFFICES ASSUME BdeInit PROVE BdeAny /\ BdeInv
    OBVIOUS
  <2>1. loaded.intr = None /\ ~loaded.up
    BY DEF BdeInit, Unloaded
  <2>2. \A t \in BdeTask : task[t] \notin BdeBetween /\ task[t] \notin BdeHeldAt
    BY DEF BdeInit, BdeBetween, BdeHeldAt
  <2>3. task \in [BdeTask -> BdeHeldAt \cup BdeFreeAt]
    BY DEF BdeInit, BdeFreeAt
  <2>4. RouteReachesHandler
    BY <2>1, BdeNoneAssumption DEF RouteReachesHandler
  <2>5. BdeShape
    <3>1. irq \in [masked : BOOLEAN, depth : 0 .. 1, moved : BOOLEAN]
      BY DEF BdeInit
    <3> QED BY <2>1, <2>2, <2>3, <3>1 DEF BdeInit, BdeShape
  <2>6. BdeLine
    BY <2>2 DEF BdeInit, BdeLine, BdeBetween
  <2>7. irq.depth + BdeOwes >= BdeDue + One(irq.masked)
    BY <2>2 DEF BdeInit, BdeOwes, BdeDue, One, BdeBetween
  <2>8. irq \in [masked : BOOLEAN, depth : Nat, moved : BOOLEAN]
    BY DEF BdeInit
  <2>9. BdeAny
    BY <2>1, <2>2, <2>3, <2>4, <2>7, <2>8 DEF BdeInit, BdeAny
  <2> QED BY <2>4, <2>5, <2>6, <2>9 DEF BdeInv
<1>2. BdeAny /\ [BdeNext]_bdeVars => BdeAny'
  <2>1. CASE UNCHANGED bdeVars
    BY <2>1 DEF bdeVars, BdeAny, RouteReachesHandler, BdeOwes, BdeDue
  <2> QED BY <2>1, BdeAnyTaskSteps, BdeAnyOtherSteps DEF BdeNext
<1>3. (~smp => BdeInv) /\ [BdeNext]_bdeVars => (~smp => BdeInv)'
  <2>1. [BdeNext]_bdeVars => smp' = smp
    BY DEF BdeNext, bdeVars, Load, Unload, Raise, Isr, IsrEnter, IsrDisable, IsrInc, Sdk, Ioctl, Kept, OpenDev, CloseDev,
           Disable7, OtherCmd, Wait9, Enable6, Handle, Rearm, Mask, EnableIrq, DisableIrq, Armed, Woken, Relock, LeaveIoctl, Signal
  <2>2. CASE UNCHANGED bdeVars
    BY <2>2 DEF bdeVars, BdeInv, BdeShape, BdeLine, RouteReachesHandler
  <2> QED BY <2>1, <2>2, BdeTaskSteps, BdeOtherSteps DEF BdeNext
<1>4. BdeAny /\ (~smp => BdeInv) => BdeSafe
  <2> SUFFICES ASSUME BdeAny, ~smp => BdeInv PROVE BdeSafe
    OBVIOUS
  <2>1. BdeTypeOK
    BY DEF BdeAny, BdeTypeOK
  <2>2. ~smp => MaskBalanced
    BY DEF BdeInv, BdeShape, BdeLine, BdeBetween, MaskBalanced, BdeQuiet
  <2>3. MaskHolds
    <3> SUFFICES ASSUME BdeQuiet, irq.masked PROVE irq.depth > 0
      BY DEF MaskHolds
    <3>1. BdeOwes = 0 /\ BdeDue = 0
      BY DEF BdeQuiet, BdeOwes, BdeDue, One
    <3> QED BY <3>1 DEF BdeAny, One
  <2> QED BY <2>1, <2>2, <2>3 DEF BdeAny, BdeSafe
<1> QED BY <1>1, <1>2, <1>3, <1>4, PTL DEF BdeSpec

-----------------------------------------------------------------------------
\* ---- the cages of the faceplate ----

\* What is left of the script of request r ends in the readback, and touches
\* what r asks for.
SfpStepNames == {"link", "off", "mac", "on", "read"}
SfpScript(s, r) ==
  /\ s \in Seq(SfpStepNames) /\ s # <<>> /\ s[Len(s)] = "read"
  /\ \A i \in 1 .. Len(s) : (s[i] = "mac" => r.enabled \in BOOLEAN) /\ (s[i] = "link" => r.speed # None)

LEMMA SfpScriptEnds ==
  ASSUME NEW s, NEW r, SfpScript(s, r), Head(s) # "read"
  PROVE  SfpScript(Tail(s), r)
PROOF
<1>1. s \in Seq(SfpStepNames) /\ s # <<>> /\ Len(s) \in Nat /\ Len(s) # 0 /\ Head(s) = s[1]
  BY DEF SfpScript
<1>2. Len(s) # 1
  BY <1>1 DEF SfpScript
<1>3. /\ Tail(s) \in Seq(SfpStepNames) /\ Len(Tail(s)) = Len(s) - 1
      /\ \A i \in 1 .. Len(s) - 1 : Tail(s)[i] = s[i + 1]
  BY <1>1
<1>4. \A i \in 1 .. Len(s) - 1 : i + 1 \in 1 .. Len(s)
  BY <1>1
<1>5. Tail(s) # <<>> /\ Tail(s)[Len(Tail(s))] = "read"
  <2>1. Len(s) - 1 \in 1 .. Len(s) - 1 /\ (Len(s) - 1) + 1 = Len(s) /\ s[Len(s)] = "read"
    BY <1>1, <1>2 DEF SfpScript
  <2>2. Tail(s)[Len(s) - 1] = "read"
    BY <1>3, <2>1
  <2>3. Tail(s)[Len(Tail(s))] = "read"
    BY <1>3, <2>2
  <2>4. Len(Tail(s)) # 0
    BY <1>1, <1>2, <1>3
  <2>5. Tail(s) # <<>>
    BY <2>4
  <2> QED
    BY <2>3, <2>5
<1>6. \A i \in 1 .. Len(Tail(s)) : (Tail(s)[i] = "mac" => r.enabled \in BOOLEAN) /\ (Tail(s)[i] = "link" => r.speed # None)
  BY <1>1, <1>3, <1>4 DEF SfpScript
<1> QED
  BY <1>3, <1>5, <1>6 DEF SfpScript

LEMMA SfpScripts == ASSUME NEW r \in SfpAsked PROVE SfpScript(FaceSteps(r), r)
PROOF
<1> USE SfpNoneAssumption
<1> DEFINE a == IF r.speed = None THEN <<>> ELSE <<"link">>
           b == CASE r.enabled = FALSE -> <<"off", "mac">> [] r.enabled = TRUE -> <<"mac", "on">> [] OTHER -> <<>>
           s == a \o b
           Ok(x) == (x = "mac" => r.enabled \in BOOLEAN) /\ (x = "link" => r.speed # None)
<1>1. a \in Seq(SfpStepNames) /\ \A i \in 1 .. Len(a) : a[i] = "link" /\ r.speed # None
  <2>1. CASE r.speed = None
    <3>1. a = <<>>
      BY <2>1
    <3> QED
      BY <3>1
  <2>2. CASE r.speed # None
    <3>1. a = <<"link">> /\ "link" \in SfpStepNames
      BY <2>2 DEF SfpStepNames
    <3>2. a \in Seq(SfpStepNames) /\ Len(a) = 1 /\ a[1] = "link"
      BY <3>1
    <3> QED
      BY <2>2, <3>2
  <2> QED
    BY <2>1, <2>2
<1>2. b \in Seq(SfpStepNames) /\ \A i \in 1 .. Len(b) : b[i] # "link" /\ r.enabled \in BOOLEAN
  <2>1. CASE r.enabled = FALSE
    <3>1. b = <<"off", "mac">> /\ "off" \in SfpStepNames /\ "mac" \in SfpStepNames
      BY <2>1 DEF SfpStepNames
    <3>2. b \in Seq(SfpStepNames) /\ Len(b) = 2 /\ b[1] = "off" /\ b[2] = "mac"
      BY <3>1
    <3>3. \A i \in 1 .. 2 : i = 1 \/ i = 2
      OBVIOUS
    <3> QED
      BY <2>1, <3>2, <3>3
  <2>2. CASE r.enabled = TRUE
    <3>1. b = <<"mac", "on">> /\ "mac" \in SfpStepNames /\ "on" \in SfpStepNames
      BY <2>2 DEF SfpStepNames
    <3>2. b \in Seq(SfpStepNames) /\ Len(b) = 2 /\ b[1] = "mac" /\ b[2] = "on"
      BY <3>1
    <3>3. \A i \in 1 .. 2 : i = 1 \/ i = 2
      OBVIOUS
    <3> QED
      BY <2>2, <3>2, <3>3
  <2>3. CASE r.enabled \notin BOOLEAN
    <3>1. b = <<>>
      BY <2>3
    <3> QED
      BY <3>1
  <2> QED
    BY <2>1, <2>2, <2>3
<1> HIDE DEF a, b
<1>3. s \in Seq(SfpStepNames) /\ \A i \in 1 .. Len(s) : Ok(s[i])
  <2>1. s \in Seq(SfpStepNames) /\ Len(s) = Len(a) + Len(b)
        /\ \A i \in 1 .. Len(s) : s[i] = IF i <= Len(a) THEN a[i] ELSE b[i - Len(a)]
    BY <1>1, <1>2, ConcatProperties
  <2>2. Len(a) \in Nat /\ Len(b) \in Nat
    BY <1>1, <1>2
  <2>3. ASSUME NEW i \in 1 .. Len(s) PROVE Ok(s[i])
    <3>1. CASE i <= Len(a)
      BY <1>1, <2>1, <2>2, <3>1
    <3>2. CASE ~(i <= Len(a))
      <4>1. i - Len(a) \in 1 .. Len(b)
        BY <2>1, <2>2, <3>2
      <4> QED
        BY <1>2, <2>1, <3>2, <4>1
    <3> QED
      BY <3>1, <3>2
  <2> QED
    BY <2>1, <2>3
<1> HIDE DEF s
<1>4. FaceSteps(r) = s \o <<"read">>
  BY DEF FaceSteps, s, a, b
<1>5. /\ s \o <<"read">> \in Seq(SfpStepNames) /\ Len(s \o <<"read">>) = Len(s) + 1
      /\ \A i \in 1 .. Len(s) + 1 : (s \o <<"read">>)[i] = IF i <= Len(s) THEN s[i] ELSE "read"
  BY <1>3 DEF SfpStepNames
<1>6. Len(s) \in Nat
  BY <1>3
<1>7. (s \o <<"read">>)[Len(s) + 1] = "read" /\ s \o <<"read">> # <<>>
  BY <1>5, <1>6
<1>8. \A i \in 1 .. Len(s) + 1 : Ok((s \o <<"read">>)[i])
  BY <1>3, <1>5, <1>6
<1> QED
  BY <1>4, <1>5, <1>6, <1>7, <1>8 DEF SfpScript

\* The processes, and what they know of the journal and of the group.
SfpPins == [latch : BOOLEAN, driven : BOOLEAN]
SfpPort == [mac : BOOLEAN, iface : {"gmii", "xfi"}, an : BOOLEAN, rate : {"1000", "10000"}]
SfpJournal == [enabled : BOOLEAN \cup {None}, speed : SfpSpeeds, pending : SfpAsked \cup {None}]
SfpWatchers == [at : {"idle", "tail", "relink", "program", "remedy", "verify"}, seen : BOOLEAN \cup {None}, now : BOOLEAN,
                pend : 0 .. SfpDeadline, quiet : BOOLEAN, due : BOOLEAN, back : {"idle", "tail"}]
SfpBudgets == [swap : Nat, fault : Nat]
SfpShape ==
  /\ cage \in SfpModules \cup {None} /\ modCache \in Classifiable \cup {None}
  /\ pins \in SfpPins /\ swPort \in SfpPort /\ face \in SfpJournal
  /\ faceOp \in [at : Seq(SfpStepNames \cup {"check"}), todo : Seq(SfpAsked)]
  /\ faceLock \in {None, "face", "watch"} /\ sfpWatch \in SfpWatchers /\ inGroup \in BOOLEAN /\ sfpBudget \in SfpBudgets
\* Past its check, an operation is the pending one, and nobody claims the port.
SfpFace ==
  /\ faceLock = "face" <=> faceOp # NoFaceOp
  /\ faceOp # NoFaceOp =>
       /\ faceOp.todo # <<>>
       /\ faceOp.at = <<"check">> \/ (SfpScript(faceOp.at, FaceReq) /\ face.pending = FaceReq /\ ~inGroup)
SfpWatches ==
  /\ faceLock = "watch" <=> sfpWatch.at = "program"
  /\ sfpWatch.at = "program" => face.pending = None /\ ~inGroup
SfpInv == SfpShape /\ SfpFace /\ SfpWatches

\* ---- what the helpers do ----

LEMMA SfpFaults == ASSUME SfpShape, SfpFault \/ SfpNoFault PROVE sfpBudget' \in SfpBudgets
  BY DEF SfpShape, SfpFault, SfpNoFault, SfpBudgets

LEMMA SfpSees == ASSUME SfpShape PROVE SeenModule \in Classifiable \cup {None}
  BY DEF SfpShape, SeenModule

LEMMA SfpTransmits ==
  ASSUME SfpShape, NEW on \in BOOLEAN, NEW ok \in BOOLEAN, SetTx(on, ok)
  PROVE  pins' \in SfpPins /\ sfpBudget' \in SfpBudgets
PROOF
<1>1. pins \in SfpPins /\ [latch |-> ~on, driven |-> TRUE] \in SfpPins /\ [pins EXCEPT !.latch = ~on] \in SfpPins
  BY DEF SfpShape, SfpPins
<1> QED
  BY <1>1, SfpFaults DEF SetTx

LEMMA SfpConfigured == ASSUME NEW p \in SfpPort PROVE ConfiguredSpeed(p) \in {"auto", "1000", "10000"}
  BY DEF SfpPort, ConfiguredSpeed

LEMMA SfpRecipes ==
  ASSUME SfpShape, NEW rate \in {"1000", "10000"}, NEW ok \in BOOLEAN, Recipe(rate, ok)
  PROVE  swPort' \in SfpPort /\ sfpBudget' \in SfpBudgets
PROOF
<1>1. swPort \in SfpPort /\ Iface(rate) \in {"gmii", "xfi"}
  BY DEF SfpShape, Iface
<1>2. RecipeTarget(swPort, rate) \in SfpPort
  BY <1>1 DEF RecipeTarget, SfpPort
<1>3. [swPort EXCEPT !.mac = FALSE, !.an = FALSE] \in SfpPort
  BY <1>1 DEF SfpPort
<1>4. [swPort EXCEPT !.mac = FALSE, !.an = FALSE, !.iface = Iface(rate)] \in SfpPort
  BY <1>1 DEF SfpPort
<1> QED
  BY <1>1, <1>2, <1>3, <1>4, SfpFaults DEF Recipe

LEMMA SfpGenerics ==
  ASSUME SfpShape, NEW speed \in {"auto", "1000", "10000"}, NEW ok \in BOOLEAN, Generic(speed, ok)
  PROVE  swPort' \in SfpPort /\ sfpBudget' \in SfpBudgets
PROOF
<1>1. swPort \in SfpPort
  BY DEF SfpShape
<1>2. GenericSet(swPort, speed) \in SfpPort
  BY <1>1 DEF GenericSet, SfpPort
<1> QED
  BY <1>1, <1>2, SfpFaults DEF Generic

LEMMA SfpLinksUp ==
  ASSUME SfpShape, NEW speed \in {"auto", "1000", "10000"}, NEW ok \in BOOLEAN, LinkApply(speed, ok)
  PROVE  swPort' \in SfpPort /\ sfpBudget' \in SfpBudgets
PROOF
<1>1. LinkMode(cage, speed) \in {"generic", "refused", "1000", "10000"}
  BY DEF LinkMode, Rates
<1>2. PICK m \in {"generic", "refused", "1000", "10000"} :
        CASE m = "refused" -> ~ok /\ UNCHANGED <<swPort, sfpBudget>>
          [] m = "generic" -> Generic(speed, ok)
          [] OTHER         -> Recipe(m, ok)
  BY <1>1 DEF LinkApply
<1>3. CASE m = "refused"
  BY <1>2, <1>3 DEF SfpShape
<1>4. CASE m = "generic"
  BY <1>2, <1>4, SfpGenerics
<1>5. CASE m \in {"1000", "10000"}
  BY <1>2, <1>5, SfpRecipes
<1> QED
  BY <1>3, <1>4, <1>5

\* ---- the watcher ----

\* A step of the watcher that neither takes nor gives back the lock.
LEMMA SfpWatcherMoves ==
  ASSUME SfpInv, UNCHANGED <<cage, face, faceOp, inGroup, faceLock, swPort>>,
         pins' \in SfpPins, modCache' \in Classifiable \cup {None}, sfpBudget' \in SfpBudgets,
         sfpWatch' \in SfpWatchers, sfpWatch.at # "program", sfpWatch'.at # "program"
  PROVE  SfpInv'
PROOF
<1>1. SfpShape'
  BY DEF SfpInv, SfpShape
<1>2. SfpFace' /\ SfpWatches'
  BY DEF SfpInv, SfpFace, SfpWatches, FaceReq
<1> QED
  BY <1>1, <1>2 DEF SfpInv

LEMMA SfpInvWatcher == SfpInv /\ (SfpWatcher \/ WatchDue) => SfpInv'
PROOF
<1> SUFFICES ASSUME SfpInv, SfpWatcher \/ WatchDue PROVE SfpInv'
  OBVIOUS
<1> USE SfpNoneAssumption
<1>1. /\ SfpShape /\ SfpFace /\ SfpWatches /\ sfpWatch \in SfpWatchers /\ pins \in SfpPins /\ swPort \in SfpPort
      /\ modCache \in Classifiable \cup {None} /\ sfpBudget \in SfpBudgets
      /\ SeenModule \in Classifiable \cup {None}
  BY SfpSees DEF SfpInv, SfpShape
<1>2. Present \in BOOLEAN /\ 1 \in 0 .. SfpDeadline /\ 0 \in 0 .. SfpDeadline /\ sfpWatch.pend \in 0 .. SfpDeadline
  BY <1>1, SfpAssumption DEF Present, SfpWatchers
<1>3. CASE WatchPoll
  <2> DEFINE fresh == sfpWatch.seen = FALSE /\ Present
             pend == IF ~Present THEN 0 ELSE IF fresh THEN 1 ELSE sfpWatch.pend
             wait(p) == [sfpWatch EXCEPT !.now = Present, !.pend = p, !.at = "tail"]
  <2>1. pend \in 0 .. SfpDeadline
    BY <1>2
  <2> HIDE DEF pend, fresh
  <2>2. ASSUME NEW p \in 0 .. SfpDeadline
        PROVE  /\ wait(p) \in SfpWatchers /\ wait(p).at = "tail"
               /\ [wait(p) EXCEPT !.at = "relink", !.back = "tail"] \in SfpWatchers
               /\ [wait(p) EXCEPT !.at = "relink", !.back = "tail"].at = "relink"
    BY <1>1, <1>2, <2>2 DEF SfpWatchers
  <2>3. [sfpWatch EXCEPT !.quiet = TRUE] \in SfpWatchers /\ [sfpWatch EXCEPT !.quiet = TRUE].at = sfpWatch.at
    BY <1>1 DEF SfpWatchers
  <2>4. /\ sfpWatch.at = "idle" /\ UNCHANGED <<cage, face, faceOp, inGroup, faceLock, swPort, pins, modCache>>
        /\ SfpFault \/ SfpNoFault
        /\ \/ sfpWatch' = [sfpWatch EXCEPT !.quiet = TRUE]
           \/ sfpWatch' = wait(pend)
           \/ sfpWatch' = [wait(0) EXCEPT !.at = "relink", !.back = "tail"]
           \/ sfpWatch' = wait(IF GivenUp(pend) THEN 0 ELSE IF pend = SfpDeadline THEN pend ELSE pend + 1)
    BY <1>3 DEF WatchPoll, WatchAt, WatchKeeps, sfpHw, pend, fresh
  <2>5. (IF GivenUp(pend) THEN 0 ELSE IF pend = SfpDeadline THEN pend ELSE pend + 1) \in 0 .. SfpDeadline
    BY <2>1, SfpAssumption
  <2>6. sfpWatch' \in SfpWatchers /\ sfpWatch'.at # "program"
    <3> DEFINE next == IF GivenUp(pend) THEN 0 ELSE IF pend = SfpDeadline THEN pend ELSE pend + 1
    <3>1. next \in 0 .. SfpDeadline
      BY <2>5
    <3> HIDE DEF next
    <3>2. /\ wait(pend) \in SfpWatchers /\ wait(pend).at = "tail"
          /\ wait(next) \in SfpWatchers /\ wait(next).at = "tail"
      BY <2>1, <2>2, <3>1
    <3>3. /\ [wait(0) EXCEPT !.at = "relink", !.back = "tail"] \in SfpWatchers
          /\ [wait(0) EXCEPT !.at = "relink", !.back = "tail"].at = "relink"
      BY <1>2, <2>2
    <3>4. \/ sfpWatch' = [sfpWatch EXCEPT !.quiet = TRUE] \/ sfpWatch' = wait(pend) \/ sfpWatch' = wait(next)
          \/ sfpWatch' = [wait(0) EXCEPT !.at = "relink", !.back = "tail"]
      BY <2>4 DEF next
    <3> HIDE DEF wait
    <3> QED
      BY <2>3, <2>4, <3>2, <3>3, <3>4
  <2> QED
    BY <1>1, <2>4, <2>6, SfpWatcherMoves, SfpFaults
<1>4. CASE WatchRelink
  <2>1. /\ sfpWatch.at = "relink" /\ faceLock = None /\ UNCHANGED <<cage, face, faceOp, inGroup, swPort, pins, modCache, sfpBudget>>
    BY <1>4 DEF WatchRelink, WatchAt, WatchKeeps, sfpHw
  <2>2. CASE RelinkGuard
    <3>1. faceLock' = "watch" /\ sfpWatch' = [sfpWatch EXCEPT !.at = "program"]
      BY <1>4, <2>2 DEF WatchRelink
    <3>2. sfpWatch' \in SfpWatchers /\ sfpWatch'.at = "program"
      BY <1>1, <3>1 DEF SfpWatchers
    <3>3. SfpShape'
      BY <1>1, <2>1, <3>1, <3>2 DEF SfpShape
    <3>4. SfpFace' /\ SfpWatches'
      BY <1>1, <2>1, <2>2, <3>1, <3>2 DEF SfpFace, SfpWatches, RelinkGuard, FaceReq
    <3> QED
      BY <3>3, <3>4 DEF SfpInv
  <2>3. CASE ~RelinkGuard
    <3>1. sfpWatch' = [sfpWatch EXCEPT !.at = sfpWatch.back, !.back = "idle"] /\ UNCHANGED faceLock
      BY <1>4, <2>3 DEF WatchRelink
    <3>2. sfpWatch' \in SfpWatchers /\ sfpWatch'.at # "program"
      BY <1>1, <3>1 DEF SfpWatchers
    <3> QED
      BY <1>1, <2>1, <3>1, <3>2, SfpWatcherMoves
  <2> QED
    BY <2>2, <2>3
<1>5. CASE WatchProgram
  <2>1. PICK ok \in BOOLEAN : LinkApply(ConfiguredSpeed(swPort), ok) /\ modCache' = IF ok THEN SeenModule ELSE modCache
    BY <1>5 DEF WatchProgram
  <2>2. /\ sfpWatch.at = "program" /\ faceLock' = None /\ sfpWatch' = [sfpWatch EXCEPT !.at = sfpWatch.back, !.back = "idle"]
        /\ UNCHANGED <<cage, face, faceOp, inGroup, pins>>
    BY <1>5 DEF WatchProgram, WatchAt, WatchKeeps
  <2>3. swPort' \in SfpPort /\ sfpBudget' \in SfpBudgets
    BY <1>1, <2>1, SfpConfigured, SfpLinksUp
  <2>4. sfpWatch' \in SfpWatchers /\ sfpWatch'.at # "program"
    BY <1>1, <2>2 DEF SfpWatchers
  <2>5. SfpShape'
    BY <1>1, <2>1, <2>2, <2>3, <2>4 DEF SfpShape
  <2>6. SfpFace' /\ SfpWatches'
    BY <1>1, <2>2, <2>4 DEF SfpFace, SfpWatches, FaceReq
  <2> QED
    BY <2>5, <2>6 DEF SfpInv
<1>6. CASE WatchBusy \/ WatchTail \/ WatchVerify \/ WatchRemedy \/ WatchQuietEnds \/ WatchDue
  <2>1. CASE WatchBusy
    <3>1. /\ sfpWatch.at \in {"relink", "remedy"} /\ sfpWatch' = [sfpWatch EXCEPT !.at = sfpWatch.back, !.back = "idle"]
          /\ UNCHANGED <<cage, face, faceOp, inGroup, faceLock, swPort, pins, modCache, sfpBudget>>
      BY <2>1 DEF WatchBusy, WatchKeeps, sfpHw
    <3>2. sfpWatch' \in SfpWatchers /\ sfpWatch'.at # "program"
      BY <1>1, <3>1 DEF SfpWatchers
    <3> QED
      BY <1>1, <3>1, <3>2, SfpWatcherMoves
  <2>2. CASE WatchTail
    <3> DEFINE runs == sfpWatch.due /\ sfpWatch.pend = 0
               at == IF runs /\ sfpWatch.now THEN "verify" ELSE "idle"
               due == sfpWatch.due /\ ~runs
    <3>1. /\ sfpWatch.at = "tail"
          /\ sfpWatch' = [sfpWatch EXCEPT !.seen = sfpWatch.now, !.now = FALSE, !.due = due, !.at = at]
          /\ UNCHANGED <<cage, face, faceOp, inGroup, faceLock, swPort, pins, modCache, sfpBudget>>
      BY <2>2 DEF WatchTail, WatchAt, WatchKeeps, sfpHw
    <3>2. at \in {"verify", "idle"} /\ due \in BOOLEAN
      BY <1>1 DEF SfpWatchers
    <3> HIDE DEF at, due
    <3>3. sfpWatch' \in SfpWatchers /\ sfpWatch'.at # "program"
      BY <1>1, <3>1, <3>2 DEF SfpWatchers
    <3> QED
      BY <1>1, <3>1, <3>3, SfpWatcherMoves
  <2>3. CASE WatchVerify
    <3>1. PICK at \in {"remedy", "relink", "idle"} : sfpWatch' = [sfpWatch EXCEPT !.at = at]
      BY <2>3 DEF WatchVerify
    <3>2. /\ sfpWatch.at = "verify" /\ modCache' = SeenModule
          /\ UNCHANGED <<cage, face, faceOp, inGroup, faceLock, swPort, pins, sfpBudget>>
      BY <2>3 DEF WatchVerify, WatchAt, WatchKeeps, sfpHw
    <3>3. sfpWatch' \in SfpWatchers /\ sfpWatch'.at # "program"
      BY <1>1, <3>1 DEF SfpWatchers
    <3> QED
      BY <1>1, <3>2, <3>3, SfpWatcherMoves
  <2>4. CASE WatchRemedy
    <3>1. PICK ok \in BOOLEAN : SetTx(TRUE, ok)
      BY <2>4 DEF WatchRemedy
    <3>2. /\ sfpWatch.at = "remedy" /\ sfpWatch' = [sfpWatch EXCEPT !.at = "idle"]
          /\ UNCHANGED <<cage, face, faceOp, inGroup, faceLock, swPort, modCache>>
      BY <2>4 DEF WatchRemedy, WatchAt, WatchKeeps
    <3>3. sfpWatch' \in SfpWatchers /\ sfpWatch'.at # "program"
      BY <1>1, <3>2 DEF SfpWatchers
    <3> QED
      BY <1>1, <3>1, <3>2, <3>3, SfpWatcherMoves, SfpTransmits
  <2>5. CASE WatchQuietEnds
    <3>1. /\ sfpWatch' = [sfpWatch EXCEPT !.quiet = FALSE]
          /\ UNCHANGED <<cage, face, faceOp, inGroup, faceLock, swPort, pins, modCache, sfpBudget>>
      BY <2>5 DEF WatchQuietEnds, WatchKeeps, sfpHw
    <3>2. sfpWatch' \in SfpWatchers /\ sfpWatch'.at = sfpWatch.at
      BY <1>1, <3>1 DEF SfpWatchers
    <3>3. SfpShape'
      BY <1>1, <3>1, <3>2 DEF SfpShape
    <3> QED
      BY <1>1, <3>1, <3>2, <3>3 DEF SfpInv, SfpFace, SfpWatches, FaceReq
  <2>6. CASE WatchDue
    <3>1. /\ sfpWatch.at = "idle" /\ sfpWatch' = [sfpWatch EXCEPT !.due = TRUE]
          /\ UNCHANGED <<cage, face, faceOp, inGroup, faceLock, swPort, pins, modCache, sfpBudget>>
      BY <2>6 DEF WatchDue, WatchAt, WatchKeeps, sfpHw
    <3>2. sfpWatch' \in SfpWatchers /\ sfpWatch'.at # "program"
      BY <1>1, <3>1 DEF SfpWatchers
    <3> QED
      BY <1>1, <3>1, <3>2, SfpWatcherMoves
  <2> QED
    BY <1>6, <2>1, <2>2, <2>3, <2>4, <2>5, <2>6
<1> QED
  BY <1>3, <1>4, <1>5, <1>6 DEF SfpWatcher

\* ---- the faceplate process ----

\* A step of an operation that quits, or goes on with what is left of its script.
LEMMA SfpFaceMoves ==
  ASSUME SfpInv, NEW ok \in BOOLEAN, FaceEnd(ok),
         SfpScript(faceOp.at, FaceReq), Head(faceOp.at) # "read", face.pending = FaceReq, ~inGroup, faceOp # NoFaceOp,
         UNCHANGED <<cage, face, inGroup, sfpWatch, modCache>>,
         pins' \in SfpPins, swPort' \in SfpPort, sfpBudget' \in SfpBudgets
  PROVE  SfpInv'
PROOF
<1> USE SfpNoneAssumption
<1>1. SfpShape /\ SfpFace /\ SfpWatches /\ faceOp \in [at : Seq(SfpStepNames \cup {"check"}), todo : Seq(SfpAsked)]
      /\ faceLock = "face" /\ sfpWatch.at # "program"
  BY DEF SfpInv, SfpShape, SfpFace, SfpWatches
<1>2. CASE FaceGo(Tail(faceOp.at))
  <2>1. SfpScript(Tail(faceOp.at), FaceReq)
    BY SfpScriptEnds
  <2>2. Tail(faceOp.at) \in Seq(SfpStepNames \cup {"check"}) /\ Tail(faceOp.at) # <<>>
    <3>1. Tail(faceOp.at) \in Seq(SfpStepNames) /\ Tail(faceOp.at) # <<>>
      BY <2>1 DEF SfpScript
    <3>2. faceOp.at # <<>> /\ faceOp.at \in Seq(SfpStepNames \cup {"check"})
      BY <1>1 DEF SfpScript
    <3> QED
      BY <3>1, <3>2
  <2>3. faceOp' = [faceOp EXCEPT !.at = Tail(faceOp.at)] /\ UNCHANGED faceLock
    BY <1>2 DEF FaceGo
  <2>4. /\ faceOp' \in [at : Seq(SfpStepNames \cup {"check"}), todo : Seq(SfpAsked)]
        /\ faceOp'.at = Tail(faceOp.at) /\ faceOp'.todo = faceOp.todo
    BY <1>1, <2>2, <2>3
  <2>5. faceOp' # NoFaceOp
    BY <2>2, <2>4 DEF NoFaceOp
  <2>6. SfpShape'
    BY <1>1, <2>3, <2>4 DEF SfpShape
  <2>7. FaceReq' = FaceReq
    BY <2>4 DEF FaceReq
  <2>8. SfpFace' /\ SfpWatches'
    BY <1>1, <2>1, <2>3, <2>4, <2>5, <2>7 DEF SfpFace, SfpWatches
  <2> QED
    BY <2>6, <2>8 DEF SfpInv
<1>3. CASE FaceQuit
  <2>1. faceOp' = NoFaceOp /\ faceLock' = None /\ NoFaceOp \in [at : Seq(SfpStepNames \cup {"check"}), todo : Seq(SfpAsked)]
    BY <1>3 DEF FaceQuit, NoFaceOp
  <2>2. SfpShape'
    BY <1>1, <2>1 DEF SfpShape
  <2>3. SfpFace' /\ SfpWatches'
    BY <1>1, <2>1 DEF SfpFace, SfpWatches
  <2> QED
    BY <2>2, <2>3 DEF SfpInv
<1> QED
  BY <1>2, <1>3 DEF FaceEnd

\* Where an operation is when it takes a step.
LEMMA SfpFaceAt ==
  ASSUME SfpInv, NEW x \in SfpStepNames, FaceAt(x)
  PROVE  /\ faceOp # NoFaceOp /\ SfpScript(faceOp.at, FaceReq) /\ Head(faceOp.at) = x /\ face.pending = FaceReq /\ ~inGroup
         /\ FaceReq \in SfpAsked
         /\ x = "mac" => FaceReq.enabled \in BOOLEAN
         /\ x = "link" => FaceReq.speed # None
PROOF
<1>1. faceOp \in [at : Seq(SfpStepNames \cup {"check"}), todo : Seq(SfpAsked)] /\ faceOp.at # <<>> /\ Head(faceOp.at) = x
  BY DEF SfpInv, SfpShape, FaceAt
<1>2. faceOp # NoFaceOp
  BY <1>1 DEF NoFaceOp
<1>3. faceOp.at # <<"check">>
  <2>1. Head(<<"check">>) = "check" /\ "check" \notin SfpStepNames
    BY DEF SfpStepNames
  <2> QED
    BY <1>1, <2>1
<1>4. /\ SfpScript(faceOp.at, FaceReq) /\ face.pending = FaceReq /\ ~inGroup /\ faceOp.todo # <<>>
  BY <1>2, <1>3 DEF SfpInv, SfpFace
<1>5. FaceReq \in SfpAsked
  BY <1>1, <1>4 DEF FaceReq
<1>6. faceOp.at[1] = x /\ 1 \in 1 .. Len(faceOp.at)
  <2>1. Len(faceOp.at) \in Nat /\ Len(faceOp.at) # 0
    BY <1>1
  <2> QED
    BY <1>1, <2>1
<1> QED
  BY <1>1, <1>2, <1>4, <1>5, <1>6 DEF SfpScript

\* The journal as it is closed, and a request the process may quit on.
LEMMA SfpCommits == ASSUME SfpShape, NEW r \in SfpAsked PROVE Committed(r) \in SfpJournal
  BY DEF SfpShape, Committed, SfpAsked, SfpJournal

LEMMA SfpFaceQuits ==
  ASSUME SfpInv, FaceQuit, face' \in SfpJournal, modCache' \in Classifiable \cup {None}, sfpBudget' \in SfpBudgets,
         faceOp # NoFaceOp, UNCHANGED <<cage, pins, swPort, sfpWatch, inGroup>>
  PROVE  SfpInv'
PROOF
<1> USE SfpNoneAssumption
<1>1. SfpShape /\ faceLock = "face" /\ sfpWatch.at # "program"
  BY DEF SfpInv, SfpFace, SfpWatches
<1>2. faceOp' = NoFaceOp /\ faceLock' = None /\ NoFaceOp \in [at : Seq(SfpStepNames \cup {"check"}), todo : Seq(SfpAsked)]
  BY DEF FaceQuit, NoFaceOp
<1>3. SfpShape'
  BY <1>1, <1>2 DEF SfpShape
<1>4. SfpFace' /\ SfpWatches'
  BY <1>1, <1>2 DEF SfpFace, SfpWatches
<1> QED
  BY <1>3, <1>4 DEF SfpInv

LEMMA SfpInvFace == SfpInv /\ (SfpFaceplate \/ FaceDie) => SfpInv'
PROOF
<1> SUFFICES ASSUME SfpInv, SfpFaceplate \/ FaceDie PROVE SfpInv'
  OBVIOUS
<1> USE SfpNoneAssumption
<1>1. /\ SfpShape /\ SfpFace /\ SfpWatches /\ pins \in SfpPins /\ swPort \in SfpPort /\ face \in SfpJournal
      /\ modCache \in Classifiable \cup {None} /\ sfpBudget \in SfpBudgets
      /\ SeenModule \in Classifiable \cup {None}
      /\ faceOp \in [at : Seq(SfpStepNames \cup {"check"}), todo : Seq(SfpAsked)]
  BY SfpSees DEF SfpInv, SfpShape
<1>2. CASE FaceCheck
  <2>1. /\ faceOp.at # <<>> /\ Head(faceOp.at) = "check" /\ modCache' = SeenModule
        /\ UNCHANGED <<cage, pins, swPort, sfpWatch, inGroup, sfpBudget>>
    BY <1>2 DEF FaceCheck, FaceAt, sfpHw
  <2>2. faceOp # NoFaceOp
    BY <2>1 DEF NoFaceOp
  <2>3. FaceReq \in SfpAsked
    BY <1>1, <2>2 DEF SfpFace, FaceReq
  <2>4. CASE inGroup \/ face.pending # None
    BY <1>1, <1>2, <2>1, <2>2, <2>4, SfpFaceQuits DEF FaceCheck
  <2>5. CASE ~(inGroup \/ face.pending # None)
    <3>1. face' = [face EXCEPT !.pending = FaceReq] /\ FaceGo(FaceSteps(FaceReq))
      BY <1>2, <2>5 DEF FaceCheck
    <3>2. face' \in SfpJournal /\ face'.pending = FaceReq
      BY <1>1, <2>3, <3>1 DEF SfpJournal
    <3>3. SfpScript(FaceSteps(FaceReq), FaceReq)
      BY <2>3, SfpScripts
    <3>4. FaceSteps(FaceReq) \in Seq(SfpStepNames \cup {"check"}) /\ FaceSteps(FaceReq) # <<>>
      <4>1. FaceSteps(FaceReq) \in Seq(SfpStepNames) /\ FaceSteps(FaceReq) # <<>>
        BY <3>3 DEF SfpScript
      <4> HIDE DEF SfpStepNames
      <4> QED
        BY <4>1
    <3>5. faceOp' = [faceOp EXCEPT !.at = FaceSteps(FaceReq)] /\ UNCHANGED faceLock
      BY <3>1 DEF FaceGo
    <3>6. /\ faceOp' \in [at : Seq(SfpStepNames \cup {"check"}), todo : Seq(SfpAsked)]
          /\ faceOp'.at = FaceSteps(FaceReq) /\ faceOp'.todo = faceOp.todo
      BY <1>1, <3>4, <3>5
    <3>7. faceOp' # NoFaceOp /\ FaceReq' = FaceReq
      BY <3>4, <3>6 DEF NoFaceOp, FaceReq
    <3>8. SfpShape'
      BY <1>1, <2>1, <3>2, <3>5, <3>6 DEF SfpShape
    <3>9. SfpFace' /\ SfpWatches'
      BY <1>1, <2>1, <2>2, <2>5, <3>2, <3>3, <3>5, <3>6, <3>7 DEF SfpFace, SfpWatches
    <3> QED
      BY <3>8, <3>9 DEF SfpInv
  <2> QED
    BY <2>4, <2>5
<1>3. CASE FaceLink
  <2>1. PICK ok \in BOOLEAN : LinkApply(FaceReq.speed, ok) /\ FaceEnd(ok)
    BY <1>3 DEF FaceLink
  <2>2. FaceAt("link") /\ UNCHANGED <<cage, pins, face, modCache, sfpWatch, inGroup>> /\ "link" \in SfpStepNames
    BY <1>3 DEF FaceLink, SfpStepNames
  <2>3. FaceReq.speed \in {"auto", "1000", "10000"}
    BY <2>2, SfpFaceAt DEF SfpAsked, SfpSpeeds
  <2>4. swPort' \in SfpPort /\ sfpBudget' \in SfpBudgets
    BY <1>1, <2>1, <2>3, SfpLinksUp
  <2> QED
    BY <1>1, <2>1, <2>2, <2>4, SfpFaceAt, SfpFaceMoves
<1>4. ASSUME NEW on \in BOOLEAN, FaceTx(on) PROVE SfpInv'
  <2>1. PICK ok \in BOOLEAN : SetTx(on, ok) /\ FaceEnd(ok)
    BY <1>4 DEF FaceTx
  <2>2. PICK x \in {"on", "off"} : FaceAt(x)
    BY <1>4 DEF FaceTx
  <2>3. UNCHANGED <<cage, swPort, face, modCache, sfpWatch, inGroup>> /\ x \in SfpStepNames /\ x # "read"
    BY <1>4 DEF FaceTx, SfpStepNames
  <2>4. pins' \in SfpPins /\ sfpBudget' \in SfpBudgets
    BY <1>1, <1>4, <2>1, SfpTransmits
  <2> QED
    BY <1>1, <2>1, <2>2, <2>3, <2>4, SfpFaceAt, SfpFaceMoves
<1>5. CASE FaceMac
  <2>1. FaceAt("mac") /\ UNCHANGED <<cage, pins, face, modCache, sfpWatch, inGroup>> /\ "mac" \in SfpStepNames
    BY <1>5 DEF FaceMac, SfpStepNames
  <2>2. FaceReq.enabled \in BOOLEAN
    BY <2>1, SfpFaceAt
  <2>3. PICK ok \in BOOLEAN : FaceEnd(ok)
    BY <1>5 DEF FaceMac
  <2>4. swPort' \in SfpPort /\ sfpBudget' \in SfpBudgets
    <3>1. [swPort EXCEPT !.mac = FaceReq.enabled] \in SfpPort
      BY <1>1, <2>2 DEF SfpPort
    <3> QED
      BY <1>1, <1>5, <3>1, SfpFaults DEF FaceMac
  <2> QED
    BY <1>1, <2>1, <2>3, <2>4, SfpFaceAt, SfpFaceMoves
<1>6. CASE FaceRead
  <2>1. /\ FaceAt("read") /\ modCache' = SeenModule /\ "read" \in SfpStepNames
        /\ UNCHANGED <<cage, pins, swPort, sfpWatch, inGroup, sfpBudget>>
    BY <1>6 DEF FaceRead, sfpHw, SfpStepNames
  <2>2. faceOp # NoFaceOp /\ FaceReq \in SfpAsked /\ Committed(FaceReq) \in SfpJournal
    BY <1>1, <2>1, SfpFaceAt, SfpCommits
  <2>3. CASE FaceQuit
    <3>1. face' \in SfpJournal
      BY <1>1, <1>6, <2>2 DEF FaceRead
    <3> QED
      BY <1>1, <2>1, <2>2, <2>3, <3>1, SfpFaceQuits
  <2>4. CASE ~FaceQuit
    <3>1. /\ face' = Committed(FaceReq) /\ Len(faceOp.todo) # 1
          /\ faceOp' = [at |-> <<"check">>, todo |-> Tail(faceOp.todo)] /\ UNCHANGED faceLock
      BY <1>6, <2>4 DEF FaceRead
    <3>2. faceOp.todo \in Seq(SfpAsked) /\ faceOp.todo # <<>> /\ faceLock = "face"
      BY <1>1, <2>2 DEF SfpFace
    <3>3. Tail(faceOp.todo) \in Seq(SfpAsked) /\ Tail(faceOp.todo) # <<>>
      <4>1. Len(faceOp.todo) \in Nat /\ Len(faceOp.todo) # 0
        BY <3>2
      <4>2. Tail(faceOp.todo) \in Seq(SfpAsked) /\ Len(Tail(faceOp.todo)) = Len(faceOp.todo) - 1
        BY <3>2
      <4>3. Len(Tail(faceOp.todo)) # 0
        BY <3>1, <4>1, <4>2
      <4>4. ASSUME Tail(faceOp.todo) = <<>> PROVE FALSE
        <5>1. Len(<<>>) = 0
          OBVIOUS
        <5> QED
          BY <4>3, <4>4, <5>1
      <4> QED
        BY <4>2, <4>4
    <3>4. <<"check">> \in Seq(SfpStepNames \cup {"check"})
      OBVIOUS
    <3>5. /\ faceOp' \in [at : Seq(SfpStepNames \cup {"check"}), todo : Seq(SfpAsked)]
          /\ faceOp'.at = <<"check">> /\ faceOp'.todo # <<>> /\ faceOp' # NoFaceOp
      BY <3>1, <3>3, <3>4 DEF NoFaceOp
    <3>6. SfpShape'
      BY <1>1, <2>1, <2>2, <3>1, <3>5 DEF SfpShape
    <3>7. SfpFace' /\ SfpWatches'
      BY <1>1, <2>1, <3>1, <3>2, <3>5 DEF SfpFace, SfpWatches
    <3> QED
      BY <3>6, <3>7 DEF SfpInv
  <2> QED
    BY <2>3, <2>4
<1>7. CASE FaceDie
  BY <1>1, <1>7, SfpFaults, SfpFaceQuits DEF FaceDie, sfpHw
<1> QED
  BY <1>2, <1>3, <1>4, <1>5, <1>6, <1>7 DEF SfpFaceplate

\* ---- the others ----

\* Nobody is at work: the faceplate's verbs, and the owner of an aggregate.
LEMMA SfpFree ==
  ASSUME SfpInv, faceLock = None
  PROVE  faceOp = NoFaceOp /\ sfpWatch.at # "program"
  BY SfpNoneAssumption DEF SfpInv, SfpFace, SfpWatches

LEMMA SfpInvOthers ==
  ASSUME SfpInv,
         \/ FaceStatus \/ FaceRestore \/ FaceResolve \/ WatchRestart \/ SfpRemove \/ MemberClaim \/ MemberStop
         \/ (\E r \in SfpRequests : FaceSet(r)) \/ (\E m \in SfpModules : SfpInsert(m))
  PROVE  SfpInv'
PROOF
<1> USE SfpNoneAssumption
<1>1. /\ SfpShape /\ SfpFace /\ SfpWatches /\ pins \in SfpPins /\ swPort \in SfpPort /\ face \in SfpJournal
      /\ modCache \in Classifiable \cup {None} /\ sfpBudget \in SfpBudgets /\ sfpWatch \in SfpWatchers
      /\ SeenModule \in Classifiable \cup {None} /\ inGroup \in BOOLEAN
      /\ faceOp \in [at : Seq(SfpStepNames \cup {"check"}), todo : Seq(SfpAsked)]
  BY SfpSees DEF SfpInv, SfpShape
\* What is in the cage is nobody's lock.
<1>2. ASSUME UNCHANGED <<pins, swPort, face, faceOp, faceLock, sfpWatch, inGroup>>,
             cage' \in SfpModules \cup {None}, modCache' \in Classifiable \cup {None}, sfpBudget' \in SfpBudgets
      PROVE  SfpInv'
  <2>1. SfpShape'
    BY <1>1, <1>2 DEF SfpShape
  <2>2. SfpFace' /\ SfpWatches'
    BY <1>1, <1>2 DEF SfpFace, SfpWatches, FaceReq
  <2> QED
    BY <2>1, <2>2 DEF SfpInv
<1>3. CASE FaceStatus \/ SfpRemove \/ (\E m \in SfpModules : SfpInsert(m))
  <2>1. UNCHANGED <<pins, swPort, face, faceOp, faceLock, sfpWatch, inGroup>> /\ modCache' \in Classifiable \cup {None}
    BY <1>1, <1>3 DEF FaceStatus, SfpRemove, SfpInsert, sfpHw
  <2>2. cage' \in SfpModules \cup {None}
    BY <1>1, <1>3 DEF FaceStatus, SfpRemove, SfpInsert, SfpShape
  <2>3. sfpBudget' \in SfpBudgets
    <3>1. CASE \E m \in SfpModules : SfpInsert(m)
      <4>1. sfpBudget.swap > 0 /\ sfpBudget' = [sfpBudget EXCEPT !.swap = @ - 1]
        BY <3>1 DEF SfpInsert
      <4> QED
        BY <1>1, <4>1 DEF SfpBudgets
    <3> QED
      BY <1>1, <1>3, <3>1 DEF FaceStatus, SfpRemove
  <2> QED
    BY <1>2, <2>1, <2>2, <2>3
\* A request begins with its check.
<1>4. ASSUME NEW todo \in Seq(SfpAsked), todo # <<>>, FaceStart(todo) PROVE SfpInv'
  <2>1. /\ faceLock' = "face" /\ faceLock = None /\ faceOp' = [at |-> <<"check">>, todo |-> todo]
        /\ UNCHANGED <<cage, pins, swPort, face, modCache, sfpWatch, inGroup, sfpBudget>>
    BY <1>4 DEF FaceStart, sfpHw
  <2>2. <<"check">> \in Seq(SfpStepNames \cup {"check"})
    OBVIOUS
  <2>3. /\ faceOp' \in [at : Seq(SfpStepNames \cup {"check"}), todo : Seq(SfpAsked)]
        /\ faceOp'.at = <<"check">> /\ faceOp'.todo = todo /\ faceOp' # NoFaceOp
    BY <1>4, <2>1, <2>2 DEF NoFaceOp
  <2>4. SfpShape'
    BY <1>1, <2>1, <2>3 DEF SfpShape
  <2>5. SfpFace' /\ SfpWatches'
    BY <1>1, <1>4, <2>1, <2>3 DEF SfpFace, SfpWatches
  <2> QED
    BY <2>4, <2>5 DEF SfpInv
<1>5. ASSUME NEW r \in SfpRequests, FaceSet(r) PROVE SfpInv'
  <2>1. <<r>> \in Seq(SfpAsked) /\ <<r>> # <<>>
    BY SfpAssumption
  <2> QED
    BY <1>4, <1>5, <2>1 DEF FaceSet
<1>6. CASE FaceRestore
  <2> DEFINE speed == IF face.speed = None THEN <<>> ELSE <<[enabled |-> None, speed |-> face.speed]>>
             state == IF face.enabled = None THEN <<>> ELSE <<[enabled |-> face.enabled, speed |-> None]>>
  <2>1. [enabled |-> None, speed |-> face.speed] \in SfpAsked /\ [enabled |-> face.enabled, speed |-> None] \in SfpAsked
    BY <1>1 DEF SfpAsked, SfpJournal, SfpSpeeds
  <2>2. speed \in Seq(SfpAsked)
    <3>1. CASE face.speed = None
      BY <3>1
    <3>2. CASE face.speed # None
      BY <2>1, <3>2
    <3> QED
      BY <3>1, <3>2
  <2>3. state \in Seq(SfpAsked)
    <3>1. CASE face.enabled = None
      BY <3>1
    <3>2. CASE face.enabled # None
      BY <2>1, <3>2
    <3> QED
      BY <3>1, <3>2
  <2>4. speed \o state # <<>> /\ FaceStart(speed \o state)
    BY <1>6 DEF FaceRestore
  <2> HIDE DEF speed, state
  <2>5. speed \o state \in Seq(SfpAsked)
    BY <2>2, <2>3
  <2> QED
    BY <1>4, <2>4, <2>5
<1>7. CASE FaceResolve
  <2> DEFINE mac == swPort.mac /\ TxEnabled
             r == [enabled |-> IF face.pending.enabled = None THEN None ELSE mac,
                   speed   |-> IF face.pending.speed = None THEN None ELSE ConfiguredSpeed(swPort)]
  <2>1. /\ faceLock = None /\ modCache' = SeenModule /\ face' = Committed(r)
        /\ UNCHANGED <<cage, pins, swPort, faceOp, faceLock, sfpWatch, inGroup, sfpBudget>>
    BY <1>7 DEF FaceResolve, sfpHw
  <2>2. r \in SfpAsked
    <3>1. ConfiguredSpeed(swPort) \in SfpSpeeds
      BY <1>1, SfpConfigured DEF SfpSpeeds
    <3>2. mac \in BOOLEAN
      OBVIOUS
    <3> HIDE DEF mac
    <3> QED
      BY <3>1, <3>2 DEF SfpAsked, SfpSpeeds
  <2> HIDE DEF r
  <2>3. face' \in SfpJournal
    BY <1>1, <2>1, <2>2, SfpCommits
  <2>4. faceOp = NoFaceOp /\ sfpWatch.at # "program"
    BY <2>1, SfpFree
  <2>5. SfpShape'
    BY <1>1, <2>1, <2>3 DEF SfpShape
  <2>6. SfpFace' /\ SfpWatches'
    BY <1>1, <2>1, <2>4 DEF SfpFace, SfpWatches
  <2> QED
    BY <2>5, <2>6 DEF SfpInv
<1>8. CASE MemberClaim \/ MemberStop
  <2>1. /\ faceLock = None /\ UNCHANGED <<cage, pins, face, faceOp, faceLock, modCache, sfpWatch, sfpBudget>>
        /\ inGroup' \in BOOLEAN
    BY <1>8 DEF MemberClaim, MemberStop
  <2>2. swPort' \in SfpPort
    BY <1>1, <1>8 DEF MemberClaim, MemberStop, SfpPort
  <2>3. faceOp = NoFaceOp /\ sfpWatch.at # "program"
    BY <2>1, SfpFree
  <2>4. SfpShape'
    BY <1>1, <2>1, <2>2 DEF SfpShape
  <2>5. SfpFace' /\ SfpWatches'
    BY <1>1, <2>1, <2>3 DEF SfpFace, SfpWatches
  <2> QED
    BY <2>4, <2>5 DEF SfpInv
<1>9. CASE WatchRestart
  <2>1. /\ SfpFault /\ sfpWatch' = NewWatch /\ UNCHANGED <<cage, face, faceOp, inGroup, pins, swPort, modCache>>
        /\ faceLock' = IF faceLock = "watch" THEN None ELSE faceLock
    BY <1>9 DEF WatchRestart, WatchKeeps, sfpHw
  <2>2. NewWatch \in SfpWatchers /\ NewWatch.at = "idle"
    BY SfpAssumption DEF NewWatch, SfpWatchers
  <2>3. SfpShape'
    BY <1>1, <2>1, <2>2, SfpFaults DEF SfpShape
  <2>4. SfpFace' /\ SfpWatches'
    BY <1>1, <2>1, <2>2 DEF SfpShape, SfpFace, SfpWatches, FaceReq
  <2> QED
    BY <2>3, <2>4 DEF SfpInv
<1> QED
  BY <1>3, <1>5, <1>6, <1>7, <1>8, <1>9

LEMMA SfpInvInit == SfpInit => SfpInv
PROOF
<1> SUFFICES ASSUME SfpInit PROVE SfpInv
  OBVIOUS
<1> USE SfpNoneAssumption
<1>1. pins \in SfpPins /\ swPort \in SfpPort
  BY DEF SfpInit, SfpPins, SfpPort
<1>2. face \in SfpJournal /\ face.pending = None
  BY DEF SfpInit, SfpJournal, SfpSpeeds
<1>3. sfpWatch \in SfpWatchers /\ sfpWatch.at = "idle"
  BY SfpAssumption DEF SfpInit, NewWatch, SfpWatchers
<1>4. sfpBudget \in SfpBudgets
  BY SfpAssumption DEF SfpInit, SfpBudgets
<1>5. faceOp = NoFaceOp /\ NoFaceOp \in [at : Seq(SfpStepNames \cup {"check"}), todo : Seq(SfpAsked)]
  BY DEF SfpInit, NoFaceOp
<1>6. faceLock = None /\ cage = None /\ modCache = None /\ inGroup = FALSE
  BY DEF SfpInit
<1>7. SfpShape
  BY <1>1, <1>2, <1>3, <1>4, <1>5, <1>6 DEF SfpShape
<1>8. SfpFace /\ SfpWatches
  BY <1>3, <1>5, <1>6 DEF SfpFace, SfpWatches
<1> QED
  BY <1>7, <1>8 DEF SfpInv

LEMMA SfpInvNext == SfpInv /\ [SfpNext]_sfpVars => SfpInv'
PROOF
<1> SUFFICES ASSUME SfpInv, [SfpNext]_sfpVars PROVE SfpInv'
  OBVIOUS
<1>1. CASE SfpNext
  BY <1>1, SfpInvWatcher, SfpInvFace, SfpInvOthers DEF SfpNext
<1>2. CASE UNCHANGED sfpVars
  <2>1. UNCHANGED <<cage, pins, swPort, face, faceOp, faceLock, modCache, sfpWatch, inGroup, sfpBudget>>
    BY <1>2 DEF sfpVars, sfpHw
  <2>2. SfpShape'
    BY <2>1 DEF SfpInv, SfpShape
  <2>3. SfpFace' /\ SfpWatches'
    BY <2>1 DEF SfpInv, SfpFace, SfpWatches, FaceReq
  <2> QED
    BY <2>2, <2>3 DEF SfpInv
<1> QED
  BY <1>1, <1>2

\* The lock of the faceplate belongs to the process that is inside it, whatever
\* is plugged, asked, killed or restarted (ffn_faceplate.py locked(),
\* ffn_sfp.c sfp_relink).
THEOREM CageLockHeld == SfpSpec => []SfpTypeOK
PROOF
<1>1. SfpInit => SfpInv
  BY SfpInvInit
<1>2. SfpInv /\ [SfpNext]_sfpVars => SfpInv'
  BY SfpInvNext
<1>3. SfpInv => SfpTypeOK
  <2> SUFFICES ASSUME SfpInv PROVE SfpTypeOK
    OBVIOUS
  <2>1. /\ cage \in SfpModules \cup {None} /\ modCache \in Classifiable \cup {None} /\ inGroup \in BOOLEAN
        /\ pins \in SfpPins /\ swPort \in SfpPort
    BY DEF SfpInv, SfpShape
  <2>2. face.enabled \in BOOLEAN \cup {None} /\ face.speed \in {None, "auto", "1000", "10000"}
    BY DEF SfpInv, SfpShape, SfpJournal, SfpSpeeds
  <2>3. sfpWatch.pend \in 0 .. SfpDeadline
    BY DEF SfpInv, SfpShape, SfpWatchers
  <2>4. (faceLock = "face" <=> faceOp # NoFaceOp) /\ (faceLock = "watch" <=> sfpWatch.at = "program")
    BY DEF SfpInv, SfpFace, SfpWatches
  <2> QED
    BY <2>1, <2>2, <2>3, <2>4 DEF SfpTypeOK, SfpPins, SfpPort
<1> QED
  BY <1>1, <1>2, <1>3, PTL DEF SfpSpec

\* ---- the steps ----

\* Who programs the port of a cage, and when.
LEMMA SfpProgrammed ==
  ASSUME SfpInv, [SfpNext]_sfpVars
  PROVE  \/ UNCHANGED swPort
         \/ faceOp # NoFaceOp /\ ~inGroup
         \/ face.pending = None /\ ~inGroup
         \/ ~inGroup /\ inGroup'
         \/ inGroup /\ ~inGroup'
PROOF
<1>1. CASE FaceLink \/ FaceMac
  <2>1. PICK x \in SfpStepNames : FaceAt(x)
    BY <1>1 DEF FaceLink, FaceMac, SfpStepNames
  <2> QED
    BY <2>1, SfpFaceAt
<1>2. CASE WatchProgram
  BY <1>2 DEF WatchProgram, WatchAt, SfpInv, SfpWatches
<1>3. CASE MemberClaim \/ MemberStop
  BY <1>3 DEF MemberClaim, MemberStop
<1>4. CASE WatchPoll \/ WatchRelink \/ WatchBusy \/ WatchTail \/ WatchVerify \/ WatchRemedy \/ WatchQuietEnds \/ WatchDue \/ WatchRestart
  BY <1>4 DEF WatchPoll, WatchRelink, WatchBusy, WatchTail, WatchVerify, WatchRemedy, WatchQuietEnds, WatchDue, WatchRestart, sfpHw
<1>5. CASE FaceCheck \/ FaceTx(TRUE) \/ FaceTx(FALSE) \/ FaceRead \/ FaceStatus \/ FaceRestore \/ FaceResolve \/ FaceDie
  BY <1>5 DEF FaceCheck, FaceTx, FaceRead, FaceStatus, FaceRestore, FaceResolve, FaceDie, FaceStart, sfpHw
<1>6. CASE (\E r \in SfpRequests : FaceSet(r)) \/ SfpRemove \/ (\E m \in SfpModules : SfpInsert(m)) \/ UNCHANGED sfpVars
  BY <1>6 DEF FaceSet, FaceStart, SfpRemove, SfpInsert, sfpVars, sfpHw
<1> QED
  BY <1>1, <1>2, <1>3, <1>4, <1>5, <1>6 DEF SfpNext, SfpWatcher, SfpFaceplate

\* Who closes the journal, and on what.
LEMMA SfpClosed ==
  ASSUME SfpInv, [SfpNext]_sfpVars, face.pending # None, face'.pending = None, face.pending.enabled # None
  PROVE  swPort'.mac = face'.enabled /\ TxEnabled' = face'.enabled
PROOF
<1> USE SfpNoneAssumption
<1>1. SfpShape /\ face \in SfpJournal /\ swPort \in SfpPort /\ face.pending \in SfpAsked
  BY DEF SfpInv, SfpShape, SfpJournal
<1>2. FaceRead \/ FaceResolve
  <2>1. CASE FaceCheck
    BY <2>1 DEF FaceCheck
  <2>2. CASE SfpWatcher \/ WatchDue \/ WatchRestart
    BY <2>2 DEF SfpWatcher, WatchPoll, WatchRelink, WatchProgram, WatchBusy, WatchTail, WatchVerify, WatchRemedy,
                WatchQuietEnds, WatchDue, WatchRestart, WatchKeeps
  <2>3. CASE FaceLink \/ FaceTx(FALSE) \/ FaceMac \/ FaceTx(TRUE) \/ FaceStatus \/ FaceRestore \/ FaceDie
    BY <2>3 DEF FaceLink, FaceTx, FaceMac, FaceStatus, FaceRestore, FaceDie, FaceStart
  <2>4. CASE (\E r \in SfpRequests : FaceSet(r)) \/ SfpRemove \/ (\E m \in SfpModules : SfpInsert(m)) \/ MemberClaim
             \/ MemberStop \/ UNCHANGED sfpVars
    BY <2>4 DEF FaceSet, FaceStart, SfpRemove, SfpInsert, MemberClaim, MemberStop, sfpVars
  <2> QED
    BY <2>1, <2>2, <2>3, <2>4 DEF SfpNext, SfpFaceplate
<1>3. CASE FaceRead
  <2>1. FaceReq = face.pending
    BY <1>3, SfpFaceAt DEF FaceRead, SfpStepNames
  <2>2. /\ face' = Committed(FaceReq) /\ UNCHANGED <<swPort, pins>>
        /\ swPort.mac = FaceReq.enabled /\ TxEnabled = FaceReq.enabled
    BY <1>3, <2>1 DEF FaceRead, sfpHw
  <2>3. face'.enabled = FaceReq.enabled
    BY <2>1, <2>2 DEF Committed
  <2>4. TxEnabled' = TxEnabled
    BY <2>2 DEF TxEnabled
  <2> QED
    BY <2>2, <2>3, <2>4
<1>4. CASE FaceResolve
  <2> DEFINE mac == swPort.mac /\ TxEnabled
             speed == IF face.pending.speed = None THEN None ELSE ConfiguredSpeed(swPort)
  <2>1. face' = Committed([enabled |-> mac, speed |-> speed]) /\ swPort.mac = TxEnabled /\ UNCHANGED <<swPort, pins>>
    BY <1>4 DEF FaceResolve, sfpHw
  <2>2. mac \in BOOLEAN /\ mac # None
    <3>1. mac \in BOOLEAN
      OBVIOUS
    <3> HIDE DEF mac
    <3> QED
      BY <3>1
  <2>3. swPort.mac \in BOOLEAN /\ mac = swPort.mac
    BY <1>1, <2>1 DEF SfpPort
  <2> HIDE DEF mac, speed
  <2>4. face'.enabled = mac
    BY <2>1, <2>2 DEF Committed
  <2>5. TxEnabled' = TxEnabled
    BY <2>1 DEF TxEnabled
  <2> QED
    BY <2>1, <2>3, <2>4, <2>5
<1> QED
  BY <1>2, <1>3, <1>4

\* A journal is closed only on what both the MAC and the laser do, an open one
\* keeps the watcher off the port, and a member of an aggregate is left alone
\* (ffn_faceplate.py apply and resolve, ffn_sfp.c sfp_relink), whatever fails
\* or is killed in between.
THEOREM CageSteps == SfpSpec => SfpSteps
PROOF
<1>1. SfpInit => SfpInv
  BY SfpInvInit
<1>2. SfpInv /\ [SfpNext]_sfpVars => SfpInv'
  BY SfpInvNext
<1>3. SfpInv /\ [SfpNext]_sfpVars
      => [face.pending # None /\ face'.pending = None /\ face.pending.enabled # None
            => swPort'.mac = face'.enabled /\ TxEnabled' = face'.enabled]_sfpVars
  BY SfpClosed
<1>4. SfpInv /\ [SfpNext]_sfpVars
      => [face.pending # None /\ faceOp = NoFaceOp /\ ~inGroup /\ ~inGroup' => UNCHANGED swPort]_sfpVars
  BY SfpProgrammed
<1>5. SfpInv /\ [SfpNext]_sfpVars => [inGroup /\ inGroup' => UNCHANGED swPort]_sfpVars
  BY SfpProgrammed
<1>6. SfpSpec => JournalTrue
  BY <1>1, <1>2, <1>3, PTL DEF SfpSpec, JournalTrue
<1>7. SfpSpec => PendingFreezes
  BY <1>1, <1>2, <1>4, PTL DEF SfpSpec, PendingFreezes
<1>8. SfpSpec => MemberUntouched
  BY <1>1, <1>2, <1>5, PTL DEF SfpSpec, MemberUntouched
<1> QED
  BY <1>6, <1>7, <1>8 DEF SfpSteps
=============================================================================
