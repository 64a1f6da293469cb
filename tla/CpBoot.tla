------------------------------- MODULE CpBoot -------------------------------
(* Bringing up the control-plane OCTEON from the host: two boot scripts      *)
(* under one flock, the python workers they start (the FPGA step and         *)
(* ffn_octboot), pcnet-up by hand, a tool that moves the BAR1 window without *)
(* the lock, the console broker, and the chip with its bootloader.           *)
(*                                                                           *)
(* ffn-octeon-up.sh runs ffn_octboot in the background and watches the       *)
(* console log; the worker inherits the descriptor of the lock, so the lock  *)
(* is held until the last of the two is gone.  boot618-pcie.sh stops the     *)
(* host transport before it waits for the lock.                              *)
(*                                                                           *)
(* Abstracted: an image is one 4 MB segment; the console broker forwards a   *)
(* line long before a reset completes; a prompt question is one step; the    *)
(* bootloader's own retries are one programming.                             *)
EXTENDS Integers, Sequences, FfnCommon

CONSTANTS
  CpbUps,       \* the boot scripts that may be started
  CpbAlt,       \* those that are boot618-pcie.sh; the others are ffn-octeon-up.sh
  CpbStarts,    \* starts of every script (bound)
  CpbMaxFaults  \* deaths, failed vendor tools, broker restarts, and runs of pcnet-up and of the unlocked tool (bound)

ASSUME CpbAssumption == CpbStarts \in Nat /\ CpbMaxFaults \in Nat

CpbSeg == {"home", "fpga", "kernel", "ring"}   \* segments the window may show; the mailbox is at home
CpbImage(job, p) == <<job, p>>
CpbJunk == <<"junk", None>>

VARIABLES
  cpbUp,      \* the script: sc, stale and seen (what the console log shows it), rc of its FPGA step, n starts
  cpbWork,    \* its worker: pc, the job, the index it saved, the session it staged in, the verdict it read
  cpbPup,     \* pcnet-up by hand
  cpbTool,    \* the unlocked tool: pc, the index it saved
  cpbOct,     \* the chip: run, session, socket personality, what Linux was booted from, whether it said so
  cpbWin,     \* the segment BAR1 index 0 shows
  cpbRam,     \* what every segment holds
  cpbCon,     \* the console FIFO
  cpbLine,    \* the last line of the console log is the banner of an init
  cpbNet,     \* ffn_pcnetd is running
  cpbStray,   \* this session, the tool wrote or a worker read back through a window that showed another segment
  cpbFaults

cpbVars == <<cpbUp, cpbWork, cpbPup, cpbTool, cpbOct, cpbWin, cpbRam, cpbCon, cpbLine, cpbNet, cpbStray, cpbFaults>>
cpbMem == <<cpbWin, cpbRam, cpbStray>>
cpbEnv == <<cpbPup, cpbTool, cpbFaults>>

CpbIdleUp == [sc |-> "idle", stale |-> FALSE, seen |-> FALSE, rc |-> "none", n |-> 0]
CpbNoWork == [pc |-> "none", job |-> "none", sav |-> None, sess |-> 0, ok |-> FALSE]
CpbNoImg == [by |-> None, what |-> CpbJunk, sess |-> 0, rc |-> "none"]

CpbFault == cpbFaults < CpbMaxFaults /\ cpbFaults' = cpbFaults + 1
Windowed == {"map", "mapped", "copy", "remap", "remapped", "read", "leave"}
\* The vendor tools wedge or garble each other when two run at once.
ScriptRemote(p) == cpbUp[p].sc \in {"reset", "load", "csr"}
WorkRemote(p) == cpbWork[p].pc \in Windowed
RemoteUsers ==
  {<<"script", p>> : p \in {q \in CpbUps : ScriptRemote(q)}} \cup {<<"worker", p>> : p \in {q \in CpbUps : WorkRemote(q)}}
    \cup (IF cpbPup = "csr" THEN {<<"pup", None>>} ELSE {}) \cup (IF cpbTool.pc # "idle" THEN {<<"tool", None>>} ELSE {})
Garbled(me) == RemoteUsers \ {me} # {}

\* ---- the lock: ffn-octlock.sh ----------------------------------------------------

\* Descriptor 9 lives in the script and in every process it started.
LockHeld(p) == cpbUp[p].sc \notin {"idle", "stop", "check", "lock"} \/ cpbWork[p].pc /= "none" \/ (p \notin CpbAlt /\ cpbUp[p].sc \in {"stop", "check"})
CtlLockFree == (\A p \in CpbUps : ~LockHeld(p)) /\ cpbPup /= "csr"

\* ---- the scripts ------------------------------------------------------------------

CpbAt(p, sc) == IF sc = "idle" THEN [CpbIdleUp EXCEPT !.n = cpbUp[p].n] ELSE [cpbUp[p] EXCEPT !.sc = sc]
CpbGo(p, from, to) == cpbUp[p].sc = from /\ cpbUp' = [cpbUp EXCEPT ![p] = CpbAt(p, to)]
CpbSteps == UNCHANGED <<cpbWork, cpbEnv, cpbMem, cpbCon>>

\* A second orchestration exits; boot618-pcie.sh takes the lock later.
StartScript(p) ==
  /\ cpbUp[p].sc = "idle" /\ cpbUp[p].n < CpbStarts /\ cpbWork[p].pc = "none"
  /\ LET sc == IF p \in CpbAlt \/ CtlLockFree THEN "stop" ELSE "idle"
     IN cpbUp' = [cpbUp EXCEPT ![p] = [CpbIdleUp EXCEPT !.sc = sc, !.n = cpbUp[p].n + 1]]
  /\ CpbSteps /\ UNCHANGED <<cpbOct, cpbLine, cpbNet>>

\* console_mark, then systemctl stop: tail -n +MARK shows the marked line again.
StopNet(p) ==
  /\ cpbUp[p].sc = "stop"
  /\ cpbUp' = [cpbUp EXCEPT ![p].sc = "check", ![p].stale = cpbLine, ![p].seen = FALSE]
  /\ cpbNet' = FALSE
  /\ CpbSteps /\ UNCHANGED <<cpbOct, cpbLine>>

CheckNet(p) ==
  /\ CpbGo(p, "check", IF cpbNet THEN "idle" ELSE IF p \in CpbAlt THEN "lock" ELSE "reset")
  /\ CpbSteps /\ UNCHANGED <<cpbOct, cpbLine, cpbNet>>

\* Mutant: a wait that timed out is taken for the lock.
LateLockUnchecked(p) ==
  /\ CpbGo(p, "lock", "reset")
  /\ CpbSteps /\ UNCHANGED <<cpbOct, cpbLine, cpbNet>>
\* flock -w 60 around the rest of boot618-pcie.sh.
LateLock(p) ==
  /\ \E got \in BOOLEAN : (got => CtlLockFree) /\ CpbGo(p, "lock", IF got THEN "reset" ELSE "idle")
  /\ CpbSteps /\ UNCHANGED <<cpbOct, cpbLine, cpbNet>>

\* oct-remote-reset: the socket falls back to its a101 image.
ResetChip(p) ==
  /\ CpbGo(p, "reset", "load") /\ cpbCon = <<>>
  /\ \/ /\ cpbOct' = [run |-> "off", sess |-> cpbOct.sess + 1, fpga |-> "a101", img |-> CpbNoImg, said |-> FALSE]
        /\ cpbWin' = "home" /\ cpbStray' = FALSE /\ cpbRam' = [s \in CpbSeg |-> CpbJunk]
        /\ UNCHANGED cpbFaults
     \/ CpbFault /\ UNCHANGED <<cpbOct, cpbMem>>
  /\ UNCHANGED <<cpbWork, cpbPup, cpbTool, cpbCon, cpbLine, cpbNet>>

\* oct-remote-boot; only boot618-pcie.sh looks at what cmd_boot returned.
LoadUboot(p) ==
  /\ \/ /\ cpbOct.run = "off" /\ cpbOct' = [cpbOct EXCEPT !.run = "uboot"] /\ cpbLine' = FALSE
        /\ CpbGo(p, "load", "fpga") /\ UNCHANGED cpbFaults
     \/ /\ IF cpbOct.run = "off" THEN CpbFault ELSE UNCHANGED cpbFaults
        /\ CpbGo(p, "load", IF p \in CpbAlt THEN "idle" ELSE "fpga") /\ UNCHANGED <<cpbOct, cpbLine>>
  /\ UNCHANGED <<cpbWork, cpbPup, cpbTool, cpbMem, cpbCon, cpbNet>>

BeginJob(p, job) == cpbWork' = [cpbWork EXCEPT ![p] = [CpbNoWork EXCEPT !.pc = "prompt", !.job = job]]

\* ffn-fpga-step.sh, or FFN_CP_FPGA=0.
FpgaStep(p) ==
  /\ \/ CpbGo(p, "fpga", "fwait") /\ BeginJob(p, "fpga")
     \/ CpbGo(p, "fpga", "kern") /\ UNCHANGED cpbWork
  /\ UNCHANGED <<cpbEnv, cpbMem, cpbCon, cpbOct, cpbLine, cpbNet>>

\* The step is never fatal: its return code goes to the state file.
FpgaStepDone(p) ==
  /\ cpbUp[p].sc = "fwait" /\ cpbWork[p].pc = "ended"
  /\ cpbUp' = [cpbUp EXCEPT ![p].sc = "kern", ![p].rc = IF cpbWork[p].ok THEN "ok" ELSE "failed"]
  /\ cpbWork' = [cpbWork EXCEPT ![p] = CpbNoWork]
  /\ UNCHANGED <<cpbEnv, cpbMem, cpbCon, cpbOct, cpbLine, cpbNet>>

\* ffn_octboot, in the background or not.
KernelStep(p) ==
  /\ CpbGo(p, "kern", IF p \in CpbAlt THEN "owait" ELSE "watch") /\ BeginJob(p, "kernel")
  /\ UNCHANGED <<cpbEnv, cpbMem, cpbCon, cpbOct, cpbLine, cpbNet>>

BootedSince(p) == cpbUp[p].stale \/ cpbUp[p].seen

\* Ninety polls of the console log; on failure the worker is left behind.
Watch(p) ==
  /\ CpbGo(p, "watch", IF BootedSince(p) THEN "csr" ELSE "idle")
  /\ CpbSteps /\ UNCHANGED <<cpbOct, cpbLine, cpbNet>>

\* pcnet-up.sh with the lock inherited: index 1, then the host daemon.
NetIndex(p) == CpbGo(p, "csr", "net") /\ CpbSteps /\ UNCHANGED <<cpbOct, cpbLine, cpbNet>>
NetStart(p) == CpbGo(p, "net", "owait") /\ cpbNet' = TRUE /\ CpbSteps /\ UNCHANGED <<cpbOct, cpbLine>>

WaitBoot(p) ==
  /\ cpbWork[p].pc = "none" /\ CpbGo(p, "owait", "idle")
  /\ CpbSteps /\ UNCHANGED <<cpbOct, cpbLine, cpbNet>>

\* systemd stops a start that takes too long, with everything in its cgroup.
CpbKilled(p) ==
  /\ cpbUp[p].sc /= "idle" /\ CpbFault
  /\ cpbUp' = [cpbUp EXCEPT ![p] = CpbAt(p, "idle")] /\ cpbWork' = [cpbWork EXCEPT ![p] = CpbNoWork]
  /\ UNCHANGED <<cpbPup, cpbTool, cpbMem, cpbCon, cpbOct, cpbLine, cpbNet>>

\* ---- the workers: ffn_fpga_program, ffn_octboot, WindowedDram -------------------------

WorkGo(p, from, to) == cpbWork[p].pc = from /\ cpbWork' = [cpbWork EXCEPT ![p].pc = to]
WorkKeeps == UNCHANGED <<cpbUp, cpbPup, cpbTool, cpbOct, cpbLine, cpbNet>>
WorkRest == WorkKeeps /\ UNCHANGED cpbFaults

\* Only the FPGA step's return code is looked at.
EndOf(p) == IF cpbUp[p].sc = "fwait" THEN "ended" ELSE "none"

\* "version" at the console: a '#' of any prompt will do.
Prompt(p) ==
  /\ cpbCon = <<>>
  /\ WorkGo(p, "prompt", IF cpbOct.run \in {"uboot", "linux"} THEN "enter" ELSE EndOf(p))
  /\ UNCHANGED <<cpbMem, cpbCon>> /\ WorkRest

\* The index is saved; a vendor tool that says nothing, garbled or not, is a fault and
\* saves nothing.
SavedIndex(sav) == (sav = cpbWin /\ UNCHANGED cpbFaults) \/ (sav = None /\ CpbFault)
Restored(sav) == cpbWin' = IF sav = None THEN cpbWin ELSE sav

Enter(p) ==
  /\ cpbWork[p].pc = "enter"
  /\ \E sav \in CpbSeg \cup {None} :
       /\ SavedIndex(sav)
       /\ cpbWork' = [cpbWork EXCEPT ![p].pc = "map", ![p].sav = sav, ![p].sess = cpbOct.sess]
  /\ UNCHANGED <<cpbMem, cpbCon>> /\ WorkKeeps

\* Before the copy, and again before it is read back.
MapSegment(p) ==
  /\ WorkGo(p, "map", "mapped") \/ WorkGo(p, "remap", "remapped")
  /\ cpbWin' = cpbWork[p].job
  /\ UNCHANGED <<cpbRam, cpbStray, cpbCon>> /\ WorkRest

\* The index register is read back: nothing is moved through another mapping.
IndexTook(seg, took) ==
  \/ took /\ cpbWin = seg /\ UNCHANGED cpbFaults
  \/ ~took /\ IF cpbWin # seg THEN UNCHANGED cpbFaults ELSE CpbFault
CheckIndex(p) ==
  /\ \E took \in BOOLEAN :
       /\ IndexTook(cpbWork[p].job, took)
       /\ WorkGo(p, "mapped", IF took THEN "copy" ELSE "leave") \/ WorkGo(p, "remapped", IF took THEN "read" ELSE "leave")
  /\ UNCHANGED <<cpbMem, cpbCon>> /\ WorkKeeps

Copy(p) ==
  /\ WorkGo(p, "copy", "remap")
  /\ \E c \in {CpbImage(cpbWork[p].job, p)} \cup (IF Garbled(<<"worker", p>>) THEN {CpbJunk} ELSE {}) :
       cpbRam' = [cpbRam EXCEPT ![cpbWin] = c]
  /\ UNCHANGED <<cpbWin, cpbStray, cpbCon>> /\ WorkRest

\* The digest of what was read back decides.
ReadBack(p) ==
  /\ cpbWork[p].pc = "read"
  /\ cpbWork' = [cpbWork EXCEPT ![p].pc = "leave", ![p].ok = (cpbRam[cpbWin] = CpbImage(cpbWork[p].job, p))]
  /\ cpbStray' = (cpbStray \/ cpbWin # cpbWork[p].job)
  /\ UNCHANGED <<cpbWin, cpbRam, cpbCon>> /\ WorkRest

LeaveWindow(p) ==
  /\ cpbWork[p].pc = "leave" /\ Restored(cpbWork[p].sav)
  /\ cpbWork' = [cpbWork EXCEPT ![p].pc = IF cpbWork[p].ok THEN "send" ELSE EndOf(p), ![p].sav = None]
  /\ UNCHANGED <<cpbRam, cpbStray, cpbCon>> /\ WorkRest

\* The log is read from here on.
SendLine(p) ==
  /\ cpbWork[p].pc = "send"
  /\ cpbWork' = [cpbWork EXCEPT ![p].pc = "await", ![p].ok = FALSE]
  /\ cpbCon' = Append(cpbCon, [job |-> cpbWork[p].job, by |-> p, sess |-> cpbWork[p].sess, rc |-> cpbUp[p].rc])
  /\ UNCHANGED cpbMem /\ WorkRest

\* The verdict was read, or the watch or the verdict wait is over.
WorkEnds(p) == WorkGo(p, "await", EndOf(p)) /\ UNCHANGED <<cpbMem, cpbCon>> /\ WorkRest

\* timeout 900 kills the FPGA program, also inside the window.
FpgaTimeout(p) ==
  /\ cpbUp[p].sc = "fwait" /\ cpbWork[p].pc \notin {"none", "ended"} /\ CpbFault
  /\ cpbWork' = [cpbWork EXCEPT ![p].pc = "ended", ![p].ok = FALSE]
  /\ UNCHANGED <<cpbUp, cpbPup, cpbTool, cpbMem, cpbCon, cpbOct, cpbLine, cpbNet>>

\* ---- pcnet-up by hand, and a tool of the window ------------------------------------------

PupRest == UNCHANGED <<cpbUp, cpbWork, cpbTool, cpbMem, cpbCon, cpbOct, cpbLine>>
PupStart == cpbPup = "idle" /\ CtlLockFree /\ CpbFault /\ cpbPup' = "csr" /\ UNCHANGED cpbNet /\ PupRest
\* The lock is given back before the daemon is started.
PcnetUp ==
  /\ \/ cpbPup = "csr" /\ cpbPup' = "net" /\ UNCHANGED cpbNet
     \/ cpbPup = "net" /\ cpbPup' = "idle" /\ cpbNet' = TRUE
  /\ UNCHANGED cpbFaults /\ PupRest

\* ffn_cpdp: the same WindowedDram around one write to its ring, and no lock.
ToolRest == UNCHANGED <<cpbUp, cpbWork, cpbPup, cpbCon, cpbOct, cpbLine, cpbNet>>
ToolEnter ==
  /\ cpbTool.pc = "idle"
  /\ \E sav \in {cpbWin, None} :   \* its start is counted, and so is an index it cannot read
       /\ cpbTool' = [pc |-> "map", sav |-> sav]
       /\ cpbFaults' = cpbFaults + (IF sav = None THEN 2 ELSE 1) /\ cpbFaults' <= CpbMaxFaults
  /\ UNCHANGED cpbMem /\ ToolRest
ToolGo(from, to) == cpbTool.pc = from /\ cpbTool' = [cpbTool EXCEPT !.pc = to]
WindowTool ==
  /\ \/ ToolGo("map", "mapped") /\ cpbWin' = "ring" /\ UNCHANGED <<cpbRam, cpbStray, cpbFaults>>
     \/ /\ \E took \in BOOLEAN : IndexTook("ring", took) /\ ToolGo("mapped", IF took THEN "copy" ELSE "leave")
        /\ UNCHANGED cpbMem
     \/ /\ ToolGo("copy", "leave") /\ cpbRam' = [cpbRam EXCEPT ![cpbWin] = <<"ring", None>>]
        /\ cpbStray' = (cpbStray \/ cpbWin # "ring") /\ UNCHANGED <<cpbWin, cpbFaults>>
     \/ /\ cpbTool.pc = "leave" /\ cpbTool' = [pc |-> "idle", sav |-> None]
        /\ Restored(cpbTool.sav) /\ UNCHANGED <<cpbRam, cpbStray, cpbFaults>>
  /\ ToolRest

\* ---- the console broker and the chip ------------------------------------------------------

CpbChip == UNCHANGED <<cpbPup, cpbTool, cpbMem, cpbNet>>

\* The broker types the line; what reads it depends on what is running.
Forward ==
  /\ cpbCon /= <<>> /\ cpbCon' = Tail(cpbCon) /\ cpbLine' = FALSE
  /\ LET c == Head(cpbCon) IN
     cpbOct' = CASE cpbOct.run = "uboot" /\ c.job = "fpga" ->
                      [cpbOct EXCEPT !.run = "prog", !.img = [by |-> c.by, what |-> cpbRam["fpga"], sess |-> c.sess, rc |-> c.rc]]
                 [] cpbOct.run = "uboot" /\ c.job = "kernel" ->
                      [cpbOct EXCEPT !.run = "linux", !.img = [by |-> c.by, what |-> cpbRam["kernel"], sess |-> c.sess, rc |-> c.rc]]
                 [] OTHER -> cpbOct
  /\ UNCHANGED <<cpbUp, cpbWork, cpbFaults>> /\ CpbChip

\* The bootloader's own verdict, to everyone who reads the log now.
Programmed ==
  /\ cpbOct.run = "prog"
  /\ \E good \in BOOLEAN :
       /\ good => cpbOct.img.what[1] = "fpga"
       /\ cpbOct' = [cpbOct EXCEPT !.run = "uboot", !.img = CpbNoImg, !.fpga = IF good THEN "a00d" ELSE @]
       /\ cpbWork' = [p \in CpbUps |-> IF cpbWork[p].pc = "await" /\ cpbWork[p].job = "fpga"
                                        THEN [cpbWork[p] EXCEPT !.ok = good] ELSE cpbWork[p]]
  /\ cpbLine' = FALSE
  /\ UNCHANGED <<cpbUp, cpbCon, cpbFaults>> /\ CpbChip

\* The init's banner, and whatever is printed after it.
Banner ==
  /\ cpbOct.run = "linux" /\ ~cpbOct.said
  /\ cpbOct' = [cpbOct EXCEPT !.said = TRUE] /\ cpbLine' = TRUE
  /\ cpbUp' = [p \in CpbUps |-> [cpbUp[p] EXCEPT !.seen = (cpbUp[p].sc /= "idle")]]
  /\ UNCHANGED <<cpbWork, cpbCon, cpbFaults>> /\ CpbChip
Chatter ==
  /\ cpbLine /\ cpbNet /\ cpbLine' = FALSE
  /\ UNCHANGED <<cpbUp, cpbWork, cpbCon, cpbOct, cpbFaults>> /\ CpbChip

\* Lines in the FIFO are lost with the broker.
BrokerRestarts ==
  /\ CpbFault /\ cpbCon' = <<>> /\ cpbLine' = FALSE
  /\ UNCHANGED <<cpbUp, cpbWork, cpbOct>> /\ CpbChip

CpbInit ==
  /\ cpbUp = [p \in CpbUps |-> CpbIdleUp] /\ cpbWork = [p \in CpbUps |-> CpbNoWork]
  /\ cpbPup = "idle" /\ cpbTool = [pc |-> "idle", sav |-> None]
  /\ cpbOct \in [run : {"off", "linux"}, sess : {0}, fpga : {"a101"}, img : {CpbNoImg}, said : {TRUE}]
  /\ cpbWin = "home" /\ cpbRam = [s \in CpbSeg |-> CpbJunk] /\ cpbCon = <<>>
  /\ cpbLine = (cpbOct.run = "linux") /\ cpbNet = cpbLine
  /\ cpbStray = FALSE /\ cpbFaults = 0

Script(p) ==
  \/ StopNet(p) \/ CheckNet(p) \/ LateLock(p) \/ ResetChip(p) \/ LoadUboot(p) \/ FpgaStep(p) \/ FpgaStepDone(p)
  \/ KernelStep(p) \/ Watch(p) \/ NetIndex(p) \/ NetStart(p) \/ WaitBoot(p)
BootWorker(p) ==
  \/ Prompt(p) \/ Enter(p) \/ MapSegment(p) \/ CheckIndex(p) \/ Copy(p) \/ ReadBack(p) \/ LeaveWindow(p) \/ SendLine(p) \/ WorkEnds(p)
CpbNext ==
  \/ \E p \in CpbUps : StartScript(p) \/ Script(p) \/ BootWorker(p) \/ CpbKilled(p) \/ FpgaTimeout(p)
  \/ PupStart \/ PcnetUp \/ ToolEnter \/ WindowTool \/ Forward \/ Programmed \/ Banner \/ Chatter \/ BrokerRestarts

CpbFair == (\A p \in CpbUps : WF_cpbVars(Script(p)) /\ WF_cpbVars(BootWorker(p))) /\ WF_cpbVars(PcnetUp) /\ WF_cpbVars(Forward)
CpbSpec == CpbInit /\ [][CpbNext]_cpbVars /\ CpbFair

\* ---- properties --------------------------------------------------------------------------

\* Types, and at most one session of work under the lock.
CpbTypeOK ==
  /\ \A p \in CpbUps : cpbUp[p].n \in 0 .. CpbStarts /\ cpbUp[p].stale \in BOOLEAN /\ cpbUp[p].rc \in {"none", "ok", "failed"}
  /\ cpbWin \in CpbSeg /\ Len(cpbCon) <= 1
  /\ \A p, q \in CpbUps : LockHeld(p) /\ LockHeld(q) => p = q

\* Linux is booted from the kernel its worker staged and verified, whole, also
\* when another user moves the window under a worker that copies.  Excused: the
\* tool's own write, and a read-back, through a window that was moved between
\* the check of the index and the access (ffn_octboot.py main, ffn_octdram.py).
VerifiedBoot ==
  cpbOct.run = "linux" /\ cpbOct.img.by # None => cpbOct.img.what = CpbImage("kernel", cpbOct.img.by) \/ cpbStray

\* A command acts in the bootloader session its image was staged in: nobody
\* resets the chip under a worker, also one its script has left behind.
SameSession == cpbOct.img.by /= None => cpbOct.img.sess = cpbOct.sess

\* The socket is a00d under a Linux whose own FPGA step reported success: no
\* reset came between the two (ffn-fpga-step.sh).
PersonalityHolds ==
  cpbOct.run = "linux" /\ cpbOct.img.rc = "ok" => cpbOct.fpga = "a00d"

\* The control plane runs what was verified, staged in this session of the
\* bootloader, with the personality its own FPGA step reported.
CpbSafe ==
  /\ CpbTypeOK
  /\ VerifiedBoot
  /\ SameSession
  /\ PersonalityHolds
=============================================================================
