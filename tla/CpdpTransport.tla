--------------------------- MODULE CpdpTransport ---------------------------
(***************************************************************************)
(* The request/reply transport between the x86 tool (ffn_cpdp.py) and the  *)
(* OCTEON daemon (ffn_cpdpd): two rings of N slots in OCTEON DRAM.  Each   *)
(* access of either end is a step of its own.                              *)
(*                                                                         *)
(* Tool processes follow one another; each takes its ring positions from   *)
(* the region, counts its sequence numbers from 1, and ends on the first   *)
(* timeout or mismatch.  The daemon may be restarted at any access.        *)
(*                                                                         *)
(* A call is its serial number over all processes, which stands for its    *)
(* operation and payload; a reply carries the number of the call that was  *)
(* executed.  The reply ring's tail is written and never read: left out.   *)
(***************************************************************************)
EXTENDS FfnCommon, Integers, FiniteSets

CONSTANTS
  CpdpN,            \* FFN_CPDP_NSLOTS
  CpdpW,            \* counter modulus, 2^32 in the code
  MaxCalls,     \* calls over all tool processes (bound)
  MaxSessions,  \* tool processes (bound)
  MaxRestarts   \* daemon restarts (bound)

\* The width holds two outstanding requests beside none: a tool may publish its
\* next request before the daemon has released the last.
ASSUME CpdpGeometryAssumption ==
  CpdpN \in Nat \ {0} /\ CpdpW \in Nat /\ CpdpW % CpdpN = 0 /\ CpdpW > 2
ASSUME CpdpBoundAssumption ==
  MaxCalls \in Nat /\ MaxSessions \in Nat /\ MaxRestarts \in Nat

CpdpCounter == 0 .. CpdpW - 1
Call == 1 .. MaxCalls
Message == [call : Call, seq : Call]  \* the header's seq and the rest
CpdpSlots == 0 .. CpdpN - 1
ASSUME CpdpNoneAssumption == None \notin Message

VARIABLES
  magic,      \* the superblock's magic is in DRAM
  cpdpReq,        \* CP->DP ring: head, tail, slot
  rsp,        \* DP->CP ring: head, slot
  daemon,     \* pc, tail, rhead, and the private copy of the request
  tool,       \* pc, seq, tx, rx, and the call it is making
  calls, cpdpSessions, restarts,
  clean,      \* no daemon restart yet, every tool started with nothing pending
  executed,   \* executed[c]: how often the daemon carried out call c
  answers     \* <<call, call of the accepted reply>>

toolSide == <<tool, calls, cpdpSessions, clean, answers>>
daemonSide == <<magic, daemon, restarts, executed>>
cpdpVars == <<magic, cpdpReq, rsp, daemon, tool, calls, cpdpSessions, restarts, clean, executed, answers>>

CpdpSucc(c) == (c + 1) % CpdpW
CpdpSlotOf(c) == c % CpdpN
CpdpPending == (cpdpReq.head - daemon.tail) % CpdpW

----------------------------------------------------------------------------
(* The daemon: _start and handle.                                          *)

\* The stores that rebuild the region.  An old magic stays in DRAM meanwhile.
ZeroReqHead ==
  /\ daemon.pc = "zeroReqHead" /\ daemon' = [daemon EXCEPT !.pc = "zeroReqTail"]
  /\ cpdpReq' = [cpdpReq EXCEPT !.head = 0]
  /\ UNCHANGED <<magic, rsp, restarts, executed, toolSide>>
ZeroReqTail ==
  /\ daemon.pc = "zeroReqTail" /\ daemon' = [daemon EXCEPT !.pc = "zeroRspHead"]
  /\ cpdpReq' = [cpdpReq EXCEPT !.tail = 0]
  /\ UNCHANGED <<magic, rsp, restarts, executed, toolSide>>
ZeroRspHead ==
  /\ daemon.pc = "zeroRspHead" /\ daemon' = [daemon EXCEPT !.pc = "publishMagic"]
  /\ rsp' = [rsp EXCEPT !.head = 0]
  /\ UNCHANGED <<magic, cpdpReq, restarts, executed, toolSide>>
PublishMagic ==
  /\ daemon.pc = "publishMagic" /\ daemon' = [daemon EXCEPT !.pc = "poll"]
  /\ magic' = TRUE
  /\ UNCHANGED <<cpdpReq, rsp, restarts, executed, toolSide>>

\* More outstanding than the ring holds: skip to the head.
Resync ==
  /\ daemon.pc = "poll" /\ CpdpPending > CpdpN
  /\ daemon' = [daemon EXCEPT !.tail = cpdpReq.head]
  /\ cpdpReq' = [cpdpReq EXCEPT !.tail = cpdpReq.head]
  /\ UNCHANGED <<magic, rsp, restarts, executed, toolSide>>

CpdpPoll ==
  /\ daemon.pc = "poll" /\ CpdpPending \in 1 .. CpdpN
  /\ daemon' = [daemon EXCEPT !.pc = "snapshot"]
  /\ UNCHANGED <<magic, cpdpReq, rsp, restarts, executed, toolSide>>

\* handle() copies the slot once and works on the copy.
Snapshot ==
  /\ daemon.pc = "snapshot"
  /\ daemon' = [daemon EXCEPT !.pc = "handle", !.copy = cpdpReq.slot[CpdpSlotOf(daemon.tail)]]
  /\ UNCHANGED <<magic, cpdpReq, rsp, restarts, executed, toolSide>>

\* The operation and the reply slot; a slot never written holds no operation.
CpdpHandle ==
  /\ daemon.pc = "handle"
  /\ executed' = [c \in Call |-> IF daemon.copy # None /\ c = daemon.copy.call
                                 THEN executed[c] + 1 ELSE executed[c]]
  /\ rsp' = [rsp EXCEPT !.slot[CpdpSlotOf(daemon.rhead)] = daemon.copy]
  /\ daemon' = [daemon EXCEPT !.pc = "reply"]
  /\ UNCHANGED <<magic, cpdpReq, restarts, toolSide>>

\* Mutant: the request is released before its reply is published.
FinishReleaseFirst ==
  \/ /\ daemon.pc = "reply"
     /\ cpdpReq' = [cpdpReq EXCEPT !.tail = CpdpSucc(daemon.tail)]
     /\ daemon' = [daemon EXCEPT !.pc = "release", !.tail = CpdpSucc(@)]
     /\ UNCHANGED <<magic, rsp, restarts, executed, toolSide>>
  \/ /\ daemon.pc = "release"
     /\ rsp' = [rsp EXCEPT !.head = CpdpSucc(daemon.rhead)]
     /\ daemon' = [daemon EXCEPT !.pc = "poll", !.rhead = CpdpSucc(@)]
     /\ UNCHANGED <<magic, cpdpReq, restarts, executed, toolSide>>

\* The reply's head, then the request's tail.
CpdpFinish ==
  \/ /\ daemon.pc = "reply"
     /\ rsp' = [rsp EXCEPT !.head = CpdpSucc(daemon.rhead)]
     /\ daemon' = [daemon EXCEPT !.pc = "release", !.rhead = CpdpSucc(@)]
     /\ UNCHANGED <<magic, cpdpReq, restarts, executed, toolSide>>
  \/ /\ daemon.pc = "release"
     /\ cpdpReq' = [cpdpReq EXCEPT !.tail = CpdpSucc(daemon.tail)]
     /\ daemon' = [daemon EXCEPT !.pc = "poll", !.tail = CpdpSucc(@)]
     /\ UNCHANGED <<magic, rsp, restarts, executed, toolSide>>

\* The process ends anywhere and is started again.
DaemonRestart ==
  /\ restarts < MaxRestarts /\ restarts' = restarts + 1
  /\ daemon' = [pc |-> "zeroReqHead", tail |-> 0, rhead |-> 0, copy |-> None]
  /\ clean' = FALSE
  /\ UNCHANGED <<magic, cpdpReq, rsp, executed, tool, calls, cpdpSessions, answers>>

Daemon == \/ ZeroReqHead \/ ZeroReqTail \/ ZeroRspHead \/ PublishMagic
          \/ Resync \/ CpdpPoll \/ Snapshot \/ CpdpHandle \/ CpdpFinish

----------------------------------------------------------------------------
(* The tool: Transport.wait_ready and Transport.call.                      *)

CpdpOff == [pc |-> "off", seq |-> 0, tx |-> 0, rx |-> 0, call |-> None]

CpdpOpen ==
  /\ tool.pc = "off" /\ magic
  /\ clean' = (clean /\ cpdpReq.head = cpdpReq.tail)
  /\ cpdpSessions < MaxSessions /\ cpdpSessions' = cpdpSessions + 1
  /\ tool' = [CpdpOff EXCEPT !.pc = "attachTx"]
  /\ UNCHANGED <<cpdpReq, rsp, daemonSide, calls, answers>>

AttachTx ==
  /\ tool.pc = "attachTx"
  /\ tool' = [tool EXCEPT !.pc = "attachRx", !.tx = cpdpReq.head]
  /\ UNCHANGED <<cpdpReq, rsp, daemonSide, calls, cpdpSessions, clean, answers>>

AttachRx ==
  /\ tool.pc = "attachRx"
  /\ tool' = [tool EXCEPT !.pc = "idle", !.rx = rsp.head]
  /\ UNCHANGED <<cpdpReq, rsp, daemonSide, calls, cpdpSessions, clean, answers>>

CpdpSend ==
  /\ tool.pc = "idle" /\ calls < MaxCalls /\ calls' = calls + 1
  /\ cpdpReq' = [cpdpReq EXCEPT !.slot[CpdpSlotOf(tool.tx)] = [call |-> calls', seq |-> tool.seq + 1]]
  /\ tool' = [tool EXCEPT !.pc = "doorbell", !.seq = @ + 1, !.tx = CpdpSucc(@), !.call = calls']
  /\ UNCHANGED <<rsp, daemonSide, cpdpSessions, clean, answers>>

Doorbell ==
  /\ tool.pc = "doorbell"
  /\ cpdpReq' = [cpdpReq EXCEPT !.head = tool.tx]
  /\ tool' = [tool EXCEPT !.pc = "wait"]
  /\ UNCHANGED <<rsp, daemonSide, calls, cpdpSessions, clean, answers>>

SeeReply ==
  /\ tool.pc = "wait" /\ rsp.head # tool.rx
  /\ tool' = [tool EXCEPT !.pc = "take"]
  /\ UNCHANGED <<cpdpReq, rsp, daemonSide, calls, cpdpSessions, clean, answers>>

\* Header and body are read, the slot released, then the sequence compared;
\* a mismatch ends the process.
CpdpTake ==
  LET reply == rsp.slot[CpdpSlotOf(tool.rx)] IN
  /\ tool.pc = "take"
  /\ \/ /\ reply # None /\ reply.seq = tool.seq
        /\ answers' = answers \cup {<<tool.call, reply.call>>}
        /\ tool' = [tool EXCEPT !.pc = "idle", !.rx = CpdpSucc(@)]
     \/ /\ ~(reply # None /\ reply.seq = tool.seq)
        /\ tool' = CpdpOff /\ UNCHANGED answers
  /\ UNCHANGED <<cpdpReq, rsp, daemonSide, calls, cpdpSessions, clean>>

\* The process is done, times out, or is killed.
Leave ==
  /\ tool.pc # "off" /\ tool' = CpdpOff
  /\ UNCHANGED <<cpdpReq, rsp, daemonSide, calls, cpdpSessions, clean, answers>>

Tool == AttachTx \/ AttachRx \/ Doorbell \/ SeeReply \/ CpdpTake

CpdpInit ==
  /\ magic = FALSE
  /\ cpdpReq = [head |-> 0, tail |-> 0, slot |-> [i \in CpdpSlots |-> None]]
  /\ rsp = [head |-> 0, slot |-> [i \in CpdpSlots |-> None]]
  /\ daemon = [pc |-> "zeroReqHead", tail |-> 0, rhead |-> 0, copy |-> None]
  /\ tool = CpdpOff /\ calls = 0 /\ cpdpSessions = 0 /\ restarts = 0 /\ clean = TRUE
  /\ executed = [c \in Call |-> 0] /\ answers = {}

CpdpNext == Daemon \/ DaemonRestart \/ CpdpOpen \/ Tool \/ CpdpSend \/ Leave

CpdpSpec == CpdpInit /\ [][CpdpNext]_cpdpVars

\* The daemon's loop runs for ever and the tool polls without blocking; nobody
\* is obliged to start a tool, to make a call or to give up.
CpdpFairSpec == CpdpSpec /\ WF_cpdpVars(Daemon) /\ WF_cpdpVars(Tool)

----------------------------------------------------------------------------
\* Ring indices, messages and both loops' positions hold what their readers expect.
CpdpTypeOK ==
  /\ magic \in BOOLEAN
  /\ cpdpReq \in [head : CpdpCounter, tail : CpdpCounter, slot : [CpdpSlots -> Message \cup {None}]]
  /\ rsp \in [head : CpdpCounter, slot : [CpdpSlots -> Message \cup {None}]]
  /\ daemon.pc \in {"zeroReqHead", "zeroReqTail", "zeroRspHead", "publishMagic", "poll",
                     "snapshot", "handle", "reply", "release"}
  /\ daemon.tail \in CpdpCounter /\ daemon.rhead \in CpdpCounter
  /\ daemon.copy \in Message \cup {None}
  /\ tool.pc \in {"off", "attachTx", "attachRx", "idle", "doorbell", "wait", "take"}
  /\ tool.tx \in CpdpCounter /\ tool.rx \in CpdpCounter /\ tool.seq \in 0 .. MaxCalls
  /\ tool.call \in Call \cup {None}
  /\ clean \in BOOLEAN /\ executed \in [Call -> Nat] /\ answers \subseteq Call \X Call

\* "resync to whatever indices the daemon currently has": a call that returns
\* hands over the reply to that very call.
AnswersMatch == \A a \in answers : a[1] = a[2]

\* "resync rather than re-execute ... stale requests": the daemon carries out
\* no request twice.  A daemon that restarts under a tool does: the tool's next
\* head covers slots executed before.
CpdpAtMostOnce == \A c \in Call : executed[c] <= 1

\* Both hold as long as the daemon stays up and no tool is started over a
\* pending request, although tools end at any access and the counters wrap.
CleanExchange == clean => AnswersMatch /\ CpdpAtMostOnce

\* Under the same condition no call runs into its timeout.
CallReturns == (tool.pc = "wait" /\ clean) ~> (tool.pc # "wait" \/ ~clean)

\* An exchange that is over leaves nothing of itself in the rings.
CpdpSafe ==
  /\ CpdpTypeOK
  /\ CleanExchange
============================================================================
