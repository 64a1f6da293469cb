------------------------------ MODULE SwitchDaemon ------------------------------
(* ffn-bcmd: one bcm.user on a pty, a thread per client, and a lock around one
   command and its answer (octeon/bcmagent/ffn_bcmd.py, Chip).  An operation is
   one or more commands: port.set and the trunk operations are one, copper
   synchronisation (ffn_bcm_copper.py) reads, writes and reads back.  One copper
   port and one trunk stand for all. *)
EXTENDS FfnCommon, Naturals, Sequences

CONSTANTS
    Client,
    BcmMembers,      \* client -> the trunk membership it configures
    BcmOffers,       \* client -> the operations it asks for
    BcmSpeed         \* MAC speeds

\* No client has the name of the init thread.  Two owners configure different
\* memberships: the same membership is the same trunk, which either may destroy.
ASSUME BcmAssumption ==
    /\ "init" \notin Client /\ None \notin Client \cup {"init"}
    /\ BcmSpeed # {}
    /\ \A c \in Client : BcmOffers[c] \subseteq {"on", "off", "sync", "create", "destroy"}
    /\ \A c, d \in Client : BcmMembers[c] = BcmMembers[d] => c = d

VARIABLES
    chipState,        \* chip.state: "init" | "ready" | "dead"
    chipLock,         \* chip._lock: None, "init" or a client
    cl,           \* client -> [pc, op, at, arg]
    input,        \* commands bcm.user has still to execute
    buf,          \* answers in the pty and in chip._buf
    copper,         \* the copper MAC: [on, speed]
    admin,        \* the last enable a client was told is in force
    trunk,        \* the trunk's members, None when absent
    bcmHeld,         \* client -> the membership its create was acknowledged for
    crossed       \* history: [any, ready]: an answer went to another request

bcmVars == <<chipState, chipLock, cl, input, buf, copper, admin, trunk, bcmHeld, crossed>>
chip == <<copper, trunk>>

BcmIdle == [pc |-> "idle", op |-> None, at |-> 0, arg |-> None]

BcmTypeOK ==
    /\ chipState \in {"init", "ready", "dead"}
    /\ chipLock \in Client \cup {"init", None}
    /\ \A c \in Client : cl[c].pc \in {"idle", "check", "wait", "read", "think"}
    \* whoever reads or thinks over a reading pty holds it alone
    /\ \A c \in Client : cl[c].pc = "read" <=> chipLock = c
    /\ copper \in [on : BOOLEAN, speed : BcmSpeed]

\* ---- requests (handle_line, the op_ functions) ---------------------------

Request(c) ==
    /\ cl[c].pc = "idle"
    /\ \E op \in BcmOffers[c], v \in BcmSpeed :
          /\ op # "sync" => v = CHOOSE x \in BcmSpeed : TRUE
          /\ cl' = [cl EXCEPT ![c] = [pc |-> "check", op |-> op, at |-> 1, arg |-> v]]
          /\ bcmHeld' = IF op = "destroy" THEN [bcmHeld EXCEPT ![c] = None] ELSE bcmHeld
    /\ UNCHANGED <<chipState, chipLock, input, buf, chip, admin, crossed>>

Reply(c) == cl' = [cl EXCEPT ![c] = BcmIdle]

\* Chip.run: the state is looked at before the lock is waited for.
BcmCheck(c) ==
    /\ cl[c].pc = "check"
    /\ IF chipState = "ready" THEN cl' = [cl EXCEPT ![c].pc = "wait"] ELSE Reply(c)
    /\ UNCHANGED <<chipState, chipLock, input, buf, chip, admin, bcmHeld, crossed>>

BcmBusy(c) ==
    /\ cl[c].pc = "wait" /\ chipLock # None
    /\ Reply(c)
    /\ UNCHANGED <<chipState, chipLock, input, buf, chip, admin, bcmHeld, crossed>>

\* The command a client's operation sends at its present stage.
Command(c) ==
    [who |-> c,
     do  |-> CASE cl[c].op # "sync" -> cl[c].op
               [] cl[c].op = "sync" /\ cl[c].at = 2 -> "set"
               [] OTHER -> "get",
     arg |-> IF cl[c].op \in {"create", "destroy"} THEN BcmMembers[c] ELSE cl[c].arg]

BcmWrite(c) ==
    /\ cl[c].pc = "wait" /\ chipLock = None
    /\ chipLock' = c
    /\ input' = Append(input, Command(c))
    /\ cl' = [cl EXCEPT ![c].pc = "read"]
    /\ UNCHANGED <<chipState, buf, chip, admin, bcmHeld, crossed>>

\* ---- bcm.user ------------------------------------------------------------

Answer(cmd, rv) == buf' = Append(buf, [who |-> cmd.who, rv |-> rv, port |-> copper'])

\* The script's ownership check: create only what is absent.
MayCreate(m) == trunk = None
MayDestroy(m) == trunk = m

Execute ==
    /\ input # <<>> /\ chipState # "init"
    /\ LET cmd == Head(input) IN
       \/ /\ cmd.do \in {"on", "off"}
          /\ copper' = [copper EXCEPT !.on = (cmd.do = "on")]
          /\ UNCHANGED trunk /\ Answer(cmd, TRUE)
       \/ /\ cmd.do = "get" /\ UNCHANGED chip /\ Answer(cmd, TRUE)
       \/ \* the MAC is taken down, changed and enabled again whatever failed
          /\ cmd.do = "set"
          /\ \E s \in {copper.speed, cmd.arg} :
                /\ copper' = [on |-> TRUE, speed |-> s]
                /\ Answer(cmd, s = cmd.arg)
          /\ UNCHANGED trunk
       \/ /\ cmd.do = "create"
          /\ \E ok \in BOOLEAN :
                /\ trunk' = IF MayCreate(cmd.arg) /\ ok THEN cmd.arg ELSE trunk
                /\ UNCHANGED copper
                /\ Answer(cmd, trunk' = cmd.arg)
       \/ /\ cmd.do = "destroy"
          /\ trunk' = IF MayDestroy(cmd.arg) THEN None ELSE trunk
          /\ UNCHANGED copper /\ Answer(cmd, trunk' = None)
    /\ input' = Tail(input)
    /\ UNCHANGED <<chipState, chipLock, cl, admin, bcmHeld, crossed>>

\* ---- the answer ----------------------------------------------------------

\* _read_until_prompt: everything up to the prompt at the end of the buffer.
Read(c) ==
    /\ cl[c].pc = "read" /\ buf # <<>>
    /\ buf' = <<>> /\ chipLock' = None
    /\ LET own == Len(buf) = 1 /\ buf[1].who = c
           ans == buf[Len(buf)]
           r == cl[c]
           more == [cl EXCEPT ![c].pc = "check", ![c].at = @ + 1]
           sought == [on |-> TRUE, speed |-> r.arg]
       IN
       /\ crossed' = [any |-> crossed.any \/ ~own, ready |-> crossed.ready \/ (~own /\ chipState = "ready")]
       /\ cl' = IF r.op = "sync" /\ ans.rv
                   /\ \/ r.at = 1 /\ ans.port.on /\ ans.port # sought
                      \/ r.at = 2
                THEN more ELSE [cl EXCEPT ![c] = BcmIdle]
       /\ admin' = IF r.op \in {"on", "off"} THEN r.op ELSE admin
       /\ bcmHeld' = IF r.op = "create" /\ ans.rv THEN [bcmHeld EXCEPT ![c] = BcmMembers[c]] ELSE bcmHeld
    /\ UNCHANGED <<chipState, input, chip>>

\* No prompt in time, or the pty is gone: the session is given up.
\* Mutant: the session stays in use.
GiveUpNot == UNCHANGED chipState
GiveUp == chipState' = "dead"
Timeout(c) ==
    /\ cl[c].pc = "read" /\ buf = <<>>
    /\ GiveUp
    /\ chipLock' = None /\ Reply(c)
    /\ admin' = IF cl[c].op \in {"on", "off"} THEN "unknown" ELSE admin
    /\ UNCHANGED <<input, buf, chip, bcmHeld, crossed>>

\* Mutant: a client that finds the lock taken waits without a limit, and the
\* reader without a deadline.
ClientStepPatient(c) == BcmCheck(c) \/ BcmWrite(c) \/ Read(c)
ClientStep(c) == BcmCheck(c) \/ BcmBusy(c) \/ BcmWrite(c) \/ Read(c) \/ Timeout(c)

\* _await_prompt on the init thread.
InitEnds ==
    /\ chipState = "init"
    /\ \E s \in {"ready", "dead"} : chipState' = s
    /\ chipLock' = None
    /\ UNCHANGED <<cl, input, buf, chip, admin, bcmHeld, crossed>>

BcmInit ==
    /\ chipState = "init" /\ chipLock = "init"
    /\ cl = [c \in Client |-> BcmIdle]
    /\ input = <<>> /\ buf = <<>>
    /\ copper = [on |-> TRUE, speed |-> CHOOSE s \in BcmSpeed : TRUE] /\ admin = "on"
    /\ trunk = None /\ bcmHeld = [c \in Client |-> None]
    /\ crossed = [any |-> FALSE, ready |-> FALSE]

BcmNext == InitEnds \/ Execute \/ \E c \in Client : Request(c) \/ ClientStep(c)

BcmFairness == \A c \in Client : WF_bcmVars(ClientStep(c))
BcmSpec == BcmInit /\ [][BcmNext]_bcmVars /\ BcmFairness

\* ---- properties ----------------------------------------------------------

\* While the session counts as ready, one request maps to one reply: the text
\* read up to the prompt is the answer to the command just written.
OwnAnswerWhileReady == ~crossed.ready

\* A trunk whose creation was acknowledged to a client is intact until that
\* client destroys it, whatever the others create, destroy or retry.
TrunkHeld == (chipState = "ready") => \A c \in Client : bcmHeld[c] # None => trunk = bcmHeld[c]

\* Every request is answered, with the chip dead, busy or silent.
Answered == \A c \in Client : (cl[c].pc # "idle") ~> (cl[c].pc = "idle")

\* A client of a ready shell gets the answer to its own command, and a trunk is
\* held until it is destroyed.
BcmSafe ==
  /\ BcmTypeOK
  /\ OwnAnswerWhileReady
  /\ TrunkHeld
================================================================================
