------------------------------- MODULE PortTable -------------------------------
(***************************************************************************)
(* ffn-portd's table of the faceplate ports (octeon/native/ffn_portd.c):   *)
(* what the MP wants each port to be, which ports the daemon holds as      *)
(* layer-3 owners, which a live aggregate lease holds, the table kept in   *)
(* /run for a restart within the boot, and the carrier of an attached port *)
(* that follows the MP's faceplate observation.  The daemon is one thread: *)
(* a request is one step, a loop pass (release, reconcile, tick) another.  *)
(***************************************************************************)
EXTENDS FfnCommon, Integers

CONSTANTS TabPort, TabGroup, TabMembers,  \* Members[g]: what a lease of g asks for
          Rows,                  \* the tables the MP pushes
          LinkLease,             \* loop passes an observation stays fresh
          Retry,                 \* loop passes a failed attach waits
          Sound,                 \* the ports whose attach can succeed
          MaxSeq

Mode == {"disabled", "l3"} \cup TabGroup

\* What the configuration of the daemon gives: each group names some of the
\* ports, the tables give each port a mode, and no group is called as a mode.
ASSUME TabAssumption ==
  /\ TabMembers \in [TabGroup -> SUBSET TabPort] /\ Rows \subseteq [TabPort -> Mode]
  /\ TabGroup \cap {"disabled", "l3", None} = {} /\ Sound \subseteq TabPort
  /\ LinkLease \in Nat /\ Retry \in Nat /\ MaxSeq \in Nat

VARIABLES tabUp,        \* the daemon process runs
          desired,   \* port->desired and port->group
          saved,     \* the table in /run, None before the first one
          attached,  \* the ports whose packet owner runs
          member,    \* port->member_of
          wait,      \* port->next_try, in loop passes from now
          faulted,   \* attached owners whose d.failed is set
          closing,   \* groups whose lease failed: released in the next pass
          obs,       \* the recorded link observation: seq, the ports up
          tabAge,       \* loop passes since it was recorded
          carrier    \* the attached ports whose carrier is up

tabVars == <<tabUp, desired, saved, attached, member, wait, faulted, closing, obs, tabAge, carrier>>
links == <<obs, tabAge>>
tabHeld == <<attached, member, wait, faulted, closing, carrier>>

TabOff == [p \in TabPort |-> "disabled"]

TabInit == /\ tabUp = TRUE /\ desired = TabOff /\ saved = None
           /\ attached = {} /\ member = [p \in TabPort |-> None]
           /\ wait = [p \in TabPort |-> 0]
           /\ faulted = {} /\ closing = {} /\ carrier = {}
           /\ obs = [seq |-> 0, up |-> {}] /\ tabAge = 0

(* table_save: write_json may fail, which is only logged.                  *)
TabSave(d) == saved' \in {d, saved}

TabRefused(row) == {p \in TabPort : member[p] # None /\ row[p] # member[p]}

TabTable(row) ==
  /\ tabUp
  /\ desired' = [p \in TabPort |-> IF p \in TabRefused(row) THEN desired[p] ELSE row[p]]
  /\ wait' = [p \in TabPort |-> IF desired'[p] # desired[p] THEN 0 ELSE wait[p]]
  /\ TabSave(desired')
  /\ UNCHANGED <<tabUp, attached, member, faulted, closing, carrier, links>>

(* The attach request.  port_attach may fail; the table retries it.        *)
Attach(p) ==
  /\ tabUp /\ member[p] = None
  /\ desired' = [desired EXCEPT ![p] = "l3"]
  /\ IF desired[p] # "l3" THEN TabSave(desired') ELSE UNCHANGED saved
  /\ \/ p \in Sound \cup attached /\ attached' = attached \cup {p} /\ UNCHANGED wait
     \/ p \notin attached /\ wait' = [wait EXCEPT ![p] = Retry] /\ UNCHANGED attached
  /\ UNCHANGED <<tabUp, member, faulted, closing, carrier, links>>

Detach(p) ==
  /\ tabUp
  /\ IF desired[p] = "l3"
       THEN desired' = [desired EXCEPT ![p] = "disabled"] /\ TabSave(desired')
       ELSE UNCHANGED <<desired, saved>>
  /\ attached' = attached \ {p} /\ faulted' = faulted \ {p} /\ carrier' = carrier \ {p}
  /\ UNCHANGED <<tabUp, member, wait, closing, links>>

(* lease_begin: every member must be free, and reserved for this group if  *)
(* it is reserved at all.                                                  *)
\* Mutant: what the table wants the port to be is not looked at.
MayJoinAnyway(g, p) == p \notin attached /\ member[p] = None

MayJoin(g, p) == /\ p \notin attached /\ desired[p] # "l3"
                 /\ member[p] = None
                 /\ desired[p] \in TabGroup => desired[p] = g

LeaseBegin(g) ==
  /\ tabUp /\ g \notin closing
  /\ \A p \in TabPort : member[p] # g
  /\ \A p \in TabMembers[g] : MayJoin(g, p)
  /\ member' = [p \in TabPort |-> IF p \in TabMembers[g] THEN g ELSE member[p]]
  /\ UNCHANGED <<tabUp, desired, saved, attached, wait, faulted, closing, carrier, links>>

(* The lease connection closes, the lease expires, the owner faults.       *)
LeaseFails(g) ==
  /\ tabUp /\ g \notin closing /\ \E p \in TabPort : member[p] = g
  /\ closing' = closing \cup {g}
  /\ UNCHANGED <<tabUp, desired, saved, attached, member, wait, faulted, carrier, links>>

(* A native worker of an attached port faults.                             *)
TabFault(p) ==
  /\ tabUp /\ p \in attached \ faulted
  /\ faulted' = faulted \cup {p}
  /\ UNCHANGED <<tabUp, desired, saved, attached, member, wait, closing, carrier, links>>

TabFresh(a) == a < LinkLease

CarrierNow(ports, a) == {p \in ports : TabFresh(a) /\ p \in obs.up}

Due(p) == wait[p] = 0

TabPass ==
  LET members == [p \in TabPort |-> IF member[p] \in closing THEN None ELSE member[p]]
      kept == {p \in attached \ faulted : desired[p] = "l3"}
      wants == {p \in TabPort \ attached : desired[p] = "l3" /\ members[p] = None /\ Due(p)}
      first == {p \in wants : \A q \in wants : p <= q}
      a == IF tabAge < LinkLease THEN tabAge + 1 ELSE tabAge
  IN /\ tabUp
     /\ member' = members /\ closing' = {} /\ faulted' = {}
     /\ \E new \in {{}, first} :
          /\ new \subseteq Sound
          /\ attached' = kept \cup new
          /\ carrier' = CarrierNow(attached', a)
          /\ wait' = [p \in TabPort |-> IF p \in faulted \cup (first \ new) THEN Retry
                                       ELSE IF wait[p] > 0 THEN wait[p] - 1 ELSE 0]
     /\ tabAge' = a
     /\ UNCHANGED <<tabUp, desired, saved, obs>>

(* links_record_doc: an observation that is not newer is refused.          *)
Newer(seq) == seq > obs.seq

Links(seq, upset) ==
  /\ Newer(seq)
  /\ obs' = [seq |-> seq, up |-> upset] /\ tabAge' = 0
  /\ UNCHANGED <<tabUp, desired, saved, tabHeld>>

(* SIGKILL, and a restart that loads the saved table.                      *)
TabCrash ==
  /\ tabUp /\ tabUp' = FALSE
  /\ attached' = {} /\ member' = [p \in TabPort |-> None]
  /\ faulted' = {} /\ closing' = {} /\ carrier' = {} /\ wait' = [p \in TabPort |-> 0]
  /\ UNCHANGED <<desired, saved, links>>

TabRestart ==
  /\ ~tabUp /\ tabUp' = TRUE
  /\ desired' = IF saved = None THEN TabOff ELSE saved
  /\ UNCHANGED <<saved, tabHeld, links>>

TabNext ==
  \/ \E row \in Rows : TabTable(row)
  \/ \E p \in TabPort : Attach(p) \/ Detach(p) \/ TabFault(p)
  \/ \E g \in TabGroup : LeaseBegin(g) \/ LeaseFails(g)
  \/ \E seq \in 1..MaxSeq, s \in {{}, TabPort} : Links(seq, s)
  \/ TabPass \/ TabCrash \/ TabRestart

(* The loop runs, systemd restarts the daemon, and an attach that can      *)
(* succeed does when it is retried for ever; others may fail for ever.     *)
TabFairness == /\ WF_tabVars(TabPass) /\ WF_tabVars(TabRestart)
               /\ \A p \in Sound : SF_tabVars(TabPass /\ p \in attached')

TabSpec == TabInit /\ [][TabNext]_tabVars /\ TabFairness

-----------------------------------------------------------------------------
(* Every variable has its type.                                            *)
TabTypeOK ==
  /\ tabUp \in BOOLEAN /\ desired \in [TabPort -> Mode] /\ saved \in [TabPort -> Mode] \cup {None}
  /\ attached \subseteq TabPort /\ faulted \subseteq attached /\ carrier \subseteq attached
  /\ wait \in [TabPort -> 0..Retry]
  /\ member \in [TabPort -> TabGroup \cup {None}] /\ closing \subseteq TabGroup
  /\ obs.seq \in 0..MaxSeq /\ obs.up \subseteq TabPort /\ tabAge \in 0..LinkLease

(* A port has one packet owner: what a live lease holds is neither         *)
(* attached nor wanted as a layer-3 port, so no later pass can attach it,  *)
(* whichever of table, attach, lease and restart came first.               *)
OneOwner == \A p \in TabPort : member[p] # None => p \notin attached /\ desired[p] # "l3"

(* A live lease holds all its members or none, and no port is reserved in  *)
(* the table for another group meanwhile.                                  *)
LeaseWhole ==
  \A g \in TabGroup : (\E p \in TabPort : member[p] = g) =>
    \A p \in TabMembers[g] : member[p] = g /\ desired[p] \in {"disabled", g}

(* A port wanted as layer 3 is attached in the end: through faults, failed *)
(* attaches, restarts and other ports whose attach never succeeds (as long *)
(* as attach requests do not keep resetting its retry).                    *)
WantedAttached ==
  \A p \in Sound :
    <>[](desired[p] = "l3" /\ p \notin faulted /\ tabUp) =>
      []<>(p \in attached) \/ []<><<Attach(p)>>_tabVars

(* With the MP silent for good, every carrier it raised goes down.         *)
SilentMpDropsCarrier == <>[](tabAge # 0) => <>[](carrier = {})

\* A port has one owner, and the lease covers the whole table.
TabSafe ==
  /\ TabTypeOK
  /\ OneOwner
  /\ LeaseWhole
=============================================================================
