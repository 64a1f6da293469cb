------------------------------- MODULE DpFlow -------------------------------
(***************************************************************************)
(* The forwarder's per-packet path (ffn_dp_oct.c): flow cache, policy      *)
(* classification, routing and inline inspection of one packet, and the    *)
(* poll loop's commands and sweep around it.                               *)
(*                                                                         *)
(* A packet is abstracted to its normalised flow key, the side it comes    *)
(* from, whether it is a later fragment and whether it has a payload to    *)
(* scan.  Entries keep the age of their last packet, up to Idle.           *)
(***************************************************************************)
EXTENDS FfnCommon, Integers, FiniteSets, Sequences

CONSTANTS
  FlowKey, FlowHome,    \* flow keys; dp_flow_hash & mask
  FragKey,      \* the keys with ports 0, which later fragments get
  FlowN, Window,    \* slots, DP_FLOW_PROBE_MAX
  FlowIdle, FlowBudget, \* DP_FLOW_IDLE_MS in clock steps, DP_FLOW_SWEEP_SLOTS
  Engines,      \* the inline engines are attached
  Scans,        \* DP_ENGINE_FLOW_PKTS
  Policies,     \* policy banks: sequences of rows
  Routes,       \* how the routing table resolves the destinations of each side
  FlowFree

\* What a slot holds, and a row of a policy bank.
FlowEntry == [key : FlowKey, verdict : {"unset", "allow", "drop", "reset"}, insp : BOOLEAN,
              scans : 0 .. Scans, age : 0 .. FlowIdle, pinned : BOOLEAN]
FlowRows == [match : SUBSET (FlowKey \X {1, 2}), ports : BOOLEAN, act : {"drop", "forward", "inspect"},
             pinned : BOOLEAN]
\* dp_flow_window: the window is never larger than the table.
ASSUME FlowAssumption ==
  /\ FlowN \in Nat \ {0} /\ Window \in 1 .. FlowN /\ FlowHome \in [FlowKey -> 0 .. FlowN - 1]
  /\ FlowIdle \in Nat /\ FlowBudget \in Nat /\ Scans \in Nat /\ Engines \in BOOLEAN
  /\ Policies \subseteq Seq(FlowRows)
  /\ FlowFree \notin FlowEntry /\ None \notin 0 .. FlowN - 1

VARIABLES
  flows, pos,   \* the flow table and sweep_pos
  tables,       \* the active policy
  default, defaults,  \* default_decision, and its values since the last flush
  route         \* route[side]: how a packet from that side resolves

flowVars == <<flows, pos, tables, default, defaults, route>>
FlowSlot == 0 .. FlowN - 1
FlowSide == {1, 2}
FlowPacket == {p \in [key : FlowKey, side : FlowSide, frag : BOOLEAN, pay : BOOLEAN] :
                 p.frag => p.key \in FragKey /\ ~p.pay}
FlowUsed(t) == {s \in FlowSlot : t[s] # FlowFree}
FlowThe(S) == CHOOSE x \in S : TRUE  \* the only element of S

\* dp_classify: the first row that matches.  A row names the sides and keys it
\* is for; one that constrains ports never matches a later fragment.
Classify(rows, p) ==
  LET Hits == {i \in DOMAIN rows : <<p.key, p.side>> \in rows[i].match /\ (p.frag => ~rows[i].ports)}
  IN  IF Hits = {} THEN None ELSE rows[CHOOSE i \in Hits : \A j \in Hits : i <= j]
Decision(rows, d, p) ==
  IF Classify(rows, p) = None THEN d ELSE Classify(rows, p).act
Pinned(rows, p) == Classify(rows, p) # None /\ Classify(rows, p).pinned

\* flow_lookup_h: the slot of a key, or None.
FlowLookup(t, k) ==
  LET At(n) == (FlowHome[k] + n) % FlowN
      Hits == {n \in 0 .. Window - 1 : /\ t[At(n)] # FlowFree /\ t[At(n)].key = k
                                       /\ \A m \in 0 .. n : t[At(m)] # FlowFree}
  IN  IF Hits = {} THEN None ELSE At(CHOOSE n \in Hits : TRUE)

\* flow_insert_h: the first free slot of the window, else that of the stalest
\* entry, the last of them if several are equally stale.
Place(t, k) ==
  LET At(n) == (FlowHome[k] + n) % FlowN
      Open == {n \in 0 .. Window - 1 : t[At(n)] = FlowFree}
      Stalest == {n \in 0 .. Window - 1 : \A m \in 0 .. Window - 1 : t[At(n)].age >= t[At(m)].age}
  IN  IF Open # {} THEN At(CHOOSE n \in Open : \A m \in Open : n <= m)
      ELSE At(CHOOSE n \in Stalest : \A m \in Stalest : n >= m)

\* flow_remove_at: close the gap by moving back whatever may sit in it.  In a
\* full table the walk may go round again, but each round brings every entry
\* closer to its home, or none will move any more: Window rounds are enough.
Shift(w) ==
  LET j == (w.j + 1) % FlowN
      e == w.tab[j]
      move == (w.hole - FlowHome[e.key]) % FlowN < (j - FlowHome[e.key]) % FlowN
  IN  IF w.done \/ e = FlowFree \/ j = w.hole THEN [w EXCEPT !.done = TRUE]
      ELSE IF move THEN [w EXCEPT !.tab[w.hole] = e, !.hole = j, !.j = j]
      ELSE [w EXCEPT !.j = j]
FlowRemove(t, s) ==
  LET W[n \in 0 .. Window * FlowN] ==
        IF n = 0 THEN [tab |-> t, hole |-> s, j |-> s, done |-> FALSE]
        ELSE FlowThe({Shift(w) : w \in {W[n - 1]}})
      end == W[Window * FlowN]
  IN  [end.tab EXCEPT ![end.hole] = FlowFree]

\* dp_flow_sweep: Budget slots, looking again at one whose entry was removed.
FlowSweep(t, at) ==
  LET Step(w) == IF w.tab[w.at] # FlowFree /\ w.tab[w.at].age >= FlowIdle
                 THEN [w EXCEPT !.tab = FlowRemove(w.tab, w.at)] ELSE [w EXCEPT !.at = (@ + 1) % FlowN]
      W[n \in 0 .. FlowBudget] == IF n = 0 THEN [tab |-> t, at |-> at]
                                  ELSE FlowThe({Step(w) : w \in {W[n - 1]}})
  IN  W[FlowBudget]

\* dp_l3_resolve: routing applies to what is allowed and has no pinned egress.
Resolve(dec, pinned, side) ==
  IF pinned \/ dec \notin {"forward", "inspect"} \/ route[side] = "ok" THEN dec
  ELSE IF route[side] = "none" THEN "drop" ELSE "local"

\* dp_inspect and the engine verdict it may return for a scanned packet.
Verdict == {"pass", "block", "reset"}
Scanned(dec, e, p) == dec = "inspect" /\ Engines /\ p.pay /\ e.scans < Scans

----------------------------------------------------------------------------
FlowInit ==
  /\ flows = [s \in FlowSlot |-> FlowFree] /\ pos = 0
  /\ tables = <<>> /\ default = "drop" /\ defaults = {"drop"}
  /\ route \in Routes

\* Mutant: the verdict of the scan replaces the one in the cache.
HitForgets(p, v) ==
  LET s == FlowLookup(flows, p.key)
  IN  /\ s # None /\ flows[s].verdict # "unset"
      /\ flows' = [flows EXCEPT ![s] = [@ EXCEPT !.age = 0, !.verdict = IF v = "pass" THEN "allow" ELSE "drop"]]
\* dp_process of a packet whose flow has a verdict.
Hit(p, v) ==
  LET s == FlowLookup(flows, p.key)
      e == flows[s]
      dec == Resolve(IF e.verdict # "allow" THEN "drop" ELSE IF e.insp THEN "inspect" ELSE "forward",
                     e.pinned, p.side)
      scan == Scanned(dec, e, p)
      convicted == scan /\ v # "pass"
  IN  /\ s # None /\ e.verdict # "unset"
      /\ ~scan => v = "pass"
      /\ flows' = [flows EXCEPT ![s] =
           [e EXCEPT !.age = 0, !.scans = IF scan THEN @ + 1 ELSE @,
                     !.verdict = IF ~convicted THEN @ ELSE IF v = "reset" THEN "reset" ELSE "drop",
                     !.insp = @ /\ ~convicted]]

\* dp_process of a packet of a new flow, or of one without a verdict yet: the
\* decision is cached unless the packet goes to the local stack or the FPGA.
Miss(p, v) ==
  LET s == FlowLookup(flows, p.key)
      at == IF s = None THEN Place(flows, p.key) ELSE s
      e == IF s # None THEN flows[s]
           ELSE [key |-> p.key, verdict |-> "unset", insp |-> FALSE, scans |-> 0, age |-> 0,
                 pinned |-> FALSE]
      dec == Resolve(Decision(tables, default, p), Pinned(tables, p), p.side)
      scan == Scanned(dec, e, p)
      convicted == scan /\ v # "pass"
  IN  /\ s # None => flows[s].verdict = "unset"
      /\ ~scan => v = "pass"
      /\ flows' = [flows EXCEPT ![at] =
           [e EXCEPT !.age = 0, !.pinned = Pinned(tables, p),
                     !.scans = IF scan THEN @ + 1 ELSE @,
                     !.insp = @ \/ (dec = "inspect" /\ ~convicted),
                     !.verdict = CASE convicted -> IF v = "reset" THEN "reset" ELSE "drop"
                                   [] ~convicted /\ dec \in {"forward", "inspect"} -> "allow"
                                   [] ~convicted /\ dec = "drop" -> "drop"
                                   [] OTHER -> "unset"]]

FlowProcess(p) ==
  /\ \E v \in Verdict : Hit(p, v) \/ Miss(p, v)
  /\ UNCHANGED <<pos, tables, default, defaults, route>>

\* Mutant: the flow cache survives the change of bank.
SetBankKeeping(rows) ==
  /\ tables' = rows /\ defaults' = {default}
  /\ UNCHANGED <<flows, pos, default, route>>
\* dp_activate_bank of a valid bank; one that fails validation changes nothing.
SetBank(rows) ==
  /\ tables' = rows /\ flows' = [s \in FlowSlot |-> FlowFree] /\ defaults' = {default}
  /\ UNCHANGED <<pos, default, route>>
SetDefault(d) ==
  /\ default' = d /\ defaults' = defaults \cup {d}
  /\ UNCHANGED <<flows, pos, tables, route>>
FlushFlows ==
  /\ flows' = [s \in FlowSlot |-> FlowFree] /\ defaults' = {default}
  /\ UNCHANGED <<pos, tables, default, route>>

\* The clock and sweep of dp_poll_once.
FlowPoll ==
  LET Older == [s \in FlowSlot |-> IF flows[s] = FlowFree \/ flows[s].age = FlowIdle THEN flows[s]
                                   ELSE [flows[s] EXCEPT !.age = @ + 1]]
  IN  /\ UNCHANGED <<tables, default, defaults, route>>
      /\ \E w \in {FlowSweep(Older, pos)} : pos' = w.at /\ flows' = w.tab

\* A next hop's MAC becomes known or is lost, see DpNeigh.
Neighbour(side) ==
  /\ route[side] # "none"
  /\ route' = [route EXCEPT ![side] = IF @ = "ok" THEN "noneigh" ELSE "ok"]
  /\ UNCHANGED <<flows, pos, tables, default, defaults>>

FlowNext ==
  \/ \E p \in FlowPacket : FlowProcess(p)
  \/ \E rows \in Policies : SetBank(rows)
  \/ \E d \in {"drop", "forward"} : SetDefault(d)
  \/ FlushFlows
  \/ FlowPoll
  \/ \E side \in FlowSide : Neighbour(side)

\* dp_run polls until it is told to stop.
FlowFairness == WF_flowVars(FlowPoll)
FlowSpec == FlowInit /\ [][FlowNext]_flowVars /\ FlowFairness

----------------------------------------------------------------------------
FlowTypeOK ==
  /\ \A s \in FlowUsed(flows) : flows[s] \in FlowEntry
  /\ pos \in FlowSlot

\* "The invariant every function below preserves": an entry lies within the
\* window after its home slot with no free slot before it, so a lookup that
\* stops early still finds it, and a flow has one entry.
FlowsFindable ==
  \A s \in FlowUsed(flows) :
    /\ FlowLookup(flows, flows[s].key) = s
    /\ \A r \in FlowUsed(flows) : flows[r].key = flows[s].key => r = s

\* "A policy change invalidates cached verdicts": a flow is allowed only if the
\* policy now active allows a packet of it, under a default that was in force
\* since the cache was last flushed.
AllowedByPolicy ==
  \A s \in FlowUsed(flows) : flows[s].verdict = "allow" =>
    \E p \in FlowPacket, d \in defaults :
      p.key = flows[s].key /\ Decision(tables, d, p) \in {"forward", "inspect"}

\* "Once a flow is convicted ... every later packet drops out of the cache": as
\* long as the entry stays, a drop or reset verdict does.
ConvictionSticks ==
  [][\A s \in FlowUsed(flows) :
       LET k == flows[s].key
           t == FlowLookup(flows', k)
       IN  flows[s].verdict \in {"drop", "reset"} /\ t # None => flows'[t].verdict = flows[s].verdict]_flowVars

\* "An incremental sweep reclaims flows idle for DP_FLOW_IDLE_MS": no flow sits
\* in the table idle for ever, whatever is shifted around the sweep's position.
IdleReclaimed ==
  \A k \in FlowKey : []<>(FlowLookup(flows, k) # None => flows[FlowLookup(flows, k)].age < FlowIdle)

\* Every flow is where a lookup finds it, and the policy allows it.
FlowSafe ==
  /\ FlowTypeOK
  /\ FlowsFindable
  /\ AllowedByPolicy
=============================================================================
