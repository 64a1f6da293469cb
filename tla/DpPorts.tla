------------------------------- MODULE DpPorts -------------------------------
(***************************************************************************)
(* Port control of the forwarder: commands from the management processor,  *)
(* events back to it (rings of ffn_dp_abi.h), the shared port table        *)
(* (ffn_dp_oct.c) and the MACs behind it (ffn_dp_bgx_octeon3.c).           *)
(***************************************************************************)
EXTENDS FfnCommon, Integers, Sequences, FiniteSets

CONSTANTS
  NPort,      \* FFN_DP_MAX_PORTS
  Commands,   \* the commands the management processor sends
  Descs,      \* FFN_DP_RING_DESCS
  Banks       \* the policy banks that hold valid tables

\* What the management processor's driver builds (ffn_dp_abi.h).
PrtRole == {"data", "ha"}
ASSUME PrtAssumption ==
  /\ NPort \in Nat /\ Descs \in Nat
  /\ \A c \in Commands :
       /\ c.op = "config" => c.port \in 1 .. NPort /\ c.role \in PrtRole /\ c.has \in BOOLEAN /\ c.mgmt \in BOOLEAN
       /\ c.op = "admin" => c.port \in 1 .. NPort /\ c.up \in BOOLEAN
       /\ c.op \in {"ping", "bank", "enum", "config", "admin"}

VARIABLES
  cmds, evts, \* the rings' contents
  table,       \* the port table: None where no port is configured
  lmac,       \* lmac[p]: the MAC is enabled
  link,       \* whether the cable of p carries a signal
  dpState       \* dp_state of the header

prtVars == <<cmds, evts, table, lmac, link, dpState>>
PrtPort == 1 .. NPort
\* ffn_dp_ring_push of the DP: what finds the ring full is lost.
Push(es) == evts' = evts \o SubSeq(es, 1, IF Len(es) < Descs - Len(evts) THEN Len(es) ELSE Descs - Len(evts))
Evt(op, p, what) == [evt |-> op, port |-> p, what |-> what]
Info(e) == [state |-> e.state, admin |-> e.admin, up |-> e.up]
\* The configured ports in their order.
Known ==
  LET K == {p \in PrtPort : table[p] # None}
  IN  [i \in 1 .. Cardinality(K) |-> CHOOSE p \in K : Cardinality({q \in K : q <= p}) = i]

----------------------------------------------------------------------------
\* dp_region_attach creates the header and the rings; the poll loop follows.
PrtInit ==
  /\ cmds = <<>> /\ evts = <<>>
  /\ table = [p \in PrtPort |-> None]
  /\ lmac = [p \in PrtPort |-> FALSE] /\ link \in [PrtPort -> BOOLEAN]
  /\ dpState = "ready"

\* The management processor: it pushes only while there is room.
PrtSend(c) == Len(cmds) < Descs /\ cmds' = Append(cmds, c) /\ UNCHANGED <<evts, table, lmac, link, dpState>>
PrtReceive == evts # <<>> /\ evts' = Tail(evts) /\ UNCHANGED <<cmds, table, lmac, link, dpState>>
Cable(p) == link' = [link EXCEPT ![p] = ~@] /\ UNCHANGED <<cmds, evts, table, lmac, dpState>>

\* Mutant: a port configured anew keeps the state it had.
ConfigKept(c) == table' = [table EXCEPT ![c.port] =
  IF @ = None THEN [role |-> c.role, has |-> c.has, mgmt |-> c.mgmt, state |-> "powerdown", admin |-> FALSE, up |-> FALSE]
  ELSE [@ EXCEPT !.role = c.role, !.has = c.has, !.mgmt = c.mgmt]]
\* dp_port_config: the port is configured and powered down, in the table.
Config(c) == table' = [table EXCEPT ![c.port] =
  [role |-> c.role, has |-> c.has, mgmt |-> c.mgmt, state |-> "powerdown", admin |-> FALSE, up |-> FALSE]]

\* dp_bgx_apply of an entry that is up: there has to be a MAC, and its
\* initialisation may fail.  What the link is then goes into the table.
Applied(p, e, ok) == e.has /\ ok
\* dp_port_admin: a port that carries no data traffic never goes up.
PrtRefused(e, up) == e = None \/ (up /\ (e.mgmt \/ e.role # "data"))
Admin(c, ok) ==
  LET e == table[c.port]
      runs == c.up /\ Applied(c.port, e, ok)
  IN  /\ lmac' = [lmac EXCEPT ![c.port] = @ \/ runs]
      /\ table' = [table EXCEPT ![c.port] =
            [e EXCEPT !.admin = c.up,
                      !.up = IF runs THEN link[c.port] ELSE @ /\ c.up,
                      !.state = IF runs THEN "run" ELSE IF c.up THEN "startup" ELSE "powerdown"]]

\* One turn of dp_service_commands; ok is whether the hardware obeys.
PrtHandle(ok) ==
  LET c == Head(cmds)
  IN  /\ cmds # <<>> /\ cmds' = Tail(cmds)
      /\ UNCHANGED link
      /\ CASE c.op = "ping" -> Push(<<Evt("pong", None, None)>>) /\ UNCHANGED <<table, lmac, dpState>>
           [] c.op = "bank" ->
                /\ Push(<<Evt(IF c.bank \in Banks THEN "ready" ELSE "error", None, None)>>)
                /\ dpState' = IF c.bank \in Banks THEN "ready" ELSE dpState
                /\ UNCHANGED <<table, lmac>>
           [] c.op = "enum" ->
                /\ Push([i \in DOMAIN Known |-> Evt("info", Known[i], Info(table[Known[i]]))])
                /\ UNCHANGED <<table, lmac, dpState>>
           [] c.op = "config" ->
                /\ Config(c) /\ Push(<<Evt("info", c.port, Info(table'[c.port]))>>)
                /\ UNCHANGED <<lmac, dpState>>
           [] c.op = "admin" ->
                /\ IF PrtRefused(table[c.port], c.up)
                   THEN Push(<<Evt("error", c.port, None)>>) /\ UNCHANGED <<table, lmac>>
                   ELSE Admin(c, ok) /\ Push(<<Evt("link", c.port, Info(table'[c.port]))>>)
                /\ UNCHANGED dpState

PrtNext ==
  \/ \E c \in Commands : PrtSend(c)
  \/ PrtReceive
  \/ \E ok \in BOOLEAN : PrtHandle(ok)
  \/ \E p \in PrtPort : Cable(p)
PrtSpec == PrtInit /\ [][PrtNext]_prtVars

----------------------------------------------------------------------------
PrtEntry == [role : PrtRole, has : BOOLEAN, mgmt : BOOLEAN, state : {"powerdown", "startup", "run"},
             admin : BOOLEAN, up : BOOLEAN]
PrtTypeOK ==
  /\ \A p \in PrtPort : table[p] = None \/ table[p] \in PrtEntry
  /\ Len(cmds) <= Descs /\ Len(evts) <= Descs

\* "Never bring a non-data port up as a data port": whatever a port was
\* configured as before, one that is up carries data and is not for management.
OnlyDataUp == \A p \in PrtPort : table[p] # None /\ table[p].admin => table[p].role = "data" /\ ~table[p].mgmt

\* "The table says so, rather than claiming RUN with nothing behind it": a port
\* that runs, or has a link, is up and its MAC is enabled.
RunIsDriven ==
  \A p \in PrtPort : table[p] # None /\ (table[p].state = "run" \/ table[p].up) => table[p].admin /\ lmac[p]

\* Only a port with a role and a driver is up.
PrtSafe ==
  /\ PrtTypeOK
  /\ OnlyDataUp
  /\ RunIsDriven
=============================================================================
