--------------------------- MODULE SessionStream ---------------------------
(* The session observations: the DP's producer over the kernel's conntrack
   events (ffn_session_stream_dp.py), the relay on the MP (session_relay.py),
   its bridge on the CP (ffn_fe100_session_stream.py) and the supervised owner
   there (ffn_fe100_observations.py).  The last three each hold a Receiver
   (session_stream.py).  A session is reduced to its owner's label and a
   version of its row; the frames' fields to what the receivers compare. *)
EXTENDS FfnCommon, Integers, Sequences

CONSTANTS
  ObsId, ObsVersion,   \* conntrack identities; a row's versions are 1 .. ObsVersion
  QueueCap, ChanCap,   \* netlink receive queue; frames the ssh channel buffers
  MaxEvents,           \* changes of the conntrack table (bound)
  ObsMaxFaults         \* lost processes, time-outs, replacements, new contexts (bound)

ASSUME ObsBoundAssumption ==
  ObsVersion \in Nat \ {0} /\ QueueCap \in Nat /\ ChanCap \in Nat /\ ObsMaxFaults \in Nat

VARIABLES
  conn, events,    \* the kernel's table, and the changes so far
  inbox, lost,   \* the producer's subscription: queued events, ENOBUFS
  context,       \* context[k]: generation of the applied policy, of the topology
  dp,            \* the producer
  chan,          \* frames between the producer and the relay
  relay,         \* where the relay is with which frame
  rcv,           \* rcv[n]: the Receiver of the relay, the bridge and the owner
  owned,         \* the nonce the owner is synchronised to, or None
  late,          \* nonces whose observe-close has not reached the owner yet
  obsFaults

conntrack == <<conn, events>>
obsVars == <<conn, events, inbox, lost, context, dp, chan, relay, rcv, owned, late, obsFaults>>

ObsNode == {"mp", "cp", "own"}
Table == [ObsId -> 0 .. ObsVersion]           \* 0: not in the table
Generations == [{"policy", "topology"} -> {0, 1}]
Contexts == Generations \cup {None}
ObsEvent == [id : ObsId, v : 0 .. ObsVersion, tok : BOOLEAN]
Frames == [stream : Nat \ {0}, seq : Nat, op : {"begin", "snapshot", "synchronized", "changes", "unavailable"},
           rows : UNION {[I -> 0 .. ObsVersion] : I \in SUBSET ObsId}, ctx : Contexts]
Receivers == [stream : Nat, seq : Nat, sess : Table, ready : BOOLEAN, ctx : Contexts]
ASSUME ObsNoneAssumption == None \notin Frames \cup Nat
NoRows == [i \in ObsId |-> 0]
Fresh == [stream |-> 0, seq |-> 0, sess |-> NoRows, ready |-> FALSE, ctx |-> None]
ObsFault == obsFaults < ObsMaxFaults /\ obsFaults' = obsFaults + 1

\* ---- the kernel (external) ----------------------------------------------

OwnedRows == [i \in ObsId |-> IF conn[i].own THEN conn[i].v ELSE 0]

\* A change of one entry and its event, which carries the label only when it
\* changed; a full queue loses it.
Change(i, v, own, tok) ==
  /\ events < MaxEvents /\ events' = events + 1
  /\ conn' = [conn EXCEPT ![i] = [v |-> v, own |-> own]]
  /\ IF Len(inbox) < QueueCap
     THEN inbox' = Append(inbox, [id |-> i, v |-> v, tok |-> tok]) /\ lost' = lost
     ELSE inbox' = inbox /\ lost' = TRUE
  /\ UNCHANGED <<context, dp, chan, relay, rcv, owned, late, obsFaults>>

Kernel ==
  \E i \in ObsId :
    \/ conn[i].v = 0 /\ \E own \in BOOLEAN : Change(i, 1, own, own)
    \/ conn[i].v \in 1 .. ObsVersion - 1 /\ Change(i, conn[i].v + 1, conn[i].own, FALSE)
    \/ conn[i].v > 0 /\ ~conn[i].own /\ Change(i, conn[i].v, TRUE, TRUE)
    \/ conn[i].v > 0 /\ Change(i, 0, FALSE, FALSE)

\* The policy is applied anew, or a route, neighbour or link changes.
NewContext(k) ==
  /\ context[k] = 0 /\ context' = [context EXCEPT ![k] = 1] /\ ObsFault
  /\ UNCHANGED <<conntrack, inbox, lost, dp, chan, relay, rcv, owned, late>>

\* ---- the producer --------------------------------------------------------

\* with_known_owner and replay: silence about the owner leaves it as known.
Speaks(t, e) ==
  IF e.v = 0 \/ (~e.tok /\ t[e.id] = 0) THEN [t EXCEPT ![e.id] = 0] ELSE [t EXCEPT ![e.id] = e.v]
ApplyEvents(t, es) ==
  LET A[n \in 0 .. Len(es)] == IF n = 0 THEN t ELSE Speaks(A[n - 1], es[n])
  IN  A[Len(es)]

\* The burst's changes, one entry per identity, the latest winning.
Coalesce(t, es) == [i \in {es[k].id : k \in DOMAIN es} |-> ApplyEvents(t, es)[i]]

ObsFrame(op, rows) == [stream |-> dp.stream, seq |-> dp.seq + 1, op |-> op, rows |-> rows, ctx |-> dp.ctx]
Publish(op, rows) == Len(chan) < ChanCap /\ chan' = Append(chan, ObsFrame(op, rows))
PolicyHolds == context["policy"] = dp.ctx["policy"]
TopologyHolds == context["topology"] = dp.ctx["topology"]
ToGap == dp' = [dp EXCEPT !.pc = "gap"] /\ UNCHANGED <<chan, inbox, lost>>

\* stream(): the context is read, then the subscription opened.
DpStart ==
  /\ dp.pc = "start"
  /\ dp' = [pc |-> "dump", stream |-> dp.stream + 1, seq |-> 0, ctx |-> context,
            rows |-> NoRows, known |-> NoRows]
  /\ inbox' = <<>> /\ lost' = FALSE
  /\ UNCHANGED chan

DpDump ==
  /\ dp.pc = "dump"
  /\ dp' = [dp EXCEPT !.pc = "replay", !.rows = OwnedRows]
  /\ UNCHANGED <<inbox, lost, chan>>

\* Mutant: the events that came in while dumping are discarded.
DpReplayDiscarding ==
  /\ dp.pc = "replay"
  /\ IF lost \/ ~PolicyHolds \/ ~TopologyHolds THEN ToGap
     ELSE dp' = [dp EXCEPT !.pc = "begin"] /\ inbox' = <<>> /\ UNCHANGED <<lost, chan>>
\* The events received while dumping are replayed; a lost one is a gap.
DpReplay ==
  /\ dp.pc = "replay"
  /\ IF lost \/ ~PolicyHolds \/ ~TopologyHolds THEN ToGap
     ELSE \E k \in 0 .. Len(inbox) :
            /\ dp' = [dp EXCEPT !.pc = "begin", !.rows = ApplyEvents(dp.rows, SubSeq(inbox, 1, k))]
            /\ inbox' = SubSeq(inbox, k + 1, Len(inbox)) /\ UNCHANGED <<lost, chan>>

\* event(): nothing leaves across a change of the topology.
DpBegin ==
  /\ dp.pc = "begin"
  /\ IF ~TopologyHolds THEN ToGap
     ELSE Publish("begin", <<>>) /\ dp' = [dp EXCEPT !.pc = "rows", !.seq = @ + 1] /\ UNCHANGED <<inbox, lost>>

DpChunk ==
  /\ dp.pc = "rows" /\ dp.rows # dp.known
  /\ IF ~TopologyHolds THEN ToGap
     ELSE \E i \in ObsId :
            /\ dp.rows[i] # dp.known[i] /\ Publish("snapshot", [j \in {i} |-> dp.rows[i]])
            /\ dp' = [dp EXCEPT !.seq = @ + 1, !.known[i] = dp.rows[i]] /\ UNCHANGED <<inbox, lost>>

DpSync ==
  /\ dp.pc = "rows" /\ dp.rows = dp.known
  /\ IF ~PolicyHolds \/ ~TopologyHolds THEN ToGap
     ELSE Publish("synchronized", <<>>) /\ dp' = [dp EXCEPT !.pc = "live", !.seq = @ + 1] /\ UNCHANGED <<inbox, lost>>

\* A burst leaves as one frame, or none when it concerns nobody known.
DpBurst ==
  /\ dp.pc = "live" /\ (inbox # <<>> \/ lost)
  /\ IF lost \/ ~TopologyHolds THEN ToGap
     ELSE \E k \in 1 .. Len(inbox) :
            LET es == SubSeq(inbox, 1, k)
                after == ApplyEvents(dp.known, es)
                quiet == \A j \in DOMAIN es : ~es[j].tok /\ dp.known[es[j].id] = 0
            IN  /\ inbox' = SubSeq(inbox, k + 1, Len(inbox)) /\ lost' = lost
                /\ IF quiet THEN UNCHANGED <<dp, chan>>
                   ELSE Publish("changes", Coalesce(dp.known, es)) /\ dp' = [dp EXCEPT !.seq = @ + 1, !.known = after]

\* The check of every second; the heartbeat it sends when all is well changes
\* nothing but times, and is left out.
DpHeartbeat == dp.pc = "live" /\ (~PolicyHolds \/ ~TopologyHolds) /\ ToGap

\* The generation is over: "unavailable", and another after three seconds.
DpGap ==
  /\ dp.pc = "gap"
  /\ Publish("unavailable", <<>>)
  /\ dp' = [dp EXCEPT !.pc = "start"]
  /\ UNCHANGED <<inbox, lost>>

Producer ==
  /\ DpStart \/ DpDump \/ DpReplay \/ DpBegin \/ DpChunk \/ DpSync \/ DpBurst \/ DpHeartbeat \/ DpGap
  /\ UNCHANGED <<conntrack, context, relay, rcv, owned, late, obsFaults>>

\* ---- the receivers -------------------------------------------------------

\* Receiver.accept: which frames are in order, and what they leave.
InOrder(r, f) ==
  CASE f.op = "unavailable" -> TRUE
    [] f.op = "begin" -> f.seq = 1 /\ f.stream # r.stream
    [] f.op \in {"snapshot", "synchronized"} -> f.stream = r.stream /\ f.seq = r.seq + 1 /\ ~r.ready
    [] f.op = "changes" -> f.stream = r.stream /\ f.seq = r.seq + 1 /\ r.ready
Merge(t, rows) == [i \in ObsId |-> IF i \in DOMAIN rows THEN rows[i] ELSE t[i]]
Accept(r, f) ==
  CASE f.op = "unavailable" -> Fresh
    [] f.op = "begin" -> [Fresh EXCEPT !.stream = f.stream, !.seq = 1, !.ctx = f.ctx]
    [] f.op = "synchronized" -> [r EXCEPT !.seq = f.seq, !.ready = TRUE]
    [] OTHER -> [r EXCEPT !.seq = f.seq, !.sess = Merge(@, f.rows)]

\* relay(): everything it holds is fenced, both ssh sessions end with it, and
\* the bridge's observe-close is on its way.
Ends ==
  /\ relay' = [relay EXCEPT !.pc = "down", !.frame = None]
  /\ dp' = [dp EXCEPT !.pc = "off"] /\ chan' = <<>>
  /\ late' = late \cup {relay.nonce}

\* main(): a new nonce; observe-start fences the owner and gives it a new
\* Receiver, the intent is acknowledged, then the producer is told to go.
RelayStart ==
  /\ relay.pc = "down"
  /\ relay' = [pc |-> "read", nonce |-> relay.nonce + 1, frame |-> None]
  /\ rcv' = [n \in ObsNode |-> Fresh] /\ owned' = relay.nonce + 1
  /\ dp' = [dp EXCEPT !.pc = "start"]
  /\ UNCHANGED <<conntrack, inbox, lost, context, chan, late, obsFaults>>

\* Each Receiver in turn; one that refuses ends the session.
ObsHop(n, from, to) ==
  /\ relay.pc = from
  /\ LET f == IF n = "mp" THEN Head(chan) ELSE relay.frame
     IN  IF InOrder(rcv[n], f)
         THEN /\ rcv' = [rcv EXCEPT ![n] = Accept(@, f)]
              /\ relay' = [relay EXCEPT !.pc = to, !.frame = f]
              /\ chan' = IF n = "mp" THEN Tail(chan) ELSE chan
              /\ UNCHANGED <<dp, late>>
         ELSE rcv' = [rcv EXCEPT ![n] = Fresh] /\ Ends
  /\ UNCHANGED <<conntrack, inbox, lost, context, obsFaults>>

RelayRead == chan # <<>> /\ ObsHop("mp", "read", "cp") /\ UNCHANGED owned
BridgeAccept == ObsHop("cp", "cp", "own") /\ UNCHANGED owned
\* Observations.chunk of the last fragment: refused without a Receiver for this
\* nonce.
OwnerAccept ==
  \/ owned = relay.nonce /\ ObsHop("own", "own", "ack") /\ owned' = IF relay'.pc = "down" THEN None ELSE owned
  \/ /\ owned # relay.nonce /\ relay.pc = "own" /\ Ends
     /\ UNCHANGED <<conntrack, inbox, lost, context, rcv, owned, obsFaults>>

Summary(r) == <<r.stream, r.seq, r.ready>>
\* The acknowledgement is compared on its way back through bridge and relay.
RelayAck ==
  /\ relay.pc = "ack"
  /\ IF Summary(rcv["own"]) = Summary(rcv["cp"]) /\ Summary(rcv["own"]) = Summary(rcv["mp"])
     THEN relay' = [relay EXCEPT !.pc = "read", !.frame = None] /\ UNCHANGED <<dp, chan, late>>
     ELSE Ends
  /\ UNCHANGED <<conntrack, inbox, lost, context, rcv, owned, obsFaults>>

\* Observations.close: of the relay it is synchronised to.
OwnerClose(n) ==
  /\ n \in late /\ late' = late \ {n}
  /\ IF owned = n THEN owned' = None /\ rcv' = [rcv EXCEPT !["own"] = Fresh] ELSE UNCHANGED <<owned, rcv>>
  /\ UNCHANGED <<conntrack, inbox, lost, context, dp, chan, relay, obsFaults>>

\* The relay dies, is stopped or times out on a silent peer.
RelayDies ==
  /\ relay.pc # "down" /\ ObsFault /\ Ends
  /\ UNCHANGED <<conntrack, inbox, lost, context, rcv, owned>>
\* The owner is replaced (controld, "replace") or its Receiver times out.
OwnerLost ==
  /\ owned # None /\ ObsFault
  /\ owned' = None /\ rcv' = [rcv EXCEPT !["own"] = Fresh]
  /\ UNCHANGED <<conntrack, inbox, lost, context, dp, chan, relay, late>>

\* The relay notices a lost owner at the next frame; without one, when its own
\* read times out.
RelayIdle ==
  /\ relay.pc = "read" /\ owned # relay.nonce /\ chan = <<>> /\ Ends
  /\ UNCHANGED <<conntrack, inbox, lost, context, rcv, owned, obsFaults>>

Relaying == RelayStart \/ RelayRead \/ BridgeAccept \/ OwnerAccept \/ RelayAck \/ RelayIdle

ObsInit ==
  /\ conn = [i \in ObsId |-> [v |-> 0, own |-> FALSE]] /\ events = 0
  /\ inbox = <<>> /\ lost = FALSE /\ context = [k \in {"policy", "topology"} |-> 0]
  /\ dp = [pc |-> "off", stream |-> 0, seq |-> 0, ctx |-> None, rows |-> NoRows, known |-> NoRows]
  /\ chan = <<>> /\ relay = [pc |-> "down", nonce |-> 0, frame |-> None]
  /\ rcv = [n \in ObsNode |-> Fresh] /\ owned = None /\ late = {} /\ obsFaults = 0

ObsNext ==
  \/ Kernel \/ (\E k \in {"policy", "topology"} : NewContext(k))
  \/ Producer \/ Relaying \/ (\E n \in late : OwnerClose(n)) \/ RelayDies \/ OwnerLost

\* The processes run, ssh delivers, systemd restarts the relay.
ObsFairness == WF_obsVars(Producer) /\ WF_obsVars(Relaying)
ObsSpec == ObsInit /\ [][ObsNext]_obsVars /\ ObsFairness

----------------------------------------------------------------------------
ObsTypeOK ==
  /\ conn \in [ObsId -> [v : 0 .. ObsVersion, own : BOOLEAN]] /\ context \in Generations
  /\ inbox \in Seq(ObsEvent) /\ Len(inbox) <= QueueCap /\ chan \in Seq(Frames) /\ Len(chan) <= ChanCap
  /\ dp \in [pc : {"off", "start", "dump", "replay", "begin", "rows", "live", "gap"}, stream : Nat, seq : Nat,
             ctx : Contexts, rows : Table, known : Table]
  /\ rcv \in [ObsNode -> Receivers] /\ \A n \in ObsNode : rcv[n].ready => rcv[n].stream # 0
  /\ relay \in [pc : {"down", "read", "cp", "own", "ack"}, nonce : Nat, frame : Frames \cup {None}]
  /\ owned \in 1 .. relay.nonce \cup {None} /\ late \subseteq 1 .. relay.nonce /\ obsFaults \in 0 .. ObsMaxFaults

Sending == {"begin", "rows", "live"}
\* "Subscribe before dumping, then replay interleaved changes": what the producer
\* has from the dump and the events still queued always make up the table.
NoLostChange ==
  dp.pc \in Sending /\ ~lost =>
    ApplyEvents(IF dp.pc = "live" THEN dp.known ELSE dp.rows, inbox) = OwnedRows

\* Frames a receiver has still to see.
OnTheWay(n) == IF relay.frame # None /\ ((n = "own" /\ relay.pc \in {"cp", "own"}) \/ (n = "cp" /\ relay.pc = "cp"))
           THEN <<relay.frame>> ELSE <<>>
AcceptAll(r, fs) ==
  LET A[n \in 0 .. Len(fs)] == IF n = 0 THEN r ELSE Accept(A[n - 1], fs[n])
  IN  A[Len(fs)]
\* A receiver holds a prefix of what the producer published: with the frames on
\* the way it has exactly the producer's table, whatever was gone through before.
PrefixHeld ==
  \A n \in ObsNode :
    rcv[n].stream = dp.stream /\ dp.pc \in Sending /\ relay.pc # "down" /\ (n = "own" => owned = relay.nonce) =>
      AcceptAll(rcv[n], OnTheWay(n) \o chan).sess = dp.known

\* Between two frames the relay, the bridge and the owner agree, so that the
\* MP's cp_acknowledged report is about the table the owner holds.
SameView ==
  relay.pc = "read" /\ owned = relay.nonce => rcv["mp"] = rcv["own"] /\ rcv["cp"] = rcv["own"]

\* A relay session ends for a fault of its own only: gaps, context changes and
\* the delayed disconnects of earlier sessions do not cost it.
SessionKept == relay.nonce <= obsFaults + 1

\* "A new complete snapshot is required to recover", and it comes: once nothing
\* changes and fails any more, the owner is ready with the kernel's table under
\* the context now applied.
Recovers == <>[](rcv["own"].ready /\ rcv["own"].sess = OwnedRows /\ rcv["own"].ctx = context)

\* The receiver's view is a prefix of what was observed, or it says it is not.
ObsSafe ==
  /\ ObsTypeOK
  /\ NoLostChange
  /\ PrefixHeld
  /\ SameView
  /\ SessionKept
=============================================================================
