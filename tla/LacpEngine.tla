------------------------------ MODULE LacpEngine ------------------------------
(***************************************************************************)
(* The LACP engine of an aggregate (octeon/native/ffn_lacp.c): per member  *)
(* the receive machine with its two deadlines and the observation lease,   *)
(* the selection of one partner bucket, the aggregation wait, and the      *)
(* collect and distribute gates handed to a driver that may fail.  Every   *)
(* entry point ends in a tick; Advance is a tick after time has passed.    *)
(* Timers count down in thirds of a second, the least time between frames. *)
(***************************************************************************)
EXTENDS FfnCommon, Integers, FiniteSets

CONSTANTS Member, LacpSpeed,
          Pdu,       \* what a partner may send: sys, port, agg, sync, coll, match, act
          MinLinks,
          LeaseMax, RxDeadline, Grace, Wait

VARIABLES m,      \* struct member
          active, \* the owner's configuration: it speaks first
          bucket, \* the selected bucket, or None
          lacpFault,  \* the latched fault
          known,  \* has_applied
          gates,  \* e->applied
          lacpHw,     \* what the driver has really opened
          steady  \* observer: time since link, speed or partner last changed

lacpVars == <<m, active, bucket, lacpFault, known, gates, lacpHw, steady>>

LacpClosed == [collect |-> {}, distribute |-> {}]

Down == [link |-> FALSE, speed |-> 0, lease |-> 0, rx |-> "disabled", deadline |-> 0,
         peer |-> None, matched |-> FALSE, selected |-> FALSE, since |-> 0,
         sync |-> FALSE, dirty |-> TRUE, due |-> TRUE]

\* Identifiers and times are unsigned, and 0 is no speed.
LacpWord == [sys : Nat, port : Nat, agg : BOOLEAN, sync : BOOLEAN, coll : BOOLEAN,
             match : BOOLEAN, act : BOOLEAN]
ASSUME LacpAssumption ==
  /\ IsFiniteSet(Member) /\ LacpSpeed \subseteq Nat \ {0} /\ Pdu \subseteq LacpWord /\ None \notin LacpWord
  /\ MinLinks \in Nat /\ LeaseMax \in Nat /\ RxDeadline \in Nat /\ Grace \in Nat /\ Wait \in Nat

(* ffn_lacp_create closes every gate before anything is advertised.        *)
LacpInit == /\ m = [p \in Member |-> Down] /\ active \in BOOLEAN
            /\ bucket = None /\ lacpFault = FALSE /\ known = TRUE
            /\ gates = LacpClosed /\ lacpHw = LacpClosed
            /\ steady = [p \in Member |-> 0]

(* apply: nothing while faulted; a driver error or a readback that differs *)
(* latches the fault and withdraws, and only a withdrawal that reads back  *)
(* closed is known.                                                        *)
LacpApply(desired) ==
  IF lacpFault \/ (known /\ gates = desired) THEN UNCHANGED <<lacpFault, known, gates, lacpHw>>
  ELSE \/ gates' = desired /\ lacpHw' = desired /\ known' = TRUE /\ UNCHANGED lacpFault
       \/ /\ lacpFault' = TRUE
          /\ \/ known' = TRUE /\ gates' = LacpClosed /\ lacpHw' = LacpClosed
             \/ known' = FALSE /\ lacpHw' \in {lacpHw, desired} /\ UNCHANGED gates

(* The receive machine of a member at a tick.                              *)
Gone(s) == [s EXCEPT !.link = FALSE, !.rx = "disabled", !.peer = None, !.matched = FALSE]

Aged(s) ==
  IF ~s.link \/ s.lease = 0 THEN Gone(s)
  ELSE IF s.rx = "current" /\ s.deadline = 0
    THEN [s EXCEPT !.rx = "expired", !.matched = FALSE, !.deadline = Grace, !.dirty = TRUE,
                   !.peer = IF @ = None THEN None ELSE [@ EXCEPT !.sync = FALSE]]
  ELSE IF s.rx = "expired" /\ s.deadline = 0
    THEN [s EXCEPT !.rx = "defaulted", !.peer = None, !.matched = FALSE, !.dirty = TRUE]
  ELSE s

(* Selection: current partners that aggregate, none of them seen on two    *)
(* members, grouped by partner system and local speed.                     *)
Current(s) == s.rx = "current" /\ s.peer # None

Twins(ms, p) ==
  {q \in Member : Current(ms[q]) /\ ms[q].peer.sys = ms[p].peer.sys /\ ms[q].peer.port = ms[p].peer.port}

\* Mutant: a partner port seen on two members stays a candidate.
CandidatesTwice(ms) == {p \in Member : Current(ms[p]) /\ ms[p].peer.agg}

Candidates(ms) == {p \in Member : Current(ms[p]) /\ ms[p].peer.agg /\ Cardinality(Twins(ms, p)) = 1}

KeyOf(s) == <<s.peer.sys, s.speed>>
InBucket(ms, b) == {p \in Candidates(ms) : KeyOf(ms[p]) = b}
Keys(ms) == {KeyOf(ms[p]) : p \in Candidates(ms)}
Weight(ms, b) == Cardinality(InBucket(ms, b)) * b[2]

(* The bucket is kept while it has a candidate, else the heaviest, then    *)
(* the smallest key, is taken.                                             *)
Better(ms, b, c) == \/ Weight(ms, b) > Weight(ms, c)
                    \/ Weight(ms, b) = Weight(ms, c) /\ (b[1] < c[1] \/ (b[1] = c[1] /\ b[2] <= c[2]))

Bucket(ms) == IF bucket \in Keys(ms) THEN bucket
              ELSE IF Keys(ms) = {} THEN None
              ELSE CHOOSE b \in Keys(ms) : \A c \in Keys(ms) : Better(ms, b, c)

Selected(s, sel) ==
  LET since == IF sel /\ ~s.selected THEN Wait ELSE s.since
      sync == sel /\ since = 0 /\ ~lacpFault
  IN [s EXCEPT !.selected = sel, !.since = IF sel THEN since ELSE 0, !.sync = sync,
               !.dirty = @ \/ (sync # s.sync)]

Collectable(s) == s.sync /\ s.matched /\ s.peer # None /\ s.peer.sync

Desired(ms) ==
  LET collect == {p \in Member : Collectable(ms[p])}
      eligible == {p \in collect : ms[p].peer.coll}
  IN [collect |-> collect, distribute |-> IF Cardinality(eligible) >= MinLinks THEN eligible ELSE {}]

(* tick, from the members as an entry point left them.                     *)
LacpTick(ms0) ==
  \E ms \in {[p \in Member |-> Aged(ms0[p])]} :
  \E b \in {Bucket(ms)} :
  \E sel \in {[p \in Member |-> Selected(ms[p], b # None /\ p \in InBucket(ms, b))]} :
    m' = sel /\ bucket' = b /\ LacpApply(Desired(sel)) /\ UNCHANGED active

Restarted(p) == [steady EXCEPT ![p] = 0]

Minus(t) == IF t > 0 THEN t - 1 ELSE 0

LacpAdvance ==
  /\ LacpTick([p \in Member |-> [m[p] EXCEPT !.lease = Minus(@), !.deadline = Minus(@),
                                               !.since = Minus(@), !.due = TRUE]])
  /\ steady' = [p \in Member |-> IF steady[p] < Wait THEN steady[p] + 1 ELSE Wait]

(* ffn_lacp_link: a change of carrier or speed forgets the partner.        *)
Link(p, up, speed) ==
  LET s == m[p]
      n == IF s.link = up /\ s.speed = speed THEN s
           ELSE [s EXCEPT !.peer = None, !.matched = FALSE, !.selected = FALSE, !.sync = FALSE,
                          !.rx = IF up THEN "expired" ELSE "disabled", !.deadline = Grace, !.dirty = TRUE]
  IN /\ LacpTick([m EXCEPT ![p] = [n EXCEPT !.link = up, !.speed = speed, !.lease = LeaseMax]])
     /\ steady' = IF n = s THEN steady ELSE Restarted(p)

(* ffn_lacp_receive: tick first, then the partner's new word.  It matches  *)
(* only when one of the two sides is active.                               *)
SameIdentity(s, pdu) == s.peer # None /\ s.peer.sys = pdu.sys /\ s.peer.port = pdu.port /\ s.peer.agg = pdu.agg

Heard(s, pdu) ==
  LET n == IF SameIdentity(s, pdu) THEN s ELSE [s EXCEPT !.selected = FALSE, !.sync = FALSE]
  IN [n EXCEPT !.dirty = @ \/ s.peer # pdu,
               !.peer = pdu, !.matched = pdu.match /\ (pdu.act \/ active), !.rx = "current", !.deadline = RxDeadline]

LacpReceive(p, pdu) ==
  /\ m[p].link /\ m[p].lease > 0 /\ ~lacpFault
  /\ LacpTick([m EXCEPT ![p] = Heard(@, pdu)])
  /\ steady' = IF SameIdentity(m[p], pdu) /\ m[p].rx = "current" THEN steady ELSE Restarted(p)

(* ffn_lacp_transmissions: a passive member answers only an active partner *)
(* it knows, and the rate limit allows one frame per unit of time (the     *)
(* third of a second the other timers are counted in).  A frame goes when  *)
(* something is dirty; the one the periodic interval or a changed content  *)
(* asks for is the same step with nothing dirty.                           *)
Speaks(s) == s.link /\ ~lacpFault /\ (active \/ (s.peer # None /\ s.peer.act))

Transmit(p) ==
  /\ Speaks(m[p]) /\ m[p].due
  /\ m' = [m EXCEPT ![p].dirty = FALSE, ![p].due = FALSE]
  /\ UNCHANGED <<active, bucket, lacpFault, known, gates, lacpHw, steady>>

(* ffn_lacp_abort and ffn_lacp_stop.                                       *)
LacpWithdraw == \/ known' = TRUE /\ gates' = LacpClosed /\ lacpHw' = LacpClosed
                \/ known' = FALSE /\ UNCHANGED <<lacpHw, gates>>

\* Mutant: a stop clears the fault it stops for.
AbortClears ==
  /\ m' = [p \in Member |-> [Gone(m[p]) EXCEPT !.sync = FALSE, !.selected = FALSE]]
  /\ lacpFault' = ~lacpFault /\ LacpWithdraw
  /\ steady' = [p \in Member |-> 0]
  /\ UNCHANGED <<active, bucket>>

Abort ==
  /\ m' = [p \in Member |-> [Gone(m[p]) EXCEPT !.sync = FALSE, !.selected = FALSE]]
  /\ lacpFault' = TRUE /\ LacpWithdraw
  /\ steady' = [p \in Member |-> 0]
  /\ UNCHANGED <<active, bucket>>

LacpNext ==
  \/ LacpAdvance \/ Abort
  \/ \E p \in Member :
       \/ \E s \in LacpSpeed : Link(p, TRUE, s)
       \/ Link(p, FALSE, 0)
       \/ \E pdu \in Pdu : LacpReceive(p, pdu)
       \/ Transmit(p)

LacpSpec == LacpInit /\ [][LacpNext]_lacpVars

-----------------------------------------------------------------------------
(* Every member record is well formed and the timers stay in range.        *)
LacpTypeOK ==
  /\ \A p \in Member :
       /\ m[p].rx \in {"disabled", "expired", "current", "defaulted"}
       /\ m[p].lease \in 0..LeaseMax /\ m[p].deadline \in 0..(RxDeadline + Grace)
       /\ m[p].since \in 0..Wait /\ m[p].speed \in LacpSpeed \cup {0}
       /\ m[p].peer = None \/ m[p].peer.sys \in {d.sys : d \in Pdu}
       /\ m[p].sync => m[p].selected
       /\ m[p].due \in BOOLEAN
  /\ bucket = None \/ bucket[2] \in LacpSpeed
  /\ lacpFault \in BOOLEAN /\ known \in BOOLEAN /\ active \in BOOLEAN
  /\ gates.collect \subseteq Member /\ gates.distribute \subseteq gates.collect

(* Traffic is distributed over one partner system at one speed and over    *)
(* distinct partner ports, whatever identities the partners claim.         *)
OneAggregator ==
  \A p, q \in lacpHw.distribute : known /\ p # q =>
    /\ KeyOf(m[p]) = KeyOf(m[q])
    /\ m[p].peer.port # m[q].peer.port

(* Fewer than the configured minimum of links never carry traffic.         *)
MinLinksHeld == known => Cardinality(lacpHw.distribute) = 0 \/ Cardinality(lacpHw.distribute) >= MinLinks

(* A member distributes only after its partner, link and speed have stood  *)
(* unchanged for the aggregation wait, under an observation that is still  *)
(* fresh.                                                                  *)
SettledFirst == \A p \in lacpHw.collect : known => steady[p] >= Wait /\ m[p].lease > 0

(* Once a fault is latched no gate opens again, and what is known is       *)
(* closed.                                                                 *)
FaultCloses == [][lacpFault => /\ lacpHw'.collect \subseteq lacpHw.collect
                               /\ lacpHw'.distribute \subseteq lacpHw.distribute
                               /\ lacpFault']_lacpVars

\* Members that forward agree on one aggregator, are enough, and have settled.
LacpSafe ==
  /\ LacpTypeOK
  /\ OneAggregator
  /\ MinLinksHeld
  /\ SettledFirst
=============================================================================
